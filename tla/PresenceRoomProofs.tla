------------------------- MODULE PresenceRoomProofs -------------------------
(***************************************************************************)
(* Proofs about the presence rooms: nobody is left with a stale roster and *)
(* no broadcast pending, the occupied rooms are the registered ones, and   *)
(* the rooms with their timers and sockets implement PresenceRegistry.     *)
(*                                                                         *)
(* The three parts of RoomInv are preserved together: that an emptied room *)
(* takes only its own entry out of the registry needs LiveRoomsAre-        *)
(* Registered of every other room, and that a late frame schedules the     *)
(* right roster needs a participant's room to be the room it is in.        *)
(***************************************************************************)
EXTENDS PresenceRoom, FiniteSetTheorems, TLAPS

RoomInv == TypeOK /\ LiveRoomsAreRegistered /\ StaleMeansScheduled

LEMMA InitRoomInv == Init => RoomInv
  BY RoomAssumption
     DEF Init, RoomInv, TypeOK, LiveRoomsAreRegistered, StaleMeansScheduled

-----------------------------------------------------------------------------
(* Leaving.                                                                *)

\* However many leave at once, those who stay are told and those rooms that
\* are empty now, and no others, are forgotten.
LEMMA RemoveKeepsRooms ==
  ASSUME RoomInv, NEW P \in SUBSET ConnId, removeParticipants(P),
         UNCHANGED <<joined, roomOf, isMicOn, view>>
  PROVE  /\ registry' \in [BoardId -> RoomId \cup {None}]
         /\ members' \in [RoomId -> SUBSET joined]
         /\ rosterTimer' \subseteq RoomId /\ sweepTimer' \subseteq RoomId
         /\ home' = home
         /\ LiveRoomsAreRegistered'
         /\ StaleMeansScheduled'
<1> DEFINE hit     == {r \in RoomId : members[r] \cap P # {}}
           emptied == {r \in hit : members[r] \subseteq P}
<1>1. /\ members' = [r \in RoomId |-> members[r] \ P]
      /\ rosterTimer' = rosterTimer \cup hit
      /\ sweepTimer' = sweepTimer \ emptied
      /\ registry' = [b \in BoardId |-> IF \E r \in emptied : home[r] = b THEN None
                                        ELSE registry[b]]
      /\ home' = home
  BY DEF removeParticipants
<1>2. /\ registry \in [BoardId -> RoomId \cup {None}]
      /\ home \in [RoomId -> BoardId \cup {None}]
      /\ members \in [RoomId -> SUBSET joined]
      /\ rosterTimer \subseteq RoomId /\ sweepTimer \subseteq RoomId
  BY DEF RoomInv, TypeOK
<1>3. /\ registry' \in [BoardId -> RoomId \cup {None}]
      /\ members' \in [RoomId -> SUBSET joined]
      /\ rosterTimer' \subseteq RoomId /\ sweepTimer' \subseteq RoomId
  BY <1>1, <1>2
<1>4. \A r \in RoomId : r \notin emptied /\ members[r] # {} => members'[r] # {}
  BY <1>1, <1>2
<1>5. \A r \in emptied : home[r] \in BoardId /\ registry[home[r]] = r
  BY <1>2 DEF RoomInv, LiveRoomsAreRegistered
<1>6. LiveRoomsAreRegistered'
  <2>1. ASSUME NEW r \in RoomId, members'[r] # {}
        PROVE  home'[r] # None /\ registry'[home'[r]] = r /\ r \in sweepTimer'
    <3>1. members[r] # {} /\ r \notin emptied
      BY <1>1, <1>2, <2>1
    <3>2. home[r] \in BoardId /\ registry[home[r]] = r /\ r \in sweepTimer
      BY <1>2, <3>1 DEF RoomInv, LiveRoomsAreRegistered
    <3>3. \A q \in emptied : home[q] # home[r]
      BY <1>5, <3>1, <3>2
    <3> QED BY <1>1, <3>1, <3>2, <3>3, RoomAssumption
  <2>2. ASSUME NEW b \in BoardId, registry'[b] # None
        PROVE  home'[registry'[b]] = b /\ members'[registry'[b]] # {}
    <3>1. registry'[b] = registry[b] /\ ~ \E r \in emptied : home[r] = b
      BY <1>1, <2>2
    <3>2. registry[b] \in RoomId /\ home[registry[b]] = b /\ members[registry[b]] # {}
      BY <1>2, <2>2, <3>1 DEF RoomInv, LiveRoomsAreRegistered
    <3> QED BY <1>1, <1>4, <3>1, <3>2
  <2>3. ASSUME NEW r \in RoomId, NEW c \in members'[r] PROVE roomOf'[c] = r
    BY <1>1, <1>2 DEF RoomInv, LiveRoomsAreRegistered
  <2> QED BY <2>1, <2>2, <2>3 DEF LiveRoomsAreRegistered
<1>7. StaleMeansScheduled'
  <2> SUFFICES ASSUME NEW r \in RoomId, NEW c \in members'[r],
                      view'[c] # publicParticipants(members[r])', r \notin rosterTimer'
               PROVE  FALSE
    BY DEF StaleMeansScheduled
  <2>1. r \notin hit /\ r \notin rosterTimer
    BY <1>1
  <2>2. members'[r] = members[r]
    BY <1>1, <1>2, <2>1
  <2>3. publicParticipants(members[r])' = publicParticipants(members[r])
    BY <2>2 DEF publicParticipants
  <2> QED BY <2>1, <2>2, <2>3 DEF RoomInv, StaleMeansScheduled
<1> QED BY <1>1, <1>3, <1>6, <1>7

SocketsTyped ==
  /\ socket \in [ConnId -> {"open", "dead", "closing", "closed"}]
  /\ \A c \in ConnId \ joined : socket[c] = "closed"

\* The server closes sockets of connections it let in.
LEMMA CloseTyped ==
  ASSUME TypeOK, NEW P \in SUBSET ConnId, closeSockets(P), UNCHANGED joined
  PROVE  SocketsTyped'
  BY DEF TypeOK, closeSockets, SocketsTyped

\* A removal that changes nothing but sockets, lastSeen and the rooms.
LEMMA RemovalKeeps ==
  ASSUME RoomInv, NEW P \in SUBSET ConnId, removeParticipants(P),
         UNCHANGED <<seatVars, isMicOn, tokens, view, updates>>,
         SocketsTyped', quiet' \subseteq joined
  PROVE  RoomInv'
<1>1. UNCHANGED <<joined, roomOf, isMicOn, view>>
  BY DEF seatVars
<1>2. /\ registry' \in [BoardId -> RoomId \cup {None}]
      /\ members' \in [RoomId -> SUBSET joined]
      /\ rosterTimer' \subseteq RoomId /\ sweepTimer' \subseteq RoomId
      /\ home' = home
      /\ LiveRoomsAreRegistered'
      /\ StaleMeansScheduled'
  BY <1>1, RemoveKeepsRooms
<1>3. TypeOK'
  BY <1>2 DEF RoomInv, TypeOK, seatVars, SocketsTyped
<1> QED BY <1>2, <1>3 DEF RoomInv

-----------------------------------------------------------------------------
(* The other steps.                                                        *)

\* The newcomer's room is its board's only one, and everyone will be told.
LEMMA JoinKeeps ==
  ASSUME RoomInv, NEW b \in BoardId, NEW u \in UserId, join(b, u)
  PROVE  RoomInv'
<1>1. PICK c \in ConnId \ joined, r \in RoomId :
        /\ IF registry[b] = None THEN home[r] = None ELSE r = registry[b]
        /\ registry' = [registry EXCEPT ![b] = r]
        /\ home' = [home EXCEPT ![r] = b]
        /\ members' = [members EXCEPT ![r] = @ \cup {c}]
        /\ rosterTimer' = rosterTimer \cup {r}
        /\ sweepTimer' = sweepTimer \cup {r}
        /\ joined' = joined \cup {c}
        /\ roomOf' = [roomOf EXCEPT ![c] = r]
        /\ userOf' = [userOf EXCEPT ![c] = u]
        /\ socket' = [socket EXCEPT ![c] = "open"]
        /\ view' = [view EXCEPT ![c] = publicParticipants(members[r] \cup {c})]
        /\ UNCHANGED <<isMicOn, tokens, quiet, updates>>
  BY DEF join
<1>2. TypeOK
  BY DEF RoomInv
<1>3. publicParticipants(members[r] \cup {c}) \subseteq ConnId \X BOOLEAN
  BY <1>2 DEF TypeOK, publicParticipants
<1>4. TypeOK'
  BY <1>1, <1>2, <1>3 DEF TypeOK
<1>5. \A q \in RoomId \ {r} : members'[q] = members[q] /\ home'[q] = home[q]
  BY <1>1, <1>2 DEF TypeOK
<1>6. members'[r] = members[r] \cup {c} /\ home'[r] = b /\ registry'[b] = r
  BY <1>1, <1>2 DEF TypeOK
<1>7. home[r] \in {None, b}
  BY <1>1, <1>2 DEF TypeOK, RoomInv, LiveRoomsAreRegistered
<1>8. LiveRoomsAreRegistered'
  <2>1. ASSUME NEW q \in RoomId, members'[q] # {}
        PROVE  home'[q] # None /\ registry'[home'[q]] = q /\ q \in sweepTimer'
    <3>1. CASE q = r
      BY <1>1, <1>6, <3>1, RoomAssumption
    <3>2. CASE q # r
      <4>1. /\ home[q] \in BoardId /\ registry[home[q]] = q /\ q \in sweepTimer
            /\ home'[q] = home[q]
        BY <1>2, <1>5, <2>1, <3>2 DEF TypeOK, RoomInv, LiveRoomsAreRegistered
      <4>2. home[q] # b
        BY <1>1, <3>2, <4>1, RoomAssumption
      <4> QED BY <1>1, <1>2, <4>1, <4>2, RoomAssumption DEF TypeOK
    <3> QED BY <3>1, <3>2
  <2>2. ASSUME NEW d \in BoardId, registry'[d] # None
        PROVE  home'[registry'[d]] = d /\ members'[registry'[d]] # {}
    <3>1. CASE d = b
      BY <1>6, <3>1
    <3>2. CASE d # b
      <4>1. registry'[d] = registry[d]
        BY <1>1, <1>2, <3>2 DEF TypeOK
      <4>2. registry[d] \in RoomId /\ home[registry[d]] = d /\ members[registry[d]] # {}
        BY <1>2, <2>2, <4>1 DEF TypeOK, RoomInv, LiveRoomsAreRegistered
      <4>3. registry[d] # r
        BY <1>7, <3>2, <4>2, RoomAssumption
      <4> QED BY <1>5, <4>1, <4>2, <4>3
    <3> QED BY <3>1, <3>2
  <2>3. ASSUME NEW q \in RoomId, NEW d \in members'[q] PROVE roomOf'[d] = q
    <3>1. CASE d = c
      <4>1. q = r
        BY <1>1, <1>2, <1>5, <2>3, <3>1 DEF TypeOK
      <4> QED BY <1>1, <1>2, <3>1, <4>1 DEF TypeOK
    <3>2. CASE d # c
      <4>1. d \in members[q]
        BY <1>5, <1>6, <2>3, <3>2
      <4>2. d \in ConnId /\ roomOf[d] = q
        BY <1>2, <4>1 DEF TypeOK, RoomInv, LiveRoomsAreRegistered
      <4> QED BY <1>1, <1>2, <3>2, <4>2 DEF TypeOK
    <3> QED BY <3>1, <3>2
  <2> QED BY <2>1, <2>2, <2>3 DEF LiveRoomsAreRegistered
<1>9. StaleMeansScheduled'
  <2> SUFFICES ASSUME NEW q \in RoomId, NEW d \in members'[q],
                      view'[d] # publicParticipants(members[q])', q \notin rosterTimer'
               PROVE  FALSE
    BY DEF StaleMeansScheduled
  <2>1. q # r /\ q \notin rosterTimer
    BY <1>1
  <2>2. members'[q] = members[q]
    BY <1>5, <2>1
  <2>3. d # c
    BY <1>1, <1>2, <2>2 DEF TypeOK
  <2>4. d \in ConnId /\ view'[d] = view[d]
    BY <1>1, <1>2, <2>2, <2>3 DEF TypeOK
  <2>5. publicParticipants(members[q])' = publicParticipants(members[q])
    BY <1>1, <2>2 DEF publicParticipants
  <2> QED BY <2>1, <2>2, <2>4, <2>5 DEF RoomInv, StaleMeansScheduled
<1> QED BY <1>4, <1>8, <1>9 DEF RoomInv

\* A late frame's sender is in no room, or in the room whose roster it changes.
LEMMA MessageKeeps ==
  ASSUME RoomInv, NEW c \in ConnId, handleMessage(c)
  PROVE  RoomInv'
<1>1. TypeOK /\ c \in joined
  BY DEF RoomInv, TypeOK, handleMessage
<1>2. tokens' \in [ConnId -> 0 .. RATE_BURST] /\ quiet' \subseteq joined
  BY <1>1, RoomAssumption DEF TypeOK, handleMessage, spendToken
<1>3. /\ UNCHANGED <<registry, home, members, sweepTimer, seatVars, socket, view>>
      /\ rosterTimer \subseteq rosterTimer' /\ rosterTimer' \subseteq RoomId
      /\ isMicOn' \in [ConnId -> BOOLEAN] /\ updates' \in 0 .. MaxUpdates
      /\ \A d \in ConnId \ {c} : isMicOn'[d] = isMicOn[d]
      /\ isMicOn' = isMicOn \/ roomOf[c] \in rosterTimer'
  <2>1. CASE UNCHANGED <<roomVars, isMicOn, updates>>
    BY <1>1, <2>1 DEF TypeOK, handleMessage, roomVars
  <2>2. CASE /\ updates < MaxUpdates /\ updates' = updates + 1
             /\ \E on \in BOOLEAN : isMicOn' = [isMicOn EXCEPT ![c] = on]
             /\ rosterTimer' = rosterTimer \cup {roomOf[c]}
             /\ UNCHANGED <<registry, home, members, sweepTimer>>
    BY <1>1, <2>2, RoomAssumption DEF TypeOK, handleMessage
  <2> QED BY <2>1, <2>2 DEF handleMessage
<1>4. TypeOK'
  BY <1>1, <1>2, <1>3 DEF TypeOK, seatVars
<1>5. LiveRoomsAreRegistered'
  BY <1>3 DEF RoomInv, LiveRoomsAreRegistered, seatVars
<1>6. StaleMeansScheduled'
  <2> SUFFICES ASSUME NEW r \in RoomId, NEW d \in members'[r],
                      view'[d] # publicParticipants(members[r])', r \notin rosterTimer'
               PROVE  FALSE
    BY DEF StaleMeansScheduled
  <2>1. d \in members[r] /\ view'[d] = view[d] /\ r \notin rosterTimer
    BY <1>3
  <2>2. isMicOn' = isMicOn \/ c \notin members[r]
    BY <1>3 DEF RoomInv, LiveRoomsAreRegistered
  <2>3. \A e \in members[r] : isMicOn'[e] = isMicOn[e]
    BY <1>1, <1>3, <2>2 DEF TypeOK
  <2>4. publicParticipants(members[r])' = publicParticipants(members[r])
    BY <1>3, <2>3 DEF publicParticipants
  <2> QED BY <2>1, <2>4 DEF RoomInv, StaleMeansScheduled
<1> QED BY <1>4, <1>5, <1>6 DEF RoomInv

\* After a broadcast everyone in the room is up to date, and nobody elsewhere
\* was touched.
LEMMA BroadcastKeeps ==
  ASSUME RoomInv, NEW r \in RoomId, broadcastRoster(r)
  PROVE  RoomInv'
<1>1. TypeOK /\ members[r] \subseteq ConnId
  BY DEF RoomInv, TypeOK
<1>2. publicParticipants(members[r]) \subseteq ConnId \X BOOLEAN
  BY <1>1 DEF TypeOK, publicParticipants
<1>3. TypeOK'
  BY <1>1, <1>2 DEF TypeOK, broadcastRoster, seatVars
<1>4. LiveRoomsAreRegistered'
  BY DEF RoomInv, LiveRoomsAreRegistered, broadcastRoster, seatVars
<1>5. StaleMeansScheduled'
  <2> SUFFICES ASSUME NEW q \in RoomId, NEW d \in members'[q],
                      view'[d] # publicParticipants(members[q])', q \notin rosterTimer'
               PROVE  FALSE
    BY DEF StaleMeansScheduled
  <2>1. members' = members /\ d \in ConnId
        /\ publicParticipants(members[q])' = publicParticipants(members[q])
    BY <1>1 DEF broadcastRoster, publicParticipants, TypeOK
  <2>2. CASE q = r
    BY <2>1, <2>2 DEF broadcastRoster
  <2>3. CASE q # r
    <3>1. d \notin members[r]
      BY <2>1, <2>3 DEF RoomInv, LiveRoomsAreRegistered
    <3>2. view'[d] = view[d] /\ q \notin rosterTimer
      BY <2>1, <2>3, <3>1 DEF broadcastRoster
    <3> QED BY <2>1, <3>2 DEF RoomInv, StaleMeansScheduled
  <2> QED BY <2>2, <2>3
<1> QED BY <1>3, <1>4, <1>5 DEF RoomInv

\* Stopping empties every room: only registered ones had people in them.
LEMMA CloseAllKeeps ==
  ASSUME RoomInv, closeAll
  PROVE  RoomInv' /\ members' = [r \in RoomId |-> {}]
<1>1. TypeOK /\ UNCHANGED joined
  BY DEF RoomInv, closeAll, seatVars
<1>2. OnBoards(BoardId) \in SUBSET ConnId
  BY <1>1 DEF TypeOK, OnBoards
<1>3. SocketsTyped'
  BY <1>1, <1>2, CloseTyped DEF closeAll
<1>4. \A r \in RoomId : members'[r] = {}
  <2> SUFFICES ASSUME NEW r \in RoomId, members[r] # {}
               PROVE  \E b \in BoardId : registry[b] = r
    BY DEF closeAll
  <2> QED BY <1>1 DEF RoomInv, LiveRoomsAreRegistered, TypeOK
<1>5. members' = [r \in RoomId |-> {}]
  BY <1>4 DEF closeAll
<1>6. TypeOK'
  BY <1>1, <1>3, <1>5 DEF TypeOK, closeAll, seatVars, SocketsTyped
<1>7. LiveRoomsAreRegistered' /\ StaleMeansScheduled'
  BY <1>5 DEF LiveRoomsAreRegistered, StaleMeansScheduled, closeAll
<1> QED BY <1>5, <1>6, <1>7 DEF RoomInv

LEMMA NextRoomInv == RoomInv /\ [Next]_vars => RoomInv'
<1> SUFFICES ASSUME RoomInv, [Next]_vars PROVE RoomInv'
  OBVIOUS
<1> USE DEF RoomInv
<1>1. CASE UNCHANGED vars
  BY <1>1 DEF vars, roomVars, seatVars, TypeOK, LiveRoomsAreRegistered, StaleMeansScheduled,
              publicParticipants
<1>2. ASSUME NEW b \in BoardId, NEW u \in UserId, join(b, u) PROVE RoomInv'
  BY <1>2, JoinKeeps
<1>3. ASSUME NEW c \in ConnId, socketStep(c) PROVE RoomInv'
  <2>1. CASE handleMessage(c)
    BY <2>1, MessageKeeps
  <2>2. CASE ignoreMessage(c) \/ refill(c) \/ socketDies(c) \/ fallsQuiet(c)
    <3>1. UNCHANGED <<roomVars, seatVars, isMicOn, view, updates>>
      BY <2>2 DEF ignoreMessage, refill, socketDies, fallsQuiet
    <3>2. TypeOK'
      BY <2>2, <3>1, RoomAssumption
         DEF TypeOK, ignoreMessage, refill, socketDies, fallsQuiet, Present, roomVars, seatVars
    <3> QED BY <3>1, <3>2 DEF roomVars, seatVars, LiveRoomsAreRegistered, StaleMeansScheduled,
                              publicParticipants
  <2>3. CASE tooManyMessages(c)
    <3>1. SocketsTyped' /\ quiet' \subseteq joined
      BY <2>3, CloseTyped DEF tooManyMessages, seatVars, TypeOK
    <3> QED BY <2>3, <3>1, RemovalKeeps DEF tooManyMessages
  <2>4. CASE socketCloses(c)
    <3>1. SocketsTyped' /\ quiet' \subseteq joined
      BY <2>4 DEF socketCloses, seatVars, TypeOK, SocketsTyped
    <3> QED BY <2>4, <3>1, RemovalKeeps DEF socketCloses
  <2> QED BY <1>3, <2>1, <2>2, <2>3, <2>4 DEF socketStep
<1>4. ASSUME NEW r \in RoomId, sweep(r) PROVE RoomInv'
  <2>1. members[r] \cap quiet \in SUBSET ConnId /\ UNCHANGED joined
    BY <1>4 DEF TypeOK, sweep, seatVars
  <2>2. SocketsTyped' /\ quiet' \subseteq joined
    BY <1>4, <2>1, CloseTyped DEF sweep, TypeOK
  <2> QED BY <1>4, <2>1, <2>2, RemovalKeeps DEF sweep
<1>5. ASSUME NEW r \in RoomId, broadcastRoster(r) PROVE RoomInv'
  BY <1>5, BroadcastKeeps
<1>6. ASSUME NEW P \in SUBSET ConnId, evict(P) PROVE RoomInv'
  <2>1. SocketsTyped' /\ quiet' \subseteq joined
    BY <1>6, CloseTyped DEF evict, seatVars, TypeOK
  <2> QED BY <1>6, <2>1, RemovalKeeps DEF evict
<1>7. \A B \in SUBSET BoardId : OnBoards(B) \in SUBSET ConnId
  BY DEF TypeOK, OnBoards
<1>8. ASSUME NEW B \in SUBSET BoardId, evictAll(B) \/ \E u \in UserId : evictUser(B, u)
      PROVE  RoomInv'
  BY <1>6, <1>7, <1>8 DEF evictAll, evictUser
<1>9. CASE closeAll
  BY <1>9, CloseAllKeeps
<1> QED BY <1>1, <1>2, <1>3, <1>4, <1>5, <1>8, <1>9 DEF Next

LEMMA RoomInvariant == Spec => []RoomInv
<1>1. Init => RoomInv
  BY InitRoomInv
<1>2. RoomInv /\ [Next]_vars => RoomInv'
  BY NextRoomInv
<1> QED BY <1>1, <1>2, PTL DEF Spec

\* Nobody is left with a stale roster and no broadcast to come.
THEOREM NobodyLeftBehind == Spec => []StaleMeansScheduled
<1>1. RoomInv => StaleMeansScheduled
  BY DEF RoomInv
<1> QED BY <1>1, RoomInvariant, PTL

\* The occupied room objects are the registered ones, each with its sweeper;
\* those the registry let go stay empty.
THEOREM OneRoomPerBoard == Spec => []LiveRoomsAreRegistered
<1>1. RoomInv => LiveRoomsAreRegistered
  BY DEF RoomInv
<1> QED BY <1>1, RoomInvariant, PTL

-----------------------------------------------------------------------------
(* The rooms implement the registry.                                       *)

Guests == {guest(c) : c \in Present}
Open   == {b \in BoardId : registry[b] # None}

\* Where a guest of the registry sits: the connection, in the board's room.
LEMMA GuestsSeated ==
  ASSUME RoomInv, NEW c \in Present
  PROVE  /\ c \in ConnId /\ c \in joined /\ roomOf[c] \in RoomId /\ c \in members[roomOf[c]]
         /\ home[roomOf[c]] \in BoardId /\ registry[home[roomOf[c]]] = roomOf[c]
         /\ home[roomOf[c]] \in Open
         /\ guest(c).id = c /\ guest(c).boardId = home[roomOf[c]]
         /\ guest(c).userId = userOf[c] /\ guest(c).quiet = (c \in quiet)
<1>1. PICK r \in RoomId : c \in members[r]
  BY DEF Present
<1>2. roomOf[c] = r /\ home[r] # None /\ registry[home[r]] = r
  BY <1>1 DEF RoomInv, LiveRoomsAreRegistered
<1>3. home[r] \in BoardId /\ c \in joined /\ c \in ConnId
  BY <1>1, <1>2 DEF RoomInv, TypeOK
<1>4. home[r] \in Open
  BY <1>2, <1>3, RoomAssumption DEF Open
<1> QED BY <1>1, <1>2, <1>3, <1>4 DEF guest

\* The guests on a board are those in the board's room.
LEMMA GuestsOnBoard ==
  ASSUME RoomInv, NEW b \in Open
  PROVE  /\ registry[b] \in RoomId
         /\ {p \in Guests : p.boardId = b} = {guest(c) : c \in members[registry[b]]}
         /\ members[registry[b]] # {}
<1>1. registry[b] \in RoomId /\ home[registry[b]] = b /\ members[registry[b]] # {}
  BY DEF Open, RoomInv, TypeOK, LiveRoomsAreRegistered
<1>2. members[registry[b]] \subseteq Present
  BY <1>1 DEF Present
<1>3. \A c \in members[registry[b]] : roomOf[c] = registry[b]
  BY <1>1 DEF RoomInv, LiveRoomsAreRegistered
<1>4. \A c \in Present : guest(c).boardId = b => c \in members[registry[b]]
  BY GuestsSeated
<1>5. \A c \in members[registry[b]] : guest(c).boardId = b
  BY <1>1, <1>2, <1>3, GuestsSeated
<1> QED BY <1>1, <1>2, <1>4, <1>5 DEF Guests

\* A removal of connections is a removal of guests.
LEMMA RemovalRefines ==
  ASSUME RoomInv, NEW P \in SUBSET ConnId, removeParticipants(P),
         UNCHANGED <<joined, roomOf, userOf>>, quiet' \ P = quiet \ P,
         NEW Q, Q = {guest(c) : c \in P \cap Present}
  PROVE  /\ Registry!removeParticipants(Q)
         /\ P \cap Present = {} => Guests' = Guests /\ Open' = Open
<1> DEFINE emptied == {r \in RoomId : members[r] \cap P # {} /\ members[r] \subseteq P}
<1>1. /\ members' = [r \in RoomId |-> members[r] \ P]
      /\ registry' = [b \in BoardId |-> IF \E r \in emptied : home[r] = b THEN None
                                        ELSE registry[b]]
      /\ home' = home
  BY DEF removeParticipants
<1>2. Present' = Present \ P
  BY <1>1 DEF Present
<1>3. \A c \in Present \ P : guest(c)' = guest(c)
  BY <1>1 DEF guest
<1>4. Guests' = {guest(c) : c \in Present \ P}
  BY <1>2, <1>3 DEF Guests
<1>5. \A c, d \in Present : guest(c) = guest(d) => c = d
  BY GuestsSeated
<1>6. Guests' = Guests \ Q
  BY <1>4, <1>5 DEF Guests
<1>7. Open' = Open \ {b \in Open : \E r \in emptied : home[r] = b}
  BY <1>1 DEF Open
<1>8. \A b \in BoardId : (b \in Open /\ \E r \in emptied : home[r] = b)
        <=> (b \in {p.boardId : p \in Q} /\ {p \in Guests : p.boardId = b} \subseteq Q)
  <2> SUFFICES ASSUME NEW b \in BoardId
      PROVE (b \in Open /\ \E r \in emptied : home[r] = b)
        <=> (b \in {p.boardId : p \in Q} /\ {p \in Guests : p.boardId = b} \subseteq Q)
    OBVIOUS
  <2>1. ASSUME b \in Open, NEW r \in emptied, home[r] = b
        PROVE  b \in {p.boardId : p \in Q} /\ {p \in Guests : p.boardId = b} \subseteq Q
    <3>1. r = registry[b]
      BY <2>1, RoomAssumption DEF RoomInv, LiveRoomsAreRegistered
    <3>2. PICK c \in members[r] : c \in P
      OBVIOUS
    <3>3. members[r] \subseteq P \cap Present
      BY DEF Present
    <3>4. guest(c) \in Q /\ guest(c) \in {p \in Guests : p.boardId = b}
      BY <2>1, <3>1, <3>2, <3>3, GuestsOnBoard
    <3>5. {p \in Guests : p.boardId = b} \subseteq Q
      BY <2>1, <3>1, <3>3, GuestsOnBoard
    <3> QED BY <3>4, <3>5
  <2>2. ASSUME NEW q \in Q, q.boardId = b, {p \in Guests : p.boardId = b} \subseteq Q
        PROVE  b \in Open /\ \E r \in emptied : home[r] = b
    <3>1. PICK c \in P \cap Present : q = guest(c)
      OBVIOUS
    <3>2. /\ roomOf[c] \in RoomId /\ c \in members[roomOf[c]] /\ home[roomOf[c]] = b
          /\ registry[b] = roomOf[c] /\ b \in Open
      BY <2>2, <3>1, GuestsSeated
    <3>3. {guest(d) : d \in members[roomOf[c]]} \subseteq Q
      BY <2>2, <3>2, GuestsOnBoard
    <3>4. members[roomOf[c]] \subseteq Present
      BY <3>2 DEF Present
    <3>5. members[roomOf[c]] \subseteq P
      BY <1>5, <3>3, <3>4
    <3> QED BY <3>1, <3>2, <3>5
  <2> QED BY <2>1, <2>2
<1>9. Open' = Open \ {b \in {p.boardId : p \in Q} : {p \in Guests : p.boardId = b} \subseteq Q}
  BY <1>7, <1>8 DEF Open
<1>10. Registry!removeParticipants(Q)
  BY <1>6, <1>9 DEF Registry!removeParticipants, Registry!On, Guests, Open
<1>11. ASSUME P \cap Present = {} PROVE Guests' = Guests /\ Open' = Open
  BY <1>6, <1>9, <1>11
<1> QED BY <1>10, <1>11

\* A room has as many people in it as its board has guests.
LEMMA RoomOccupancy ==
  ASSUME RoomInv, NEW b \in BoardId, NEW r \in RoomId,
         IF registry[b] = None THEN home[r] = None ELSE r = registry[b],
         Cardinality(members[r]) < MAX_PARTICIPANTS
  PROVE  Cardinality(Registry!On(b)) < MAX_PARTICIPANTS
<1>1. CASE registry[b] = None
  <2>1. Registry!On(b) = {}
    BY <1>1, GuestsSeated DEF Registry!On, Guests, Open
  <2> QED BY <2>1, FS_EmptySet, RoomAssumption
<1>2. CASE registry[b] # None
  <2> DEFINE G == {guest(c) : c \in members[r]}
             f == [c \in members[r] |-> guest(c)]
  <2>1. b \in Open
    BY <1>2 DEF Open
  <2>2. Registry!On(b) = G
    BY <1>2, <2>1, GuestsOnBoard DEF Registry!On, Guests
  <2>3. f \in Surjection(members[r], G)
    BY DEF Surjection
  <2>4. IsFiniteSet(members[r])
    BY FS_Subset, RoomAssumption DEF RoomInv, TypeOK
  <2>5. Cardinality(G) <= Cardinality(members[r])
    BY <2>3, <2>4, FS_Surjection
  <2>6. Cardinality(G) \in Nat /\ Cardinality(members[r]) \in Nat
    BY <2>3, <2>4, FS_Surjection, FS_CardinalityType
  <2> QED BY <2>2, <2>5, <2>6, RoomAssumption
<1> QED BY <1>1, <1>2

LEMMA SameCardinality == ASSUME NEW S PROVE Registry!Cardinality(S) = Cardinality(S)
  BY DEF Registry!Cardinality, Cardinality

LEMMA JoinRefines ==
  ASSUME RoomInv, NEW b \in BoardId, NEW u \in UserId, join(b, u)
  PROVE  Registry!join(b, u)
<1>1. PICK c \in ConnId \ joined, r \in RoomId :
        /\ IF registry[b] = None THEN home[r] = None ELSE r = registry[b]
        /\ Cardinality(members[r]) < MAX_PARTICIPANTS
        /\ registry' = [registry EXCEPT ![b] = r]
        /\ home' = [home EXCEPT ![r] = b]
        /\ members' = [members EXCEPT ![r] = @ \cup {c}]
        /\ joined' = joined \cup {c}
        /\ roomOf' = [roomOf EXCEPT ![c] = r]
        /\ userOf' = [userOf EXCEPT ![c] = u]
        /\ UNCHANGED quiet
  BY DEF join
<1>2. TypeOK
  BY DEF RoomInv
<1>3. Cardinality(Registry!On(b)) < MAX_PARTICIPANTS
  BY <1>1, RoomOccupancy
<1>4. Open' = Open \cup {b}
  BY <1>1, <1>2, RoomAssumption DEF TypeOK, Open
<1>5. Present' = Present \cup {c}
  <2>1. \A q \in RoomId : members'[q] = IF q = r THEN members[r] \cup {c} ELSE members[q]
    BY <1>1, <1>2 DEF TypeOK
  <2> QED BY <2>1 DEF Present
<1>6. guest(c)' = [id |-> c, boardId |-> b, userId |-> u, quiet |-> FALSE]
  <2>1. roomOf'[c] = r /\ userOf'[c] = u /\ home'[r] = b /\ c \notin quiet'
    BY <1>1, <1>2 DEF TypeOK
  <2>2. (c \in quiet') = FALSE
    BY <2>1
  <2> QED BY <2>1, <2>2 DEF guest
<1>7. ASSUME NEW d \in Present PROVE guest(d)' = guest(d)
  <2>1. d \in ConnId /\ d # c /\ roomOf[d] \in RoomId
    BY <1>1, GuestsSeated
  <2>2. roomOf'[d] = roomOf[d] /\ userOf'[d] = userOf[d] /\ quiet' = quiet
    BY <1>1, <1>2, <2>1 DEF TypeOK
  <2>3. home'[roomOf[d]] = home[roomOf[d]]
    <3>1. CASE roomOf[d] # r
      BY <1>1, <1>2, <2>1, <3>1 DEF TypeOK
    <3>2. CASE roomOf[d] = r
      <4>1. home[r] \in BoardId /\ registry[home[r]] = r
        BY <3>2, GuestsSeated
      <4>2. registry[b] = r /\ home[r] = b
        BY <1>1, <1>2, <4>1, RoomAssumption DEF RoomInv, TypeOK, LiveRoomsAreRegistered
      <4> QED BY <1>1, <1>2, <3>2, <4>2 DEF TypeOK
    <3> QED BY <3>1, <3>2
  <2> QED BY <2>2, <2>3 DEF guest
<1>8. Guests' = Guests \cup {[id |-> c, boardId |-> b, userId |-> u, quiet |-> FALSE]}
  BY <1>5, <1>6, <1>7 DEF Guests
<1>9. Registry!Cardinality(Registry!On(b)) < MAX_PARTICIPANTS
  BY <1>3, SameCardinality
<1> QED BY <1>1, <1>4, <1>8, <1>9 DEF Registry!join, Guests, Open

\* Leaving, by whatever event: a guest leaves the registry, or nothing there
\* changes.
LEMMA LeaveRefines ==
  ASSUME RoomInv, NEW c \in ConnId, removeParticipants({c}),
         UNCHANGED <<joined, roomOf, userOf>>, quiet' \ {c} = quiet \ {c}
  PROVE  \/ UNCHANGED <<Guests, Open, joined>>
         \/ \E p \in Guests : Registry!leave(p)
<1>1. CASE c \notin Present
  <2>1. {c} \cap Present = {}
    BY <1>1
  <2> QED BY <2>1, RemovalRefines
<1>2. CASE c \in Present
  <2>1. PICK p \in Guests : p = guest(c)
    BY <1>2 DEF Guests
  <2>2. {p} = {guest(d) : d \in {c} \cap Present} /\ {c} \in SUBSET ConnId
    BY <1>2, <2>1
  <2>3. Registry!removeParticipants({p})
    BY <2>2, RemovalRefines
  <2>4. Registry!leave(p)
    BY <2>1, <2>3 DEF Registry!leave, Guests
  <2> QED BY <2>4
<1> QED BY <1>1, <1>2

\* A guest's lastSeen grows old, or is refreshed; nothing else changes.
LEMMA QuietRefines ==
  ASSUME RoomInv, NEW c \in ConnId,
         UNCHANGED <<registry, home, members, joined, roomOf, userOf>>,
         \/ c \in Present \ quiet /\ quiet' = quiet \cup {c}
         \/ quiet' = quiet \ {c}
  PROVE  \/ UNCHANGED <<Guests, Open, joined>>
         \/ \E p \in Guests : Registry!falls_quiet(p) \/ Registry!frame(p)
<1>1. Present' = Present /\ Open' = Open
  BY DEF Present, Open
<1>2. \A d \in Present \ {c} : guest(d)' = guest(d)
  BY DEF guest
<1>3. CASE c \notin Present \/ (c \in quiet <=> c \in quiet')
  <2>1. c \in Present => guest(c)' = guest(c)
    BY <1>3 DEF guest
  <2> QED BY <1>1, <1>2, <2>1 DEF Guests
<1>4. CASE c \in Present /\ ~(c \in quiet <=> c \in quiet')
  <2>1. PICK p \in Guests : p = guest(c)
    BY <1>4 DEF Guests
  <2>2. \A d \in Present \ {c} : guest(d) # p
    BY <1>4, <2>1, GuestsSeated
  <2>3. Guests' = (Guests \ {p}) \cup {guest(c)'}
    BY <1>1, <1>2, <1>4, <2>1, <2>2 DEF Guests
  <2>4. CASE c \notin quiet /\ c \in quiet'
    <3>1. (c \in quiet) = FALSE /\ (c \in quiet') = TRUE
      BY <2>4
    <3>2. PICK old, new : old = FALSE /\ new = TRUE
      OBVIOUS
    <3>3. p = [id |-> c, boardId |-> home[roomOf[c]], userId |-> userOf[c], quiet |-> old]
      BY <2>1, <3>1, <3>2, Zenon DEF guest
    <3>4. guest(c)' =
            [id |-> c, boardId |-> home[roomOf[c]], userId |-> userOf[c], quiet |-> new]
      BY <3>1, <3>2, Zenon DEF guest
    <3>5. guest(c)' = [p EXCEPT !.quiet = new]
      BY <3>3, <3>4
    <3>6. guest(c)' = [p EXCEPT !.quiet = TRUE]
      BY <3>2, <3>5, Zenon
    <3>7. ~p.quiet
      BY <1>4, <2>1, <2>4, GuestsSeated
    <3>8. Registry!falls_quiet(p)
      BY <1>1, <2>3, <3>6, <3>7 DEF Registry!falls_quiet, Guests, Open
    <3> QED BY <3>8
  <2>5. CASE c \in quiet /\ c \notin quiet'
    <3>1. (c \in quiet) = TRUE /\ (c \in quiet') = FALSE
      BY <2>5
    <3>2. PICK old, new : old = TRUE /\ new = FALSE
      OBVIOUS
    <3>3. p = [id |-> c, boardId |-> home[roomOf[c]], userId |-> userOf[c], quiet |-> old]
      BY <2>1, <3>1, <3>2, Zenon DEF guest
    <3>4. guest(c)' =
            [id |-> c, boardId |-> home[roomOf[c]], userId |-> userOf[c], quiet |-> new]
      BY <3>1, <3>2, Zenon DEF guest
    <3>5. guest(c)' = [p EXCEPT !.quiet = new]
      BY <3>3, <3>4
    <3>6. guest(c)' = [p EXCEPT !.quiet = FALSE]
      BY <3>2, <3>5, Zenon
    <3>7. p.quiet
      BY <1>4, <2>1, <2>5, GuestsSeated
    <3>8. Registry!frame(p)
      BY <1>1, <2>3, <3>6, <3>7 DEF Registry!frame, Guests, Open
    <3> QED BY <3>8
  <2> QED BY <1>4, <2>4, <2>5
<1> QED BY <1>3, <1>4

-----------------------------------------------------------------------------
(* Every step of the rooms is a step of the registry, or none.             *)

Same == UNCHANGED <<Guests, Open, joined>>

\* A whole evicted set leaves at once.
LEMMA EvictRefines ==
  ASSUME RoomInv, NEW B \in SUBSET BoardId
  PROVE  /\ evictAll(B) => Registry!evictAll(B)
         /\ \A u \in UserId : evictUser(B, u) => Registry!evictUser(B, u)
<1>1. OnBoards(B) \in SUBSET ConnId
  BY DEF RoomInv, TypeOK, OnBoards
<1>2. OnBoards(B) \subseteq Present
  BY DEF OnBoards, Present
<1>3. \A c \in Present : c \in OnBoards(B) <=> guest(c).boardId \in B
  <2> SUFFICES ASSUME NEW c \in Present PROVE c \in OnBoards(B) <=> home[roomOf[c]] \in B
    BY GuestsSeated
  <2>1. home[roomOf[c]] \in B => c \in OnBoards(B)
    BY GuestsSeated DEF OnBoards
  <2>2. ASSUME c \in OnBoards(B) PROVE home[roomOf[c]] \in B
    <3>1. PICK b \in B, r \in RoomId : registry[b] = r /\ c \in members[r]
      BY <2>2 DEF OnBoards
    <3> QED BY <3>1, RoomAssumption DEF RoomInv, LiveRoomsAreRegistered
  <2> QED BY <2>1, <2>2
<1>4. ASSUME evictAll(B) PROVE Registry!evictAll(B)
  <2>1. PICK Q : Q = {guest(c) : c \in OnBoards(B) \cap Present}
    OBVIOUS
  <2>2. Q = Registry!OnAny(B)
    BY <1>2, <1>3, <2>1 DEF Registry!OnAny, Guests
  <2>3. Registry!removeParticipants(Q)
    BY <1>1, <1>4, <2>1, RemovalRefines DEF evictAll, evict, seatVars
  <2> QED BY <2>2, <2>3 DEF Registry!evictAll, Registry!removeParticipants
<1>5. ASSUME NEW u \in UserId, evictUser(B, u) PROVE Registry!evictUser(B, u)
  <2>1. PICK P \in SUBSET ConnId : P = {c \in OnBoards(B) : userOf[c] = u}
    BY <1>1
  <2>2. PICK Q : Q = {guest(c) : c \in P \cap Present}
    OBVIOUS
  <2>3. \A c \in Present : guest(c).userId = userOf[c]
    BY GuestsSeated
  <2>4. Q = Registry!OfUser(B, u)
    BY <1>2, <1>3, <2>1, <2>2, <2>3 DEF Registry!OfUser, Registry!OnAny, Guests
  <2>5. Registry!removeParticipants(Q)
    BY <1>5, <2>1, <2>2, RemovalRefines DEF evictUser, evict, seatVars
  <2> QED BY <2>4, <2>5 DEF Registry!evictUser, Registry!removeParticipants
<1> QED BY <1>4, <1>5

\* One room's sweep is the sweep of its board.
LEMMA SweepRefines ==
  ASSUME RoomInv, NEW r \in RoomId, sweep(r)
  PROVE  \E b \in BoardId : Registry!sweep(b)
<1>1. PICK P \in SUBSET ConnId : P = members[r] \cap quiet
  BY DEF RoomInv, TypeOK
<1>2. P # {} /\ removeParticipants(P) /\ UNCHANGED <<joined, roomOf, userOf, quiet>>
  BY <1>1 DEF sweep, seatVars
<1>3. PICK b \in Open : b = home[r] /\ registry[b] = r
  <2>1. home[r] # None /\ registry[home[r]] = r
    BY <1>1, <1>2 DEF RoomInv, LiveRoomsAreRegistered
  <2> QED BY <2>1, RoomAssumption DEF RoomInv, TypeOK, Open
<1>4. members[r] \subseteq Present
  BY DEF Present
<1>5. Registry!On(b) = {guest(c) : c \in members[r]}
  BY <1>3, GuestsOnBoard DEF Registry!On, Guests
<1>6. \A c \in members[r] : guest(c).quiet <=> c \in quiet
  BY <1>4, GuestsSeated
<1>7. PICK Q : Q = {guest(c) : c \in P \cap Present}
  OBVIOUS
<1>8. Q = {p \in Registry!On(b) : p.quiet}
  BY <1>1, <1>4, <1>5, <1>6, <1>7
<1>9. Registry!removeParticipants(Q)
  BY <1>2, <1>7, RemovalRefines
<1>10. Q # {}
  BY <1>1, <1>2, <1>4, <1>7
<1>11. \E p \in Registry!On(b) : p.quiet
  BY <1>8, <1>10
<1>12. b \in BoardId
  BY DEF Open
<1> QED BY <1>8, <1>9, <1>11, <1>12 DEF Registry!sweep, Registry!removeParticipants

\* Stopping empties the registry.
LEMMA CloseAllRefines ==
  ASSUME RoomInv, closeAll
  PROVE  Registry!restart
<1>1. Present' = {}
  BY CloseAllKeeps DEF Present
<1>2. Open' = {}
  BY DEF closeAll, Open
<1>3. Guests' = {}
  BY <1>1 DEF Guests
<1> QED BY <1>2, <1>3 DEF Registry!restart, Guests, Open, closeAll, seatVars

LEMMA StepRefines ==
  RoomInv /\ [Next]_vars => [Registry!presenceNext]_(Registry!presenceVars)
<1> SUFFICES ASSUME RoomInv, [Next]_vars
             PROVE  Registry!presenceNext \/ Same
  BY DEF Same, Registry!presenceVars, Guests, Open
<1>1. CASE UNCHANGED vars
  BY <1>1 DEF vars, roomVars, seatVars, Same, Guests, Open, Present, guest
<1>2. ASSUME NEW b \in BoardId, NEW u \in UserId, join(b, u) PROVE Registry!presenceNext
  BY <1>2, JoinRefines DEF Registry!presenceNext
<1>3. ASSUME NEW c \in ConnId, socketStep(c) PROVE Registry!presenceNext \/ Same
  <2>1. CASE refill(c) \/ socketDies(c)
    BY <2>1 DEF refill, socketDies, roomVars, seatVars, Same, Guests, Open, Present, guest
  <2>2. CASE handleMessage(c) \/ ignoreMessage(c) \/ fallsQuiet(c)
    <3>1. /\ UNCHANGED <<registry, home, members, joined, roomOf, userOf>>
          /\ \/ c \in Present \ quiet /\ quiet' = quiet \cup {c}
             \/ quiet' = quiet \ {c}
      BY <2>2 DEF handleMessage, ignoreMessage, fallsQuiet, roomVars, seatVars
    <3>2. \/ UNCHANGED <<Guests, Open, joined>>
          \/ \E p \in Guests : Registry!falls_quiet(p) \/ Registry!frame(p)
      BY <3>1, QuietRefines
    <3> QED BY <3>2 DEF Same, Guests, Registry!presenceNext, Registry!socketStep
  <2>3. CASE tooManyMessages(c) \/ socketCloses(c)
    <3>1. /\ removeParticipants({c}) /\ quiet' \ {c} = quiet \ {c}
          /\ UNCHANGED <<joined, roomOf, userOf>>
      BY <2>3 DEF tooManyMessages, socketCloses, seatVars
    <3>2. UNCHANGED <<Guests, Open, joined>> \/ \E p \in Guests : Registry!leave(p)
      BY <3>1, LeaveRefines
    <3> QED BY <3>2 DEF Same, Guests, Registry!presenceNext, Registry!socketStep
  <2> QED BY <1>3, <2>1, <2>2, <2>3 DEF socketStep
<1>4. ASSUME NEW r \in RoomId, sweep(r) PROVE Registry!presenceNext
  BY <1>4, SweepRefines DEF Registry!presenceNext, Registry!socketStep
<1>5. ASSUME NEW r \in RoomId, broadcastRoster(r) PROVE Same
  BY <1>5 DEF broadcastRoster, seatVars, Same, Guests, Open, Present, guest
<1>6. ASSUME NEW B \in SUBSET BoardId, evictAll(B) \/ \E u \in UserId : evictUser(B, u)
      PROVE  Registry!presenceNext
  BY <1>6, EvictRefines DEF Registry!presenceNext
<1>7. CASE closeAll
  BY <1>7, CloseAllRefines DEF Registry!presenceNext
<1> QED BY <1>1, <1>2, <1>3, <1>4, <1>5, <1>6, <1>7 DEF Next

\* Types of rooms, sockets and token buckets: nobody overspends the budget, and
\* only connections that joined are seated, shown or timed out (room.ts:90-330).
THEOREM RoomTypes == Spec => []TypeOK
<1>1. RoomInv => TypeOK
  BY DEF RoomInv
<1> QED BY <1>1, RoomInvariant, PTL

\* The room objects, with their timers, their sockets and whatever frames still
\* come in, implement the registry the directory evicts people from: a guest
\* comes and goes there exactly when a participant does in some room, and a
\* room object the registry has let go never changes it (room.ts, registry.ts).
THEOREM Implements == Spec => ImplementsRegistry
<1>1. Init => Registry!presenceInit
  BY DEF Init, Registry!presenceInit, Present
<1>2. RoomInv /\ [Next]_vars => [Registry!presenceNext]_(Registry!presenceVars)
  BY StepRefines
<1> QED BY <1>1, <1>2, RoomInvariant, PTL DEF Spec, ImplementsRegistry, Registry!presenceSpec
=============================================================================
