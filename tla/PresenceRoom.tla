---------------------------- MODULE PresenceRoom ----------------------------
(***************************************************************************)
(* The presence rooms in detail: presence/room.ts and presence/registry.ts *)
(* of apps/dotcom/server/src, with the room objects, their two timers, the *)
(* participants' sockets and the rosters the browsers are shown.           *)
(* PresenceRegistry is what all of this promises to the directory.         *)
(*                                                                         *)
(* A room object outlives its place in the registry: its timers and the    *)
(* listeners of sockets being closed still hold it, while a new room of    *)
(* the same board may already be open.  A socket the server has closed     *)
(* still delivers frames until the close is through.                       *)
(*                                                                         *)
(* Names, colours and ICE servers are left out, and what a signal carries; *)
(* what a roster shows of a participant is one flag, isMicOn.              *)
(***************************************************************************)
EXTENDS UnoIds, Naturals, FiniteSets

CONSTANTS
  ConnId,       \* participants, one for each connection
  RoomId,       \* room objects
  None,         \* no room, no board, nobody
  MAX_PARTICIPANTS, RATE_BURST,
  MaxUpdates    \* bound: frames that change what the roster shows

ASSUME RoomAssumption ==
  /\ MAX_PARTICIPANTS \in Nat \ {0}
  /\ RATE_BURST \in Nat
  /\ MaxUpdates \in Nat
  /\ None \notin RoomId \cup BoardId \cup UserId
  /\ IsFiniteSet(ConnId)

VARIABLES
  registry,     \* board |-> its room object
  home,         \* the board a room object was made for
  members,      \* the keys of each room's participants map
  rosterTimer, sweepTimer,  \* the rooms whose timer is set
  joined,       \* the connections that were let in
  roomOf, userOf, isMicOn, tokens,  \* what a participant object holds
  quiet,        \* lastSeen is more than PARTICIPANT_TIMEOUT_MS ago
  socket,       \* "open", "dead" (no close frame will come), "closing", "closed"
  view,         \* the last roster a connection was sent
  updates

roomVars  == <<registry, home, members, rosterTimer, sweepTimer>>
seatVars  == <<joined, roomOf, userOf>>
vars      == <<roomVars, seatVars, isMicOn, tokens, quiet, socket, view, updates>>

publicParticipants(P) == {<<c, isMicOn[c]>> : c \in P}

OnBoards(B) == UNION {members[r] : r \in {r \in RoomId : \E b \in B : registry[b] = r}}
Present     == UNION {members[r] : r \in RoomId}

-----------------------------------------------------------------------------

\* Mutant: nobody is told.
removeParticipantsSilently(P) ==
  LET emptied == {r \in RoomId : members[r] \cap P # {} /\ members[r] \subseteq P}
  IN  /\ members' = [r \in RoomId |-> members[r] \ P]
      /\ sweepTimer' = sweepTimer \ emptied
      /\ registry' = [b \in BoardId |-> IF \E r \in emptied : home[r] = b THEN None
                                        ELSE registry[b]]
      /\ UNCHANGED <<home, rosterTimer>>

\* Mutant: the registry is not told that a room is empty.
removeParticipantsOnly(P) ==
  LET hit     == {r \in RoomId : members[r] \cap P # {}}
      emptied == {r \in hit : members[r] \subseteq P}
  IN  /\ members' = [r \in RoomId |-> members[r] \ P]
      /\ rosterTimer' = rosterTimer \cup hit
      /\ sweepTimer' = sweepTimer \ emptied
      /\ UNCHANGED <<registry, home>>

\* Mutant: the sweeper stops at the first removal.
removeParticipantsUnswept(P) ==
  LET hit     == {r \in RoomId : members[r] \cap P # {}}
      emptied == {r \in hit : members[r] \subseteq P}
  IN  /\ members' = [r \in RoomId |-> members[r] \ P]
      /\ rosterTimer' = rosterTimer \cup hit
      /\ sweepTimer' = sweepTimer \ hit
      /\ registry' = [b \in BoardId |-> IF \E r \in emptied : home[r] = b THEN None
                                        ELSE registry[b]]
      /\ UNCHANGED home

\* removeParticipant for everyone of P who is still in a room: the others are
\* told, and a room that is left empty stops its sweeper and has the registry
\* forget its board.
removeParticipants(P) ==
  LET hit     == {r \in RoomId : members[r] \cap P # {}}
      emptied == {r \in hit : members[r] \subseteq P}
  IN  /\ members' = [r \in RoomId |-> members[r] \ P]
      /\ rosterTimer' = rosterTimer \cup hit
      /\ sweepTimer' = sweepTimer \ emptied
      /\ registry' = [b \in BoardId |-> IF \E r \in emptied : home[r] = b THEN None
                                        ELSE registry[b]]
      /\ UNCHANGED home

\* The server closes a socket; on one that is dead nothing more will happen.
closeSockets(P) ==
  socket' = [c \in ConnId |-> IF c \notin P THEN socket[c]
                              ELSE IF socket[c] = "open" THEN "closing" ELSE "closed"]

\* registry.join and room.join.  A full room tells the browser so, closes its
\* socket and is as before.
join(b, u) ==
  \E c \in ConnId \ joined, r \in RoomId :
    /\ IF registry[b] = None THEN home[r] = None ELSE r = registry[b]
    /\ Cardinality(members[r]) < MAX_PARTICIPANTS
    /\ registry' = [registry EXCEPT ![b] = r]
    /\ home' = [home EXCEPT ![r] = b]
    /\ members' = [members EXCEPT ![r] = @ \cup {c}]
    /\ rosterTimer' = rosterTimer \cup {r}
    /\ sweepTimer' = sweepTimer \cup {r}
    /\ joined' = joined \cup {c}
    /\ roomOf' = [roomOf EXCEPT ![c] = r]
    /\ userOf' = [userOf EXCEPT ![c] = u]
    /\ socket' = [socket EXCEPT ![c] = "open"]
    /\ view' = [view EXCEPT ![c] = publicParticipants(members[r] \cup {c})]
    /\ UNCHANGED <<isMicOn, tokens, quiet, updates>>

\* Mutant: the budget is not looked at.
spendTokenUnchecked(c) == tokens' = [tokens EXCEPT ![c] = @ - 1]

spendToken(c) == tokens[c] >= 1 /\ tokens' = [tokens EXCEPT ![c] = @ - 1]

\* A frame within the budget: a ping, a signal, one that does not parse; or a
\* hello or an update, which the roster shows.
handleMessage(c) ==
  /\ socket[c] \in {"open", "closing"}
  /\ spendToken(c)
  /\ quiet' = quiet \ {c}
  /\ \/ UNCHANGED <<roomVars, isMicOn, updates>>
     \/ /\ updates < MaxUpdates /\ updates' = updates + 1
        /\ \E on \in BOOLEAN : isMicOn' = [isMicOn EXCEPT ![c] = on]
        /\ rosterTimer' = rosterTimer \cup {roomOf[c]}
        /\ UNCHANGED <<registry, home, members, sweepTimer>>
  /\ UNCHANGED <<seatVars, socket, view>>

\* A binary or an oversized frame costs nothing and keeps its sender alive.
ignoreMessage(c) ==
  /\ socket[c] \in {"open", "closing"}
  /\ quiet' = quiet \ {c}
  /\ UNCHANGED <<roomVars, seatVars, isMicOn, tokens, socket, view, updates>>

tooManyMessages(c) ==
  /\ socket[c] \in {"open", "closing"}
  /\ tokens[c] < 1
  /\ quiet' = quiet \ {c}
  /\ closeSockets({c} \cap {d \in ConnId : socket[d] = "open"})
  /\ removeParticipants({c})
  /\ UNCHANGED <<seatVars, isMicOn, tokens, view, updates>>

refill(c) ==
  /\ socket[c] \in {"open", "closing"} /\ tokens[c] < RATE_BURST
  /\ tokens' = [tokens EXCEPT ![c] = @ + 1]
  /\ UNCHANGED <<roomVars, seatVars, isMicOn, quiet, socket, view, updates>>

\* The socket's close or error event.
socketCloses(c) ==
  /\ c \in joined /\ socket[c] # "closed"
  /\ socket' = [socket EXCEPT ![c] = "closed"]
  /\ removeParticipants({c})
  /\ UNCHANGED <<seatVars, isMicOn, tokens, quiet, view, updates>>

\* A laptop lid closes, a tab is killed: no close frame is sent.
socketDies(c) ==
  /\ socket[c] = "open"
  /\ socket' = [socket EXCEPT ![c] = "dead"]
  /\ UNCHANGED <<roomVars, seatVars, isMicOn, tokens, quiet, view, updates>>

fallsQuiet(c) ==
  /\ c \in Present \ quiet
  /\ quiet' = quiet \cup {c}
  /\ UNCHANGED <<roomVars, seatVars, isMicOn, tokens, socket, view, updates>>

\* The sweep timer's callback, when there is anyone to drop.
sweep(r) ==
  /\ r \in sweepTimer /\ members[r] \cap quiet # {}
  /\ closeSockets(members[r] \cap quiet)
  /\ removeParticipants(members[r] \cap quiet)
  /\ UNCHANGED <<seatVars, isMicOn, tokens, quiet, view, updates>>

\* The roster timer's callback.
broadcastRoster(r) ==
  /\ r \in rosterTimer
  /\ rosterTimer' = rosterTimer \ {r}
  /\ view' = [c \in ConnId |-> IF c \in members[r] THEN publicParticipants(members[r])
                               ELSE view[c]]
  /\ UNCHANGED <<registry, home, members, sweepTimer, seatVars, isMicOn, tokens, quiet,
                 socket, updates>>

evict(P) ==
  /\ closeSockets(P) /\ removeParticipants(P)
  /\ UNCHANGED <<seatVars, isMicOn, tokens, quiet, view, updates>>

evictUser(B, u) == evict({c \in OnBoards(B) : userOf[c] = u})

evictAll(B) == evict(OnBoards(B))

\* Mutant: the rooms are forgotten with their participants in them.
closeAllForgetting ==
  /\ registry' = [b \in BoardId |-> None]
  /\ closeSockets(OnBoards(BoardId))
  /\ UNCHANGED <<home, members, rosterTimer, sweepTimer>>
  /\ UNCHANGED <<seatVars, isMicOn, tokens, quiet, view, updates>>

\* The process was told to stop; until it exits it may still be joined.  The
\* cleared timers of an old room are never looked at again to any effect.
closeAll ==
  LET open == {r \in RoomId : \E b \in BoardId : registry[b] = r}
  IN  /\ registry' = [b \in BoardId |-> None]
      /\ members' = [r \in RoomId |-> IF r \in open THEN {} ELSE members[r]]
      /\ rosterTimer' = rosterTimer \ open
      /\ sweepTimer' = sweepTimer \ open
      /\ closeSockets(OnBoards(BoardId))
      /\ UNCHANGED <<home, seatVars, isMicOn, tokens, quiet, view, updates>>

-----------------------------------------------------------------------------

Init ==
  /\ registry = [b \in BoardId |-> None]
  /\ home = [r \in RoomId |-> None]
  /\ members = [r \in RoomId |-> {}]
  /\ rosterTimer = {} /\ sweepTimer = {}
  /\ joined = {}
  /\ roomOf = [c \in ConnId |-> None] /\ userOf = [c \in ConnId |-> None]
  /\ isMicOn = [c \in ConnId |-> FALSE]
  /\ tokens = [c \in ConnId |-> RATE_BURST]
  /\ quiet = {}
  /\ socket = [c \in ConnId |-> "closed"]
  /\ view = [c \in ConnId |-> {}]
  /\ updates = 0

socketStep(c) ==
  \/ handleMessage(c) \/ ignoreMessage(c) \/ tooManyMessages(c) \/ refill(c)
  \/ socketCloses(c) \/ socketDies(c) \/ fallsQuiet(c)

Next ==
  \/ \E b \in BoardId, u \in UserId : join(b, u)
  \/ \E c \in ConnId : socketStep(c)
  \/ \E r \in RoomId : sweep(r) \/ broadcastRoster(r)
  \/ \E B \in SUBSET BoardId : evictAll(B) \/ \E u \in UserId : evictUser(B, u)
  \/ closeAll

Spec == Init /\ [][Next]_vars

\* Timers fire, and time passes for those who have gone without a word.
Fairness ==
  /\ \A r \in RoomId : WF_vars(sweep(r)) /\ WF_vars(broadcastRoster(r))
  /\ \A c \in ConnId : WF_vars(socket[c] = "dead" /\ fallsQuiet(c))

FairSpec == Spec /\ Fairness

-----------------------------------------------------------------------------
(* Properties.                                                             *)

TypeOK ==
  /\ registry \in [BoardId -> RoomId \cup {None}]
  /\ home \in [RoomId -> BoardId \cup {None}]
  /\ members \in [RoomId -> SUBSET joined]
  /\ rosterTimer \subseteq RoomId /\ sweepTimer \subseteq RoomId
  /\ joined \subseteq ConnId
  /\ roomOf \in [ConnId -> RoomId \cup {None}]
  /\ userOf \in [ConnId -> UserId \cup {None}]
  /\ \A c \in joined : roomOf[c] \in RoomId /\ userOf[c] \in UserId
  /\ isMicOn \in [ConnId -> BOOLEAN]
  /\ tokens \in [ConnId -> 0 .. RATE_BURST]
  /\ quiet \subseteq joined
  /\ socket \in [ConnId -> {"open", "dead", "closing", "closed"}]
  /\ \A c \in ConnId \ joined : socket[c] = "closed"
  /\ view \in [ConnId -> SUBSET (ConnId \X BOOLEAN)]
  /\ updates \in 0 .. MaxUpdates

\* A board has at most one room with people in it, the one the registry would
\* evict them from, and its sweeper runs; a room object the registry has let go
\* stays empty though timers and late frames still reach it, so its onEmpty,
\* which deletes by board id, never deletes its successor (registry.ts:21-28,
\* room.ts:256-266).
LiveRoomsAreRegistered ==
  /\ \A r \in RoomId : members[r] # {} =>
       home[r] # None /\ registry[home[r]] = r /\ r \in sweepTimer
  /\ \A b \in BoardId : registry[b] # None =>
       home[registry[b]] = b /\ members[registry[b]] # {}
  /\ \A r \in RoomId : \A c \in members[r] : roomOf[c] = r

\* Whoever was last shown a roster that is no longer right has another one
\* coming: no path that changes who is there, or what they show, forgets to
\* schedule it, and none cancels it (room.ts:134, 178-185, 258, 273-281).
StaleMeansScheduled ==
  \A r \in RoomId : \A c \in members[r] :
    view[c] # publicParticipants(members[r]) => r \in rosterTimer

\* Once people stop coming, going and changing, everyone sees who is there.
RostersSettle ==
  <>[] \A r \in RoomId : \A c \in members[r] : view[c] = publicParticipants(members[r])

\* A participant whose socket died without a close frame is dropped in the end
\* (PARTICIPANT_TIMEOUT_MS, room.ts:5-11, 283-299).
GhostsAreSwept == \A c \in ConnId : socket[c] = "dead" ~> c \notin Present

-----------------------------------------------------------------------------
(* What the rooms promise to the directory.                                *)

guest(c) ==
  [id |-> c, boardId |-> home[roomOf[c]], userId |-> userOf[c], quiet |-> c \in quiet]

Registry == INSTANCE PresenceRegistry
  WITH participants <- {guest(c) : c \in Present},
       rooms        <- {b \in BoardId : registry[b] # None}

\* The room objects with their timers and sockets implement the registry the
\* directory relies on: each of their steps is one of its steps, or none.
ImplementsRegistry == Registry!presenceSpec
=============================================================================
