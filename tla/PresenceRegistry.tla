-------------------------- MODULE PresenceRegistry --------------------------
(***************************************************************************)
(* Who is live on which board: presence/registry.ts and the membership     *)
(* side of presence/room.ts in apps/dotcom/server/src.  A room exists from *)
(* the first join to the last leave; a connection is one WebSocket that    *)
(* the upgrade handler has already authorised as a user.                   *)
(*                                                                         *)
(* Frames, rosters and timers inside one room are left to PresenceRoom.    *)
(***************************************************************************)
EXTENDS UnoIds, Naturals, FiniteSets

CONSTANTS
  ConnId,            \* participant ids, minted per connection by randomUUID
  MAX_PARTICIPANTS   \* capacity of one room

ASSUME PresenceAssumption == MAX_PARTICIPANTS \in Nat \ {0}

VARIABLES
  participants,  \* the entries of every room's participants map
  rooms,         \* the boards the registry holds a room for
  joined         \* the participant ids handed out so far

presenceVars == <<participants, rooms, joined>>

Participant == [id : ConnId, boardId : BoardId, userId : UserId, quiet : BOOLEAN]

On(b)        == {p \in participants : p.boardId = b}
OnAny(B)     == {p \in participants : p.boardId \in B}
OfUser(B, u) == {p \in OnAny(B) : p.userId = u}

-----------------------------------------------------------------------------

\* Mutant: the registry files the room under the wrong id.
joinMisfiled(b, u) ==
  /\ rooms' = rooms \cup {u}
  /\ \E c \in ConnId \ joined :
       /\ participants' = participants \cup
            {[id |-> c, boardId |-> b, userId |-> u, quiet |-> FALSE]}
       /\ joined' = joined \cup {c}

\* registry.join and room.join: a new room is made on demand; a full room
\* answers `full`, closes the socket and keeps its participants.
join(b, u) ==
  /\ rooms' = rooms \cup {b}
  /\ \/ /\ Cardinality(On(b)) < MAX_PARTICIPANTS
        /\ \E c \in ConnId \ joined :
             /\ participants' = participants \cup
                  {[id |-> c, boardId |-> b, userId |-> u, quiet |-> FALSE]}
             /\ joined' = joined \cup {c}
     \/ /\ Cardinality(On(b)) >= MAX_PARTICIPANTS
        /\ UNCHANGED <<participants, joined>>

\* Mutant: onEmpty is never called.
removeParticipantsOnly(P) ==
  /\ participants' = participants \ P
  /\ UNCHANGED <<rooms, joined>>

\* removeParticipant for every participant of P: a room that loses its last
\* one calls onEmpty and is forgotten by the registry.
removeParticipants(P) ==
  /\ participants' = participants \ P
  /\ rooms' = rooms \ {b \in {p.boardId : p \in P} : On(b) \subseteq P}
  /\ UNCHANGED joined

evictUser(B, u) == removeParticipants(OfUser(B, u))

evictAll(B) == removeParticipants(OnAny(B))

\* The socket's close or error event, or a frame over the rate limit.
leave(p) == p \in participants /\ removeParticipants({p})

\* PARTICIPANT_TIMEOUT_MS passes without a frame.
falls_quiet(p) ==
  /\ p \in participants /\ ~p.quiet
  /\ participants' = (participants \ {p}) \cup {[p EXCEPT !.quiet = TRUE]}
  /\ UNCHANGED <<rooms, joined>>

\* Any frame refreshes lastSeen.
frame(p) ==
  /\ p \in participants /\ p.quiet
  /\ participants' = (participants \ {p}) \cup {[p EXCEPT !.quiet = FALSE]}
  /\ UNCHANGED <<rooms, joined>>

\* The sweep timer of b's room drops every participant past the timeout.
sweep(b) ==
  /\ \E p \in On(b) : p.quiet
  /\ removeParticipants({p \in On(b) : p.quiet})

\* The process stops (closeAll on a signal, or a crash): rooms are memory.
restart ==
  /\ participants' = {}
  /\ rooms' = {}
  /\ UNCHANGED joined

-----------------------------------------------------------------------------

presenceInit == participants = {} /\ rooms = {} /\ joined = {}

socketStep ==
  \/ \E p \in participants : leave(p) \/ falls_quiet(p) \/ frame(p)
  \/ \E b \in BoardId : sweep(b)

\* On its own: the upgrade handler and the directory may join and evict anyone.
presenceNext ==
  \/ \E b \in BoardId, u \in UserId : join(b, u)
  \/ \E B \in SUBSET BoardId : evictAll(B) \/ \E u \in UserId : evictUser(B, u)
  \/ socketStep
  \/ restart

presenceSpec == presenceInit /\ [][presenceNext]_presenceVars

presenceTypeOK ==
  /\ participants \subseteq Participant
  /\ rooms \subseteq BoardId
  /\ joined \subseteq ConnId
  /\ {p.id : p \in participants} \subseteq joined

\* The registry holds a room for exactly the boards someone is on, whatever
\* order leaves, evictions, timeouts and joins come in: no empty room leaks
\* and no participant is in a room the directory can no longer reach to evict
\* (registry.ts:21-38, room.ts:256-266).
RoomIffOccupied == rooms = {p.boardId : p \in participants}
=============================================================================
