---------------------------- MODULE RoomSessions ----------------------------
(***************************************************************************)
(* The sessions of a sync room (packages/sync-core/src/lib/TLSyncRoom.ts   *)
(* and TLSocketRoom.ts): one for each tab, with the states of              *)
(* RoomSession.ts, its presence record, the debounced data messages, and   *)
(* the pruning that removes sessions whose tab went away.                  *)
(*                                                                         *)
(* A tab keeps its session id over reconnects, so that messages and the    *)
(* close event of a socket it has replaced reach its new session.  A tab's *)
(* presence record stands for everything it is told of others; documents   *)
(* are the SyncProtocol module's, but for the changes of the storage that  *)
(* a room can only answer by making everyone reconnect.                    *)
(*                                                                         *)
(* Time is left out: whenever the room prunes, any of its sessions may be  *)
(* past its timeout, so that pings, which only put that off, are left out  *)
(* too.  So are the closing of the room by its host, snapshots for         *)
(* hibernation with resumed sessions, permissions and schema versions.     *)
(***************************************************************************)
EXTENDS Naturals, FiniteSetsExt, SequencesExt

CONSTANTS
  Tab,
  MaxSockets,    \* bound on the sockets of all tabs
  MaxPushes,     \* bound on the pushes
  MaxInFlight,   \* bound on the messages on their way in one socket
  MaxTroubles,   \* bound on bad messages and forced reconnects
  Periodic,      \* clientTimeout is finite, so that the room prunes by the clock
  None           \* no socket, and no tab

ASSUME SessionsAssumption ==
  /\ {MaxSockets, MaxPushes, MaxInFlight, MaxTroubles} \subseteq Nat
  /\ IsFiniteSet(Tab)
  /\ Periodic \in BOOLEAN /\ None \notin Nat \cup Tab

\* Sockets are numbered as they come; a fresh presence id has the number of the
\* socket it was made for.
Socket == 1 .. MaxSockets

VARIABLES
  room,          \* the room's sessions and what hangs on them, see Room
  readyState,    \* the server's end of every socket
  owner,         \* the tab that opened it
  c2s,           \* messages on their way to the server
  current,       \* the socket each tab uses
  behind,        \* the storage holds changes that ask for a forced reconnect
  throttle,      \* of pruneSessions: "idle", "quiet", or "pending" with a call to come
  sockets, pushes, troubles

vars == <<room, readyState, owner, c2s, current, behind, throttle, sockets, pushes, troubles>>
bounds == <<sockets, pushes, troubles>>

-----------------------------------------------------------------------------
(* The room.                                                               *)

\* A presence record is the number of the push that wrote it, 0 when there is
\* none; a data message is what it says of some of them.
NoPresence == [i \in Socket |-> 0]
NoNews == [i \in {} |-> 0]
About(i, v) == [x \in {i} |-> v]

\* The later news, over the earlier ones.
Over(m, n) == [i \in DOMAIN m \cup DOMAIN n |-> IF i \in DOMAIN m THEN m[i] ELSE n[i]]

\* debounce: debounceTimer is set; queued: there are outstandingDataMessages.
NoSession == [state |-> "none", socket |-> None, presenceId |-> None,
              debounce |-> FALSE, queued |-> FALSE, outstanding |-> NoNews]

\* heard: the entries of TLSocketRoom.sessions; strays: timers of session
\* objects that were replaced; known: the presences each socket's client was
\* told; greeted: sockets whose own connect message was answered; closing: what
\* the present call has closed.  Ghosts: cheated, sockets whose queue was thrown
\* away; orphans, presences stored for a session just thrown out.
Room == [session |-> [t \in Tab |-> NoSession], heard |-> {}, strays |-> [t \in Tab |-> 0],
         presence |-> NoPresence, known |-> [s \in Socket |-> NoPresence], greeted |-> {},
         pruneTimer |-> "none", closing |-> {}, cheated |-> {}, orphans |-> {}]

IsOpen(r, s) == readyState[s] = "open" /\ s \notin r.closing

scheduleFollowUpPrune(r) == IF r.pruneTimer # "none" THEN r ELSE [r EXCEPT !.pruneTimer = "set"]

cancelSession(r, t) ==
  LET p == r.session[t]
  IN  IF p.state \in {"none", "awaitingRemoval"} THEN r
      ELSE scheduleFollowUpPrune(
             [r EXCEPT !.session[t] = [NoSession EXCEPT !.state = "awaitingRemoval", !.socket = p.socket,
                                                        !.presenceId = p.presenceId],
                       !.closing = @ \cup {p.socket}])

\* _unsafe_sendMessage for a patch or a push_result: the first goes out at once,
\* those that follow wait for the timer.
sendData(r, t, m) ==
  LET p == r.session[t]
  IN  IF p.state # "connected" THEN r
      ELSE IF ~IsOpen(r, p.socket) THEN cancelSession(r, t)
      ELSE IF p.debounce THEN [r EXCEPT !.session[t].queued = TRUE, !.session[t].outstanding = Over(m, @)]
      ELSE [r EXCEPT !.session[t].debounce = TRUE, !.known[p.socket] = Over(m, @)]

broadcastPatch(r, m, except) == FoldSet(LAMBDA t, x : sendData(x, t, m), r, Tab \ except)

\* Mutant: the others are not told.
removeSessionQuietly(r, t) ==
  IF r.session[t].state = "none" THEN r
  ELSE [r EXCEPT !.session[t] = NoSession, !.closing = @ \cup {r.session[t].socket}, !.heard = @ \ {t},
                 !.presence[r.session[t].presenceId] = 0]

\* removeSession, and the listener of session_removed.
removeSession(r, t) ==
  LET p    == r.session[t]
      gone == [r EXCEPT !.session[t] = NoSession, !.closing = @ \cup {p.socket}, !.heard = @ \ {t}]
  IN  IF p.state = "none" THEN r
      ELSE IF r.presence[p.presenceId] = 0 THEN gone
      ELSE broadcastPatch([gone EXCEPT !.presence[p.presenceId] = 0], About(p.presenceId, 0), {})

forceAllReconnect(r) == FoldSet(LAMBDA t, x : removeSession(x, t), r, Tab)

\* broadcastChanges, as far as it concerns sessions.
broadcastChanges(r) == IF behind THEN forceAllReconnect(r) ELSE r

\* _flushDataMessages
flushDataMessages(r, t) ==
  LET p == r.session[t]
  IN  IF p.state # "connected" THEN r
      ELSE IF p.queued /\ ~IsOpen(r, p.socket) THEN cancelSession(r, t)
      ELSE [r EXCEPT !.session[t] = [p EXCEPT !.debounce = FALSE, !.queued = FALSE, !.outstanding = NoNews],
                     !.known[p.socket] = Over(p.outstanding, @)]

\* One session in the loop of pruneSessions; late: it is past its timeout.
pruneSession(r, t, late) ==
  LET p   == r.session[t]
      out == late \/ ~IsOpen(r, p.socket)
  IN  CASE p.state = "connected"       -> IF out THEN cancelSession(r, t) ELSE r
        [] p.state = "awaitingConnect" -> IF out THEN removeSession(r, t) ELSE scheduleFollowUpPrune(r)
        [] p.state = "awaitingRemoval" -> IF late THEN removeSession(r, t) ELSE scheduleFollowUpPrune(r)
        [] p.state = "none"            -> r

\* The body of pruneSessions, for the sessions in this order.
prunedIn(r, order, late) ==
  FoldLeft(LAMBDA x, t : pruneSession(x, t, t \in late), [r EXCEPT !.pruneTimer = "none"], order)

Present(r) == {t \in Tab : r.session[t].state # "none"}

\* Mutant: the timer is forgotten after the loop that may have to set it.
prunedLate(r) ==
  {[prunedIn(r, order, late) EXCEPT !.pruneTimer = "none"] :
     order \in SetToSeqs(Present(r)), late \in SUBSET Present(r)}

\* What pruneSessions may leave, whichever sessions are past their timeout.
pruned(r) == {prunedIn(r, order, late) : order \in SetToSeqs(Present(r)), late \in SUBSET Present(r)}

\* What a turn leaves of the room.  Nothing more is asked of sockets that no
\* session uses.
after(r) ==
  LET used == {r.session[t].socket : t \in Tab}
  IN  [r EXCEPT !.closing = {}, !.greeted = @ \cap used, !.cheated = @ \cap used,
                !.known = [s \in Socket |-> IF s \in used THEN @[s] ELSE NoPresence]]

\* A turn, and the sockets it has closed.
turn(r) ==
  /\ room' = after(r)
  /\ readyState' = [s \in Socket |-> IF s \in r.closing /\ readyState[s] = "open" THEN "closing" ELSE readyState[s]]

\* The turn ends with a call of the throttled pruneSessions.
turnPruning(r) ==
  /\ \E x \in IF throttle = "idle" THEN pruned(r) ELSE {r} : turn(x)
  /\ throttle' = IF throttle = "idle" THEN "quiet" ELSE "pending"

-----------------------------------------------------------------------------
(* Messages.                                                               *)

\* Mutant: the answer is sent without a look at the socket.
connectedRegardless(r0, t, s) ==
  LET p == r0.session[t]
      r == broadcastChanges(r0)
  IN  [r EXCEPT !.session[t] = [NoSession EXCEPT !.state = "connected", !.socket = p.socket, !.presenceId = p.presenceId],
                !.strays[t] = IF r.session[t].debounce THEN @ + 1 ELSE @]

\* handleConnectRequest.  The session it was given is put back as it was, even
\* if it has just been thrown out.  The client takes the answer to the request
\* it made over the socket it uses, and no other.
connected(r0, t, s) ==
  LET p == r0.session[t]
      r == broadcastChanges(r0)
      c == [NoSession EXCEPT !.state = "connected", !.socket = p.socket, !.presenceId = p.presenceId]
      x == [r EXCEPT !.session[t] = c,
                     !.strays[t] = IF r.session[t].debounce THEN @ + 1 ELSE @]
  IN  IF ~IsOpen(x, p.socket) THEN cancelSession(x, t)
      ELSE IF s = p.socket
      THEN [x EXCEPT !.known[s] = [r.presence EXCEPT ![p.presenceId] = 0], !.greeted = @ \cup {s}]
      ELSE [x EXCEPT !.cheated = IF r.session[t].queued THEN @ \cup {p.socket} ELSE @]

\* handlePushRequest, of a presence.
pushed(r0, t, v) ==
  LET i == r0.session[t].presenceId
      r == broadcastChanges(r0)
      x == [r EXCEPT !.presence[i] = v,
                     !.orphans = IF r.session[t].state = "none" THEN @ \cup {i} ELSE @]
  IN  broadcastPatch(sendData(x, t, NoNews), About(i, v), {t})

\* Mutant: the session's old timer is left to run.
newSessionUncleared(r, t, s) ==
  LET p == r.session[t]
  IN  [r EXCEPT !.session[t] = [p EXCEPT !.state = "awaitingConnect", !.socket = s,
                                         !.presenceId = IF p.state = "none" THEN s ELSE @],
                !.heard = @ \cup {t}]

\* Mutant: a new presence for every connection.
newSessionFresh(r, t, s) ==
  [r EXCEPT !.session[t] = [NoSession EXCEPT !.state = "awaitingConnect", !.socket = s, !.presenceId = s],
            !.heard = @ \cup {t}]

\* handleSocketConnect and handleNewSession: the tab's presence id is kept.
newSession(r, t, s) ==
  LET p == r.session[t]
  IN  [r EXCEPT !.session[t] = [NoSession EXCEPT !.state = "awaitingConnect", !.socket = s,
                                                 !.presenceId = IF p.state = "none" THEN s ELSE p.presenceId],
                !.heard = @ \cup {t}]

-----------------------------------------------------------------------------
(* The tabs and the network.                                               *)

sent(q, s, m) == [q EXCEPT ![s] = Append(@, m)]

\* A tab's socket opens, while what it sent over an earlier one may still come.
Connects(t) ==
  LET s == sockets + 1
  IN  /\ current[t] = None
      /\ sockets < MaxSockets /\ sockets' = s
      /\ owner' = [owner EXCEPT ![s] = t]
      /\ current' = [current EXCEPT ![t] = s]
      /\ c2s' = sent(c2s, s, [type |-> "connect"])
      /\ room' = after(newSession(room, t, s))
      /\ readyState' = [readyState EXCEPT ![s] = "open"]
  /\ UNCHANGED <<behind, throttle, pushes, troubles>>

\* A client that is in the room shows where its person is.
Pushes(t) ==
  /\ current[t] \in room.greeted /\ Len(c2s[current[t]]) < MaxInFlight
  /\ pushes < MaxPushes /\ pushes' = pushes + 1
  /\ c2s' = sent(c2s, current[t], [type |-> "push", presence |-> pushes + 1])
  /\ UNCHANGED <<room, readyState, owner, current, behind, throttle, sockets, troubles>>

\* The tab is closed, gives its socket up or answers the server's close.
Leaves(t) ==
  /\ current[t] # None
  /\ c2s' = sent(c2s, current[t], [type |-> "close"])
  /\ current' = [current EXCEPT ![t] = None]
  /\ UNCHANGED <<room, readyState, owner, behind, throttle, bounds>>

trouble == troubles < MaxTroubles /\ troubles' = troubles + 1

\* A message for which the room rejects the session: of a protocol or schema it
\* does not speak, or with an invalid record.
SendsRubbish(t) ==
  /\ trouble
  /\ current[t] # None /\ Len(c2s[current[t]]) < MaxInFlight
  /\ c2s' = sent(c2s, current[t], [type |-> "rubbish"])
  /\ UNCHANGED <<room, readyState, owner, current, behind, throttle, sockets, pushes>>

\* The storage was changed by someone else, and its tombstones do not reach back
\* to what the room has told its clients.
StorageMovesOn ==
  /\ trouble
  /\ ~behind /\ behind' = TRUE
  /\ UNCHANGED <<room, readyState, owner, c2s, current, throttle, sockets, pushes>>

-----------------------------------------------------------------------------
(* The server.                                                             *)

\* handleSocketMessage
Receives(s) ==
  LET t == owner[s]
      m == Head(c2s[s])
  IN  /\ c2s[s] # <<>> /\ m.type # "close"
      /\ c2s' = [c2s EXCEPT ![s] = Tail(@)]
      /\ IF t \notin room.heard
         THEN UNCHANGED <<room, readyState, throttle, behind>>
         ELSE LET p == room.session[t].state
              IN  /\ turnPruning(
                       CASE p = "none" -> room
                         [] p # "none" /\ m.type = "connect" -> connected(room, t, s)
                         [] p # "none" /\ m.type = "rubbish" -> removeSession(room, t)
                         [] p = "connected" /\ m.type = "push" -> pushed(room, t, m.presence)
                         [] OTHER -> room)
                  /\ behind' = (behind /\ ~(m.type = "connect" /\ p # "none")
                                       /\ ~(m.type = "push" /\ p = "connected"))
      /\ UNCHANGED <<owner, current, bounds>>

\* The client's close frame, after which the socket is no longer open.
ReceivesCloseFrame(s) ==
  /\ c2s[s] # <<>> /\ Head(c2s[s]).type = "close" /\ readyState[s] = "open"
  /\ readyState' = [readyState EXCEPT ![s] = "closing"]
  /\ UNCHANGED <<room, owner, c2s, current, behind, throttle, bounds>>

\* handleSocketClose, when both ends have closed.
SocketCloses(s) ==
  /\ c2s[s] # <<>> /\ Head(c2s[s]).type = "close" /\ readyState[s] = "closing"
  /\ c2s' = [c2s EXCEPT ![s] = <<>>]
  /\ LET r == cancelSession(room, owner[s])
     IN  /\ room' = after(r)
         /\ readyState' = [x \in Socket |-> IF x = s THEN "closed"
                                            ELSE IF x \in r.closing /\ readyState[x] = "open" THEN "closing"
                                            ELSE readyState[x]]
  /\ UNCHANGED <<owner, current, behind, throttle, bounds>>

\* debounceTimer
DebounceTimer(t) ==
  /\ room.session[t].debounce
  /\ turn(flushDataMessages(room, t))
  /\ UNCHANGED <<owner, c2s, current, behind, throttle, bounds>>

\* The timer of a session object that was replaced flushes the one in its place,
\* whose own timer becomes a stray.
StrayTimer(t) ==
  /\ room.strays[t] > 0
  /\ turn(flushDataMessages([room EXCEPT !.strays[t] = IF room.session[t].debounce THEN @ ELSE @ - 1], t))
  /\ UNCHANGED <<owner, c2s, current, behind, throttle, bounds>>

\* pruneTimer
PruneTimer ==
  /\ room.pruneTimer = "set"
  /\ turnPruning([room EXCEPT !.pruneTimer = "fired"])
  /\ UNCHANGED <<owner, c2s, current, behind, bounds>>

\* The interval that prunes when clientTimeout is finite.
Interval ==
  /\ Periodic
  /\ turnPruning(room)
  /\ UNCHANGED <<owner, c2s, current, behind, bounds>>

\* The end of throttle's second.
ThrottleTimer ==
  \/ /\ throttle = "quiet" /\ throttle' = "idle"
     /\ UNCHANGED <<room, readyState, owner, c2s, current, behind, bounds>>
  \/ /\ throttle = "pending" /\ throttle' = "quiet"
     /\ \E x \in pruned(room) : turn(x)
     /\ UNCHANGED <<owner, c2s, current, behind, bounds>>

\* The storage's onChange microtask.
broadcastExternalStorageChanges ==
  /\ behind /\ behind' = FALSE
  /\ turn(broadcastChanges(room))
  /\ UNCHANGED <<owner, c2s, current, throttle, bounds>>

Init ==
  /\ room = Room
  /\ readyState = [s \in Socket |-> "unused"] /\ owner = [s \in Socket |-> None]
  /\ c2s = [s \in Socket |-> <<>>] /\ current = [t \in Tab |-> None]
  /\ behind = FALSE /\ throttle = "idle"
  /\ sockets = 0 /\ pushes = 0 /\ troubles = 0

TabStep(t) == Connects(t) \/ Pushes(t) \/ Leaves(t) \/ SendsRubbish(t)

Network(s) == ReceivesCloseFrame(s) \/ SocketCloses(s) \/ Receives(s)

Timers ==
  \/ \E t \in Tab : DebounceTimer(t) \/ StrayTimer(t)
  \/ PruneTimer \/ Interval \/ ThrottleTimer

Next ==
  \/ Timers \/ StorageMovesOn \/ broadcastExternalStorageChanges
  \/ \E t \in Tab : TabStep(t)
  \/ \E s \in Socket : Network(s)

Spec == Init /\ [][Next]_vars

-----------------------------------------------------------------------------
(* Properties.                                                             *)

Session ==
  [state : {"none", "awaitingConnect", "connected", "awaitingRemoval"}, socket : Socket \cup {None},
   presenceId : Socket \cup {None}, debounce : BOOLEAN, queued : BOOLEAN,
   outstanding : UNION {[I -> 0 .. MaxPushes] : I \in SUBSET Socket}]

\* Types, and only a connected session has messages to send and a timer for them
\* (RoomSession.ts).
TypeOK ==
  /\ room.session \in [Tab -> Session]
  /\ \A t \in Tab : LET p == room.session[t]
                    IN  p.state # "connected" => ~p.debounce /\ ~p.queued /\ p.outstanding = NoNews
  /\ room.heard \subseteq Tab /\ room.strays \in [Tab -> Nat]
  /\ room.presence \in [Socket -> 0 .. MaxPushes] /\ room.known \in [Socket -> [Socket -> 0 .. MaxPushes]]
  /\ room.pruneTimer \in {"none", "set", "fired"} /\ room.closing = {}
  /\ readyState \in [Socket -> {"unused", "open", "closing", "closed"}]
  /\ owner \in [Socket -> Tab \cup {None}] /\ current \in [Tab -> Socket \cup {None}]
  /\ throttle \in {"idle", "quiet", "pending"} /\ behind \in BOOLEAN

\* Nothing waits for a timer that is not set.  A session that waits for its removal
\* has a prune coming, through every way the prune's own timer, its throttle and the
\* sessions before it in the loop may fall (pruneSessions, scheduleFollowUpPrune,
\* cancelSession, TLSyncRoom.ts:220-264, 586-618); queued messages have a flush coming,
\* whichever timers of earlier session objects go off in between
\* (_unsafe_sendMessage, _flushDataMessages).
NothingStranded ==
  \A t \in Tab :
    LET p == room.session[t]
    IN  /\ p.state = "awaitingRemoval" => room.pruneTimer = "set" \/ throttle = "pending"
        /\ p.queued => p.debounce

\* What a client of the room was told of the others, with what is queued for it, is
\* what the room holds: nobody's cursor is missing, out of date, or left behind,
\* through debounced sends, reconnects with the same id, removals and forced
\* reconnects.  Not so for a client whose queue went with a session object that a
\* replaced socket's late connect message replaced.
PresenceMirrored ==
  \A t \in Tab :
    LET p == room.session[t]
    IN  p.state = "connected" /\ readyState[p.socket] = "open" /\ p.socket \in room.greeted \ room.cheated
        => Over(p.outstanding, room.known[p.socket]) = [room.presence EXCEPT ![p.presenceId] = 0]

\* Presences belong to sessions, but for those pushed by the very message whose
\* handling throws the session out (removeSession, handlePushRequest).
PresenceBelongs ==
  \A i \in Socket \ room.orphans :
    room.presence[i] # 0 => \E t \in Tab : room.session[t].presenceId = i

\* TLSocketRoom listens for every session that may still speak: the removal of one
\* never deletes the entry of another that took its id.
SpeakersAreHeard ==
  \A t \in Tab : room.session[t].state \in {"awaitingConnect", "connected"} => t \in room.heard
=============================================================================
