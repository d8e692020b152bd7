-------------------------- MODULE ReconnectManager --------------------------
(***************************************************************************)
(* How a browser tab keeps a connection to its room                        *)
(* (packages/sync-core/src/lib/ClientWebSocketAdapter.ts): the adapter     *)
(* owns at most one WebSocket, the ReconnectManager decides when to open   *)
(* the next one, and TLSyncClient is told of every change of status.       *)
(*                                                                         *)
(* The browser's sockets, its events and the promise of getUri() are the   *)
(* environment.  Time passes in ticks; a timer fires when it is due or any *)
(* time after that.  The server is what a tab sees of it: it answers the   *)
(* connect message of a socket, rejects a socket, and closes one, for no   *)
(* reason or because it waits for a connect message that does not come.    *)
(***************************************************************************)
EXTENDS Naturals, FiniteSets

CONSTANTS
  Socket,              \* WebSocket objects; one is taken again once it is done
  None,                \* no socket
  ACTIVE_MIN_DELAY, ACTIVE_MAX_DELAY, INACTIVE_MIN_DELAY, INACTIVE_MAX_DELAY,
  ATTEMPT_TIMEOUT,     \* delays, in ticks
  Never,               \* no attempt yet; a timer that is not set
  MaxTroubles          \* bound: failures, lost sockets, browser events, restarts

MaxAge == INACTIVE_MAX_DELAY + ATTEMPT_TIMEOUT   \* ages beyond it are not told apart

ASSUME ReconnectAssumption ==
  /\ None \notin Socket /\ Never \notin Nat
  /\ {ACTIVE_MIN_DELAY, INACTIVE_MIN_DELAY, ATTEMPT_TIMEOUT} \subseteq Nat \ {0}
  /\ {ACTIVE_MAX_DELAY, INACTIVE_MAX_DELAY, MaxTroubles} \subseteq Nat
  /\ ACTIVE_MIN_DELAY <= INACTIVE_MIN_DELAY
  /\ ACTIVE_MIN_DELAY <= ACTIVE_MAX_DELAY /\ INACTIVE_MIN_DELAY <= INACTIVE_MAX_DELAY
  /\ ACTIVE_MAX_DELAY <= INACTIVE_MAX_DELAY

VARIABLES
  ws,          \* the adapter's socket, or None
  readyState,  \* of every socket; "failed" is CLOSED with onclose yet to come,
               \* "rejected" CLOSING with the code of a sync error, "done" CLOSED
  status,      \* connectionStatus; 'initial' reads as "offline"
  manager,     \* the ReconnectManager: its state, delay, timers and pending uris,
               \* and the document's visibilityState that it reads
  age,         \* ticks since lastAttemptStart
  disposed,
  client,      \* TLSyncClient: "apart", "inRoom" (isConnectedToRoom) or "closed"
  latest,      \* the socket that carries latestConnectRequestId, or None
  greeted,     \* sockets whose connect message reached the server
  rejected,    \* ghost: a getUri() was rejected
  troubles

vars == <<ws, readyState, status, manager, age, disposed, client, latest, greeted, rejected, troubles>>
clientVars == <<client, latest, greeted>>

-----------------------------------------------------------------------------
(* The ReconnectManager.                                                   *)

MinDelay(m) == IF m.document = "hidden" THEN INACTIVE_MIN_DELAY ELSE ACTIVE_MIN_DELAY
MaxDelay(m) == IF m.document = "hidden" THEN INACTIVE_MAX_DELAY ELSE ACTIVE_MAX_DELAY

AtLeast(a, b) == IF a < b THEN b ELSE a
AtMost(a, b)  == IF a < b THEN a ELSE b

\* Mutant: the delay grows without end.
BackoffUncapped(m) == (3 * AtLeast(MinDelay(m), m.intendedDelay) + 1) \div 2

\* DELAY_EXPONENT is 1.5; ticks are whole, so the product is rounded up.
Backoff(m) == AtMost(MaxDelay(m), (3 * AtLeast(MinDelay(m), m.intendedDelay) + 1) \div 2)

Live == {"connecting", "open"}

scheduleAttempt(m) == [m EXCEPT !.state = "pendingAttempt", !.uris = @ + 1]

\* Mutant: a hint starts over without regard to the last attempt.
delayLeftIgnoringAge(m) ==
  IF m.state = "connected" THEN MinDelay(m) ELSE 0

\* What is left to wait before the next attempt.
delayLeft(m) ==
  IF m.state = "connected" THEN MinDelay(m)
  ELSE IF age # Never /\ age < m.intendedDelay THEN m.intendedDelay - age
  ELSE 0

\* Mutant: nothing is done in the delay state, its own timer included.
disconnectedOnce(m, rs) ==
  IF rs \in Live \/ m.state = "delay" THEN m
  ELSE IF delayLeft(m) > 0
  THEN [m EXCEPT !.state = "delay", !.reconnectTimeout = delayLeft(m),
                 !.intendedDelay = IF m.state = "connected" THEN MinDelay(m) ELSE @]
  ELSE scheduleAttempt([m EXCEPT !.reconnectTimeout = Never, !.intendedDelay = Backoff(m)])

\* disconnected(), given the readyState of the adapter's socket.
disconnected(m, rs) ==
  IF rs \in Live THEN m
  ELSE IF delayLeft(m) > 0
  THEN [m EXCEPT !.state = "delay", !.reconnectTimeout = delayLeft(m),
                 !.intendedDelay = IF m.state = "connected" THEN MinDelay(m) ELSE @]
  ELSE scheduleAttempt([m EXCEPT !.reconnectTimeout = Never, !.intendedDelay = Backoff(m)])

connected(m) ==
  [m EXCEPT !.state = "connected", !.reconnectTimeout = Never, !.intendedDelay = ACTIVE_MIN_DELAY]

\* maybeReconnected() when the socket is neither OPEN nor CONNECTING.
retryNow(m) ==
  disconnected([m EXCEPT !.recheck = Never, !.intendedDelay = ACTIVE_MIN_DELAY], "done")

-----------------------------------------------------------------------------
(* The adapter and what its listeners do.                                  *)

ReadyState == IF ws = None THEN "done" ELSE readyState[ws]

\* _handleConnect: TLSyncClient sends its connect message, unless it believes
\* it is in the room.
handleConnect(s) ==
  /\ status' = "online"
  /\ IF client = "apart"
     THEN latest' = s /\ greeted' = greeted \cup {s}
     ELSE UNCHANGED <<latest, greeted>>
  /\ manager' = connected(manager)
  /\ UNCHANGED client

\* Mutant: TLSyncClient goes on believing that it is in the room.
handleDisconnectKeepingRoom(new, m) ==
  /\ status' = IF status = "offline" /\ new = "error" THEN status ELSE new
  /\ client' = IF new = "error" /\ status = "online" THEN "closed" ELSE client
  /\ manager' = disconnected(m, "done")
  /\ UNCHANGED <<latest, greeted>>

\* _handleDisconnect: a change of status resets TLSyncClient (an error closes
\* it); an error is not told to who is offline already.
handleDisconnect(new, m) ==
  /\ IF status = new \/ (status = "offline" /\ new = "error")
     THEN UNCHANGED <<status, client>>
     ELSE /\ status' = new
          /\ client' = IF new = "error" \/ client = "closed" THEN "closed" ELSE "apart"
  /\ manager' = disconnected(m, "done")
  /\ UNCHANGED <<latest, greeted>>

closed(s) == IF readyState[s] \in Live THEN [readyState EXCEPT ![s] = "closing"] ELSE readyState

\* Mutant: the orphan is not told to close.
closeSocketOpen(m) ==
  IF ws = None THEN manager' = m /\ UNCHANGED <<ws, readyState, status, clientVars>>
  ELSE /\ readyState' = readyState
       /\ ws' = None
       /\ handleDisconnect("offline", m)

\* _closeSocket: the socket is orphaned, so its onclose will be ignored.
closeSocket(m) ==
  IF ws = None THEN manager' = m /\ UNCHANGED <<ws, readyState, status, clientVars>>
  ELSE /\ readyState' = closed(ws)
       /\ ws' = None
       /\ handleDisconnect("offline", m)

\* maybeReconnected.
maybeReconnected(m0) ==
  LET m == [m0 EXCEPT !.recheck = Never]
  IN  CASE ReadyState = "open" ->
             manager' = m /\ UNCHANGED <<ws, readyState, status, clientVars>>
        [] ReadyState = "connecting" /\ age < ATTEMPT_TIMEOUT ->
             /\ manager' = [m EXCEPT !.recheck = ATTEMPT_TIMEOUT - age]
             /\ UNCHANGED <<ws, readyState, status, clientVars>>
        [] ReadyState = "connecting" /\ age >= ATTEMPT_TIMEOUT -> closeSocket(m)
        [] OTHER -> manager' = retryNow(m) /\ UNCHANGED <<ws, readyState, status, clientVars>>

\* restart(): _closeSocket, whose disconnected() is followed by that of
\* maybeReconnected.  TLSyncClient has reset itself, or does when it is told.
restart ==
  /\ ws # None /\ status = "online"
  /\ readyState' = closed(ws) /\ ws' = None
  /\ status' = "offline"
  /\ client' = IF client = "closed" THEN client ELSE "apart"
  /\ manager' = retryNow(disconnected(manager, "done"))
  /\ UNCHANGED <<latest, greeted>>

-----------------------------------------------------------------------------
(* What the browser and the server do, and the handlers that answer.       *)

anyTrouble == troubles < MaxTroubles /\ troubles' = troubles + 1
trouble    == anyTrouble /\ UNCHANGED rejected
untroubled == UNCHANGED <<age, disposed, rejected, troubles>>

Init ==
  /\ ws = None
  /\ readyState = [s \in Socket |-> "done"]
  /\ status = "offline"
  /\ manager = scheduleAttempt([state |-> "pendingAttempt", intendedDelay |-> ACTIVE_MIN_DELAY,
                                reconnectTimeout |-> Never, recheck |-> Never, uris |-> 0,
                                document |-> "visible"])
  /\ age = Never /\ disposed = FALSE
  /\ client = "apart" /\ latest = None /\ greeted = {}
  /\ rejected = FALSE /\ troubles = 0

\* A getUri() answers: the next socket, unless it answers too late (or one of
\* the two assertions on the current socket fails).
UriResolves ==
  /\ manager.uris > 0
  /\ IF manager.state # "pendingAttempt" \/ disposed \/ ReadyState \in Live
     THEN /\ manager' = [manager EXCEPT !.uris = @ - 1]
          /\ UNCHANGED <<ws, readyState, age, greeted>>
     ELSE \E s \in Socket :
            /\ readyState[s] = "done"
            /\ ws' = s /\ readyState' = [readyState EXCEPT ![s] = "connecting"]
            /\ greeted' = greeted \ {s}
            /\ age' = 0
            /\ manager' = [manager EXCEPT !.uris = @ - 1, !.state = "pendingAttemptResult"]
  /\ UNCHANGED <<status, disposed, client, latest, rejected, troubles>>

\* A getUri() rejects: nobody hears of it.
UriRejects ==
  /\ manager.uris > 0
  /\ anyTrouble /\ rejected' = TRUE
  /\ manager' = [manager EXCEPT !.uris = @ - 1]
  /\ UNCHANGED <<ws, readyState, status, age, disposed, clientVars>>

\* onopen.
Opens(s) ==
  /\ readyState[s] = "connecting"
  /\ readyState' = [readyState EXCEPT ![s] = "open"]
  /\ IF ws = s THEN handleConnect(s) ELSE UNCHANGED <<status, manager, clientVars>>
  /\ untroubled /\ UNCHANGED ws

\* The server's answer to the connect message (didReconnect).
HandshakeAnswered(s) ==
  /\ readyState[s] = "open" /\ ws = s /\ latest = s /\ client # "closed"
  /\ client' = "inRoom" /\ latest' = None
  /\ untroubled /\ UNCHANGED <<ws, readyState, status, manager, greeted>>

\* A socket starts to close from the other end; onclose comes later.
ServerCloses(s) ==
  /\ readyState[s] = "open" /\ trouble
  /\ \E rs \in {"closing", "rejected"} : readyState' = [readyState EXCEPT ![s] = rs]
  /\ UNCHANGED <<ws, status, manager, age, disposed, clientVars>>

\* The server gives up on a socket that sends no connect message.
ServerTimesOut(s) ==
  /\ readyState[s] = "open" /\ s \notin greeted
  /\ readyState' = [readyState EXCEPT ![s] = "closing"]
  /\ untroubled /\ UNCHANGED <<ws, status, manager, clientVars>>

\* A socket fails: onerror, and onclose later.
Fails(s) ==
  /\ readyState[s] \in Live \cup {"closing", "rejected"} /\ trouble
  /\ readyState' = [readyState EXCEPT ![s] = "failed"]
  /\ IF ws = s THEN handleDisconnect("offline", manager)
     ELSE UNCHANGED <<status, manager, clientVars>>
  /\ UNCHANGED <<ws, age, disposed>>

\* onclose, ignored for an orphan.
Closes(s) ==
  /\ readyState[s] \in {"closing", "rejected", "failed"}
  /\ readyState' = [readyState EXCEPT ![s] = "done"]
  /\ IF ws = s
     THEN handleDisconnect(IF readyState[s] = "rejected" THEN "error" ELSE "offline", manager)
     ELSE UNCHANGED <<status, manager, clientVars>>
  /\ untroubled /\ UNCHANGED ws

\* window 'offline'.
WindowOffline ==
  /\ ~disposed /\ trouble
  /\ closeSocket(manager)
  /\ UNCHANGED <<age, disposed>>

\* window 'online' or navigator.connection 'change'.
ReconnectHint ==
  /\ ~disposed /\ trouble
  /\ maybeReconnected(manager)
  /\ UNCHANGED <<age, disposed>>

Hide ==
  /\ manager.document = "visible" /\ trouble
  /\ manager' = [manager EXCEPT !.document = "hidden"]
  /\ UNCHANGED <<ws, readyState, status, age, disposed, clientVars>>

\* The document shows again, which is a hint too.
Show ==
  /\ manager.document = "hidden"
  /\ LET m == [manager EXCEPT !.document = "visible"]
     IN  IF disposed THEN manager' = m /\ UNCHANGED <<ws, readyState, status, clientVars>>
         ELSE maybeReconnected(m)
  /\ untroubled

\* TLSyncClient's health check, a push that cannot be sent, or a message that
\* cannot be parsed.
Restart ==
  /\ ~disposed /\ (client = "inRoom" \/ ReadyState = "open") /\ trouble
  /\ restart
  /\ UNCHANGED <<age, disposed>>

\* reconnectTimeout.
ReconnectTimer ==
  /\ manager.reconnectTimeout = 0
  /\ manager' = disconnected([manager EXCEPT !.reconnectTimeout = Never], ReadyState)
  /\ untroubled /\ UNCHANGED <<ws, readyState, status, clientVars>>

\* recheckConnectingTimeout.
RecheckTimer ==
  /\ manager.recheck = 0
  /\ maybeReconnected(manager)
  /\ untroubled

Later(t) == IF t = Never \/ t = 0 THEN t ELSE t - 1

TimePasses ==
  /\ age' = IF age = Never THEN age ELSE AtMost(MaxAge, age + 1)
  /\ manager' = [manager EXCEPT !.reconnectTimeout = Later(@), !.recheck = Later(@)]
  /\ UNCHANGED <<ws, readyState, status, disposed, clientVars, rejected, troubles>>

\* close().  The socket stays the adapter's, so its onclose is still heard;
\* TLSyncClient was closed before and hears nothing.
Dispose ==
  /\ ~disposed /\ trouble
  /\ disposed' = TRUE
  /\ manager' = [manager EXCEPT !.reconnectTimeout = Never, !.recheck = Never]
  /\ readyState' = IF ws = None THEN readyState ELSE closed(ws)
  /\ client' = "closed"
  /\ UNCHANGED <<ws, status, age, latest, greeted>>

BrowserStep ==
  \/ UriResolves \/ ReconnectTimer \/ RecheckTimer \/ TimePasses \/ Show
  \/ \E s \in Socket : Opens(s) \/ Closes(s) \/ HandshakeAnswered(s) \/ ServerTimesOut(s)

Trouble ==
  \/ UriRejects \/ WindowOffline \/ ReconnectHint \/ Hide \/ Restart \/ Dispose
  \/ \E s \in Socket : ServerCloses(s) \/ Fails(s)

Next == BrowserStep \/ Trouble

Spec == Init /\ [][Next]_vars

\* Timers fire, getUri() answers, the browser's sockets open or close in the
\* end, a hidden tab is shown again, and the server answers, or gives up on a
\* socket it hears nothing from.
Fairness ==
  /\ WF_vars(UriResolves) /\ WF_vars(ReconnectTimer) /\ WF_vars(RecheckTimer)
  /\ WF_vars(TimePasses) /\ WF_vars(Show)
  /\ \A s \in Socket :
       WF_vars(Opens(s)) /\ WF_vars(Closes(s)) /\ WF_vars(HandshakeAnswered(s)) /\ WF_vars(ServerTimesOut(s))

FairSpec == Spec /\ Fairness

-----------------------------------------------------------------------------
(* Properties.                                                             *)

TypeOK ==
  /\ ws \in Socket \cup {None}
  /\ readyState \in [Socket -> {"connecting", "open", "closing", "rejected", "failed", "done"}]
  /\ status \in {"online", "offline", "error"}
  /\ manager \in [state : {"pendingAttempt", "pendingAttemptResult", "delay", "connected"},
                  intendedDelay : ACTIVE_MIN_DELAY .. INACTIVE_MAX_DELAY,
                  reconnectTimeout : Nat \cup {Never}, recheck : Nat \cup {Never},
                  uris : Nat, document : {"visible", "hidden"}]
  /\ age \in 0 .. MaxAge \cup {Never}
  /\ disposed \in BOOLEAN
  /\ client \in {"apart", "inRoom", "closed"}
  /\ latest \in Socket \cup {None}
  /\ greeted \subseteq Socket
  /\ rejected \in BOOLEAN /\ troubles \in 0 .. MaxTroubles

\* The asserts of _setNewSocket, onopen and onmessage
\* (ClientWebSocketAdapter.ts:171-176, 187-190, 211-214): a socket that may
\* still open or speak is the adapter's, and while an attempt is pending there
\* is none.
OneLiveSocket ==
  \A s \in Socket : readyState[s] \in Live =>
    ws = s /\ manager.state \in {"pendingAttemptResult", "connected"}

\* Automatic reconnection (ClientWebSocketAdapter.ts:45-49): until it is
\* closed, something will always wake the manager up: a socket that has yet to
\* close, the answer of getUri(), or the delay timer.  Only a getUri() that
\* rejects is heard by nobody.
NeverStuck ==
  \/ disposed \/ rejected
  \/ ReadyState # "done"
  \/ manager.state = "pendingAttempt" /\ manager.uris > 0
  \/ manager.state = "delay" /\ manager.reconnectTimeout # Never

\* However hints, late answers of getUri() and timers fall, two attempts are at
\* least the minimal delay apart ("retry ASAP (honouring the min delay)",
\* ClientWebSocketAdapter.ts:617).
AttemptsSpaced ==
  [][ (\E s \in Socket : readyState[s] = "done" /\ readyState'[s] = "connecting")
        => age = Never \/ age >= ACTIVE_MIN_DELAY ]_vars

\* Once trouble stops the tab is in its room, on a socket whose connect message
\* the server has read, unless the server rejected it, the app let go of it, or
\* a getUri() rejected.
EventuallyInRoom ==
  <>[](client = "closed" \/ rejected \/ (client = "inRoom" /\ ReadyState = "open" /\ ws \in greeted))
=============================================================================
