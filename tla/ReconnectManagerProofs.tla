----------------------- MODULE ReconnectManagerProofs -----------------------
(***************************************************************************)
(* Proofs about the tab's connection: a socket that may still speak is the *)
(* adapter's, something always wakes the manager up, and two attempts are  *)
(* a minimal delay apart, for any delays and any number of troubles.       *)
(*                                                                         *)
(* All three rest on what disconnected() leaves behind (Disconnected-      *)
(* Wakes): an attempt that is not too early, or a timer.  It is called     *)
(* with no live socket, which is OneLiveSocket; that an attempt that was   *)
(* scheduled is still not too early when its uri comes is Spaced.          *)
(***************************************************************************)
EXTENDS ReconnectManager, TLAPS

Manager ==
  [state : {"pendingAttempt", "pendingAttemptResult", "delay", "connected"},
   intendedDelay : ACTIVE_MIN_DELAY .. INACTIVE_MAX_DELAY,
   reconnectTimeout : Nat \cup {Never}, recheck : Nat \cup {Never},
   uris : Nat, document : {"visible", "hidden"}]

\* Something will wake the manager up though it has no socket.
Wakes(m) ==
  \/ m.state = "pendingAttempt" /\ m.uris > 0
  \/ m.state = "delay" /\ m.reconnectTimeout # Never

\* An attempt that only waits for its uri is not too early.
Spaced(m) == m.state = "pendingAttempt" => age = Never \/ age >= ACTIVE_MIN_DELAY

\* Whoever has a socket once began an attempt.
SocketHasAge == ws # None => age # Never

ConnectionInv ==
  /\ TypeOK /\ OneLiveSocket /\ NeverStuck
  /\ Spaced(manager) /\ SocketHasAge

-----------------------------------------------------------------------------
(* The manager's own steps.                                                *)

LEMMA Half == ASSUME NEW d \in Nat PROVE (3 * d + 1) \div 2 \in Nat /\ (3 * d + 1) \div 2 >= d
  OBVIOUS

LEMMA Delays ==
  /\ ACTIVE_MIN_DELAY \in Nat /\ ACTIVE_MIN_DELAY > 0
  /\ INACTIVE_MIN_DELAY \in Nat /\ INACTIVE_MIN_DELAY > 0
  /\ ACTIVE_MAX_DELAY \in Nat /\ INACTIVE_MAX_DELAY \in Nat
  /\ ATTEMPT_TIMEOUT \in Nat /\ ATTEMPT_TIMEOUT > 0 /\ MaxTroubles \in Nat
  /\ ACTIVE_MIN_DELAY \in ACTIVE_MIN_DELAY .. INACTIVE_MAX_DELAY
  BY ReconnectAssumption

LEMMA BackoffInRange ==
  ASSUME NEW m \in Manager
  PROVE  Backoff(m) \in ACTIVE_MIN_DELAY .. INACTIVE_MAX_DELAY
<1> DEFINE d == AtLeast(MinDelay(m), m.intendedDelay)
           e == (3 * d + 1) \div 2
<1>1. /\ m.intendedDelay \in Nat /\ m.intendedDelay >= ACTIVE_MIN_DELAY
      /\ MinDelay(m) \in Nat /\ MaxDelay(m) \in Nat
      /\ MaxDelay(m) >= ACTIVE_MIN_DELAY /\ MaxDelay(m) <= INACTIVE_MAX_DELAY
  BY Delays, ReconnectAssumption DEF Manager, MinDelay, MaxDelay
<1>2. d \in Nat /\ d >= ACTIVE_MIN_DELAY
  BY <1>1, Delays DEF AtLeast
<1> HIDE DEF d
<1>3. e \in Nat /\ e >= d
  BY <1>2, Half
<1> HIDE DEF e
<1>4. AtMost(MaxDelay(m), e) \in ACTIVE_MIN_DELAY .. INACTIVE_MAX_DELAY
  BY <1>1, <1>2, <1>3, ReconnectAssumption DEF AtMost
<1> QED BY <1>4 DEF Backoff, d, e

LEMMA AttemptManager ==
  ASSUME NEW m \in Manager, NEW d \in ACTIVE_MIN_DELAY .. INACTIVE_MAX_DELAY
  PROVE  LET n == [m EXCEPT !.state = "pendingAttempt", !.uris = m.uris + 1, !.reconnectTimeout = Never,
                            !.intendedDelay = d]
         IN  n \in Manager /\ n.state = "pendingAttempt" /\ n.uris > 0
<1> DEFINE u == m.uris + 1
<1>1. u \in Nat /\ u > 0
  BY DEF Manager
<1> HIDE DEF u
<1> DEFINE n == [m EXCEPT !.state = "pendingAttempt", !.uris = u, !.reconnectTimeout = Never,
                          !.intendedDelay = d]
<1>2. n \in Manager
  BY <1>1 DEF Manager
<1>3. n.state = "pendingAttempt" /\ n.uris > 0
  BY <1>1 DEF Manager
<1> QED BY <1>2, <1>3 DEF u

\* disconnected() without a live socket: an attempt that is not too early, or a
\* timer.
LEMMA DisconnectedWakes ==
  ASSUME NEW m \in Manager, age \in 0 .. MaxAge \cup {Never}, NEW rs, rs \notin Live
  PROVE  /\ disconnected(m, rs) \in Manager
         /\ Wakes(disconnected(m, rs))
         /\ Spaced(disconnected(m, rs))
<1>1. /\ m.intendedDelay \in Nat /\ m.intendedDelay >= ACTIVE_MIN_DELAY
      /\ m.intendedDelay \in ACTIVE_MIN_DELAY .. INACTIVE_MAX_DELAY
      /\ MinDelay(m) \in ACTIVE_MIN_DELAY .. INACTIVE_MAX_DELAY
      /\ MinDelay(m) \in Nat /\ MinDelay(m) > 0
  BY ReconnectAssumption DEF Manager, MinDelay
<1>2. age = Never \/ age \in Nat
  BY DEF MaxAge
<1>3. delayLeft(m) \in Nat
  BY <1>1, <1>2 DEF delayLeft
<1>4. CASE delayLeft(m) > 0
  <2> DEFINE w == IF m.state = "connected" THEN MinDelay(m) ELSE m.intendedDelay
             n == [m EXCEPT !.state = "delay", !.reconnectTimeout = delayLeft(m), !.intendedDelay = w]
  <2>1. disconnected(m, rs) = n
    BY <1>4 DEF disconnected
  <2>2. w \in ACTIVE_MIN_DELAY .. INACTIVE_MAX_DELAY
    BY <1>1
  <2> HIDE DEF w
  <2>3. n \in Manager /\ n.state = "delay" /\ n.reconnectTimeout \in Nat
    BY <1>3, <2>2 DEF Manager
  <2> QED BY <2>1, <2>3, ReconnectAssumption DEF Wakes, Spaced
<1>5. CASE ~(delayLeft(m) > 0)
  <2> DEFINE n == [m EXCEPT !.state = "pendingAttempt", !.uris = m.uris + 1, !.reconnectTimeout = Never,
                            !.intendedDelay = Backoff(m)]
  <2>1. disconnected(m, rs) = n
    <3>1. disconnected(m, rs) = scheduleAttempt([m EXCEPT !.reconnectTimeout = Never, !.intendedDelay = Backoff(m)])
      BY <1>5 DEF disconnected
    <3> HIDE DEF disconnected
    <3>2. Backoff(m) \in ACTIVE_MIN_DELAY .. INACTIVE_MAX_DELAY
      BY BackoffInRange
    <3>3. scheduleAttempt([m EXCEPT !.reconnectTimeout = Never, !.intendedDelay = Backoff(m)])
            = [[m EXCEPT !.reconnectTimeout = Never, !.intendedDelay = Backoff(m)]
                 EXCEPT !.state = "pendingAttempt", !.uris = m.uris + 1]
      BY DEF scheduleAttempt, Manager
    <3> HIDE DEF scheduleAttempt
    <3>4. [[m EXCEPT !.reconnectTimeout = Never, !.intendedDelay = Backoff(m)]
             EXCEPT !.state = "pendingAttempt", !.uris = m.uris + 1] = n
      BY DEF Manager
    <3> QED BY <3>1, <3>3, <3>4
  <2>2. Backoff(m) \in ACTIVE_MIN_DELAY .. INACTIVE_MAX_DELAY
    BY BackoffInRange
  <2>3. n \in Manager /\ n.state = "pendingAttempt" /\ n.uris > 0
    BY <2>2, AttemptManager
  <2>4. age = Never \/ age >= ACTIVE_MIN_DELAY
    BY <1>1, <1>2, <1>5, ReconnectAssumption DEF delayLeft
  <2> QED BY <2>1, <2>3, <2>4 DEF Wakes, Spaced
<1> QED BY <1>4, <1>5

LEMMA RetryWakes ==
  ASSUME NEW m \in Manager, age \in 0 .. MaxAge \cup {Never}
  PROVE  retryNow(m) \in Manager /\ Wakes(retryNow(m)) /\ Spaced(retryNow(m))
<1> DEFINE n == [m EXCEPT !.recheck = Never, !.intendedDelay = ACTIVE_MIN_DELAY]
<1>1. n \in Manager
  BY Delays DEF Manager
<1> HIDE DEF n
<1>2. "done" \notin Live
  BY DEF Live
<1>3. /\ disconnected(n, "done") \in Manager
      /\ Wakes(disconnected(n, "done")) /\ Spaced(disconnected(n, "done"))
  BY <1>1, <1>2, DisconnectedWakes
<1> QED BY <1>3 DEF retryNow, n

LEMMA ConnectedManager ==
  ASSUME NEW m \in Manager
  PROVE  connected(m) \in Manager /\ connected(m).state = "connected"
  BY Delays DEF connected, Manager

-----------------------------------------------------------------------------
(* The two ways in which a step keeps the invariant.                       *)

States == {"connecting", "open", "closing", "rejected", "failed", "done"}

RestOK ==
  /\ status \in {"online", "offline", "error"}
  /\ disposed \in BOOLEAN /\ rejected \in BOOLEAN /\ troubles \in 0 .. MaxTroubles
  /\ client \in {"apart", "inRoom", "closed"}
  /\ latest \in Socket \cup {None}
  /\ greeted \subseteq Socket

LEMMA TypeParts ==
  TypeOK <=> /\ ws \in Socket \cup {None}
             /\ readyState \in [Socket -> States]
             /\ manager \in Manager
             /\ age \in 0 .. MaxAge \cup {Never}
             /\ RestOK
  BY DEF TypeOK, States, Manager, RestOK

LEMMA TypePartsNext ==
  ASSUME ws' \in Socket \cup {None}, readyState' \in [Socket -> States], manager' \in Manager,
         age' \in 0 .. MaxAge \cup {Never}, RestOK'
  PROVE  TypeOK'
  BY DEF TypeOK, States, Manager, RestOK

\* The manager was told that it has no connection.
LEMMA Woken ==
  ASSUME ConnectionInv, age' = age, ws' \in {ws, None},
         readyState' \in [Socket -> States], \A s \in Socket : readyState'[s] \notin Live,
         manager' \in Manager, Wakes(manager'), Spaced(manager'), RestOK'
  PROVE  ConnectionInv'
<1>1. TypeOK'
  BY TypeParts, TypePartsNext DEF ConnectionInv
<1>2. OneLiveSocket'
  BY DEF OneLiveSocket
<1>3. NeverStuck'
  BY DEF NeverStuck, Wakes
<1>4. Spaced(manager)' /\ SocketHasAge'
  BY DEF Spaced, SocketHasAge, ConnectionInv
<1> QED BY <1>1, <1>2, <1>3, <1>4 DEF ConnectionInv

\* The manager stays as it was, but for what does not put it to sleep.
LEMMA Kept ==
  ASSUME ConnectionInv, ws' = ws,
         readyState' \in [Socket -> States],
         \A s \in Socket : readyState'[s] \in Live => readyState[s] \in Live,
         manager' \in Manager, manager'.state = manager.state,
         age' \in 0 .. MaxAge \cup {Never}, age = Never <=> age' = Never,
         age' = age \/ age' >= ACTIVE_MIN_DELAY \/ manager.state # "pendingAttempt"
                    \/ age = Never \/ age' >= age,
         disposed => disposed', rejected => rejected',
         \/ disposed' \/ rejected'
         \/ /\ ReadyState # "done" => ReadyState' # "done"
            /\ Wakes(manager) => Wakes(manager'),
         RestOK'
  PROVE  ConnectionInv'
<1>1. TypeOK'
  BY TypeParts, TypePartsNext DEF ConnectionInv
<1>2. OneLiveSocket'
  BY DEF ConnectionInv, OneLiveSocket
<1>3. NeverStuck'
  BY DEF ConnectionInv, NeverStuck, Wakes
<1>4. Spaced(manager)'
  <2>1. age \in Nat \cup {Never} /\ age' \in Nat \cup {Never}
    BY TypeParts DEF ConnectionInv
  <2> QED BY <2>1, Delays DEF ConnectionInv, Spaced
<1>5. SocketHasAge'
  BY DEF ConnectionInv, SocketHasAge
<1> QED BY <1>1, <1>2, <1>3, <1>4, <1>5 DEF ConnectionInv

-----------------------------------------------------------------------------
(* The steps.                                                              *)

LEMMA InitConnection == Init => ConnectionInv
<1> SUFFICES ASSUME Init PROVE ConnectionInv
  OBVIOUS
<1> DEFINE r == [state |-> "pendingAttempt", intendedDelay |-> ACTIVE_MIN_DELAY,
                 reconnectTimeout |-> Never, recheck |-> Never, uris |-> 0, document |-> "visible"]
<1>1. r \in Manager /\ r.uris = 0
  BY Delays DEF Manager
<1>2. manager = scheduleAttempt(r)
  BY DEF Init
<1> HIDE DEF r
<1> DEFINE u == r.uris + 1
<1>u. u \in Nat /\ u > 0 /\ manager = [r EXCEPT !.state = "pendingAttempt", !.uris = u]
  BY <1>1, <1>2 DEF scheduleAttempt
<1> HIDE DEF u
<1>3. manager \in Manager /\ manager.state = "pendingAttempt" /\ manager.uris > 0
  BY <1>1, <1>u DEF Manager
<1>4. RestOK
  <2>1. /\ status = "offline" /\ disposed = FALSE /\ client = "apart" /\ latest = None /\ greeted = {}
        /\ rejected = FALSE /\ troubles = 0
    BY DEF Init
  <2>2. disposed \in BOOLEAN /\ rejected \in BOOLEAN
    BY <2>1, Zenon
  <2>3. troubles \in 0 .. MaxTroubles
    BY <2>1, Delays
  <2>4. /\ status \in {"online", "offline", "error"} /\ client \in {"apart", "inRoom", "closed"}
        /\ latest \in Socket \cup {None} /\ greeted \subseteq Socket
    BY <2>1
  <2> QED BY <2>2, <2>3, <2>4 DEF RestOK
<1>5. TypeOK
  BY <1>3, <1>4, TypeParts DEF Init, States
<1> QED BY <1>3, <1>5 DEF Init, ConnectionInv, OneLiveSocket, NeverStuck, Spaced, SocketHasAge, Live

\* What holds before every step.
LEMMA Before ==
  ASSUME ConnectionInv
  PROVE  /\ ws \in Socket \cup {None} /\ readyState \in [Socket -> States]
         /\ manager \in Manager /\ age \in 0 .. MaxAge \cup {Never} /\ RestOK
         /\ \A s \in Socket : readyState[s] \in Live => s = ws
         /\ ReadyState \in Live => ws \in Socket /\ manager.state \in {"pendingAttemptResult", "connected"}
  BY TypeParts DEF ConnectionInv, OneLiveSocket, ReadyState, Live

\* _handleDisconnect, once no socket is live any more.
LEMMA DisconnectKeeps ==
  ASSUME ConnectionInv, NEW m \in Manager, NEW new \in {"offline", "error"}, handleDisconnect(new, m),
         ws' \in {ws, None}, age' = age, UNCHANGED disposed, rejected' \in BOOLEAN, troubles' \in 0 .. MaxTroubles,
         readyState' \in [Socket -> States], \A s \in Socket : readyState'[s] \notin Live
  PROVE  ConnectionInv'
<1>1. manager' = disconnected(m, "done") /\ RestOK'
  BY Before DEF handleDisconnect, RestOK
<1>2. manager' \in Manager /\ Wakes(manager') /\ Spaced(manager')
  BY <1>1, Before, DisconnectedWakes DEF Live
<1> QED BY <1>1, <1>2, Woken

LEMMA CloseSocketKeeps ==
  ASSUME ConnectionInv, NEW m \in Manager, m.state = manager.state, m.uris = manager.uris,
         m.reconnectTimeout = manager.reconnectTimeout, closeSocket(m),
         age' = age, UNCHANGED <<disposed, rejected>>, troubles' \in 0 .. MaxTroubles
  PROVE  ConnectionInv'
<1>1. CASE ws = None
  <2>1. manager' = m /\ UNCHANGED <<ws, readyState, status, client, latest, greeted>>
    BY <1>1 DEF closeSocket, clientVars
  <2>2. RestOK'
    BY <2>1, Before DEF RestOK
  <2> QED BY <2>1, <2>2, Before, Kept DEF ReadyState, Wakes
<1>2. CASE ws # None
  <2>1. readyState' = closed(ws) /\ ws' = None /\ handleDisconnect("offline", m) /\ ws \in Socket
    BY <1>2, Before DEF closeSocket
  <2>2. readyState' \in [Socket -> States] /\ \A s \in Socket : readyState'[s] \notin Live
    BY <2>1, Before DEF closed, Live, States
  <2>3. rejected' \in BOOLEAN
    BY Before DEF RestOK
  <2> QED BY <2>1, <2>2, <2>3, DisconnectKeeps
<1> QED BY <1>1, <1>2

\* maybeReconnected, called with the manager as it is but for its document.
LEMMA MaybeReconnectedKeeps ==
  ASSUME ConnectionInv, NEW m0 \in Manager, m0.state = manager.state, m0.uris = manager.uris,
         m0.reconnectTimeout = manager.reconnectTimeout, maybeReconnected(m0),
         age' = age, UNCHANGED <<disposed, rejected>>, troubles' \in 0 .. MaxTroubles
  PROVE  ConnectionInv'
<1> DEFINE m == [m0 EXCEPT !.recheck = Never]
<1>1. m \in Manager /\ m.state = m0.state /\ m.uris = m0.uris /\ m.reconnectTimeout = m0.reconnectTimeout
  BY DEF Manager
<1>2. ASSUME UNCHANGED <<ws, readyState, status, client, latest, greeted>>
      PROVE  /\ RestOK'
             /\ readyState' \in [Socket -> States]
             /\ ReadyState' = ReadyState
  BY <1>2, Before DEF RestOK, ReadyState
<1>3. CASE ReadyState = "open"
  <2>1. manager' = m /\ UNCHANGED <<ws, readyState, status, client, latest, greeted>>
    BY <1>3 DEF maybeReconnected, clientVars
  <2> QED BY <1>1, <1>2, <2>1, Before, Kept DEF Wakes
<1>4. CASE ReadyState = "connecting" /\ age < ATTEMPT_TIMEOUT
  <2>1. age \in Nat
    BY <1>4, Before DEF ConnectionInv, SocketHasAge, ReadyState, MaxAge
  <2> DEFINE left == ATTEMPT_TIMEOUT - age
  <2>2. left \in Nat
    BY <1>4, <2>1, Delays
  <2>3. manager' = [m EXCEPT !.recheck = left] /\ UNCHANGED <<ws, readyState, status, client, latest, greeted>>
    BY <1>4, <2>1, Delays DEF maybeReconnected, clientVars
  <2> HIDE DEF left, m
  <2>4. /\ manager' \in Manager /\ manager'.state = m.state /\ manager'.uris = m.uris
        /\ manager'.reconnectTimeout = m.reconnectTimeout
    BY <1>1, <2>2, <2>3 DEF Manager
  <2> QED BY <1>1, <1>2, <2>3, <2>4, Before, Kept DEF Wakes
<1>5. CASE ReadyState = "connecting" /\ age >= ATTEMPT_TIMEOUT
  <2>1. age \in Nat
    BY <1>5, Before DEF ConnectionInv, SocketHasAge, ReadyState, MaxAge
  <2>2. closeSocket(m)
    BY <1>5, <2>1, Delays DEF maybeReconnected
  <2> HIDE DEF m
  <2> QED BY <1>1, <2>2, CloseSocketKeeps
<1>6. CASE ReadyState \notin Live
  <2>1. manager' = retryNow(m) /\ UNCHANGED <<ws, readyState, status, client, latest, greeted>>
    BY <1>6 DEF maybeReconnected, clientVars, Live
  <2>2. manager' \in Manager /\ Wakes(manager') /\ Spaced(manager')
    BY <1>1, <2>1, Before, RetryWakes
  <2>3. \A s \in Socket : readyState'[s] \notin Live
    BY <1>6, <2>1, Before, ReconnectAssumption DEF ReadyState
  <2> QED BY <1>2, <2>1, <2>2, <2>3, Woken
<1>7. age \in Nat => age < ATTEMPT_TIMEOUT \/ age >= ATTEMPT_TIMEOUT
  BY Delays
<1>8. ReadyState = "connecting" => age \in Nat
  BY Before DEF ConnectionInv, SocketHasAge, ReadyState, MaxAge
<1> QED BY <1>3, <1>4, <1>5, <1>6, <1>7, <1>8 DEF Live

LEMMA UriResolvesKeeps == ASSUME ConnectionInv, UriResolves PROVE ConnectionInv'
<1> DEFINE n == [manager EXCEPT !.uris = manager.uris - 1]
<1>1. UNCHANGED <<status, disposed, client, latest, rejected, troubles>> /\ manager.uris > 0
  BY DEF UriResolves
<1>2. CASE manager.state # "pendingAttempt" \/ disposed \/ ReadyState \in Live
  <2>1. manager' = n /\ UNCHANGED <<ws, readyState, age, greeted>>
    BY <1>2 DEF UriResolves
  <2>2. n \in Manager /\ n.state = manager.state /\ n.reconnectTimeout = manager.reconnectTimeout
    BY <1>1, Before DEF Manager
  <2> HIDE DEF n
  <2>3. manager.state # "pendingAttempt" \/ disposed
    BY <1>2, Before
  <2>4. disposed' \/ rejected' \/ /\ ReadyState # "done" => ReadyState' # "done"
                                  /\ Wakes(manager) => Wakes(manager')
    BY <1>1, <2>1, <2>2, <2>3 DEF Wakes, ReadyState
  <2>5. RestOK'
    BY <1>1, <2>1, Before DEF RestOK
  <2> QED BY <1>1, <2>1, <2>2, <2>4, <2>5, Before, Kept
<1>3. CASE ~(manager.state # "pendingAttempt" \/ disposed \/ ReadyState \in Live)
  <2>1. PICK s \in Socket :
          /\ readyState[s] = "done" /\ ws' = s /\ readyState' = [readyState EXCEPT ![s] = "connecting"]
          /\ greeted' = greeted \ {s} /\ age' = 0
          /\ manager' = [manager EXCEPT !.uris = manager.uris - 1, !.state = "pendingAttemptResult"]
    BY <1>3 DEF UriResolves
  <2> DEFINE u == manager.uris - 1
  <2>u. u \in Nat /\ manager' = [manager EXCEPT !.uris = u, !.state = "pendingAttemptResult"]
    BY <1>1, <2>1, Before DEF Manager
  <2> HIDE DEF u
  <2>2. manager' \in Manager /\ manager'.state = "pendingAttemptResult"
    BY <2>u, Before DEF Manager
  <2>3. age' \in 0 .. MaxAge /\ age' # Never
    BY <2>1, ReconnectAssumption, Delays DEF MaxAge
  <2>4. readyState' \in [Socket -> States] /\ readyState'[s] = "connecting"
    BY <2>1, Before DEF States
  <2>5. RestOK'
    BY <1>1, <2>1, Before DEF RestOK
  <2>6. TypeOK'
    BY <2>1, <2>2, <2>3, <2>4, <2>5, TypePartsNext
  <2>7. OneLiveSocket'
    <3>1. \A q \in Socket \ {s} : readyState'[q] \notin Live
      BY <1>3, <2>1, Before DEF ConnectionInv, OneLiveSocket
    <3> QED BY <2>1, <2>2, <3>1 DEF OneLiveSocket
  <2>8. NeverStuck' /\ Spaced(manager)' /\ SocketHasAge'
    BY <2>1, <2>2, <2>3, <2>4, ReconnectAssumption DEF NeverStuck, ReadyState, Spaced, SocketHasAge
  <2> QED BY <2>6, <2>7, <2>8 DEF ConnectionInv
<1> QED BY <1>2, <1>3

\* Steps of a socket.  A socket that is not the adapter's is not live.
LEMMA SocketKeeps ==
  ASSUME ConnectionInv, NEW s \in Socket,
         Opens(s) \/ HandshakeAnswered(s) \/ ServerCloses(s) \/ ServerTimesOut(s) \/ Fails(s) \/ Closes(s)
  PROVE  ConnectionInv'
<1>1. CASE Opens(s)
  <2>1. ws = s /\ handleConnect(s) /\ readyState' = [readyState EXCEPT ![s] = "open"]
        /\ UNCHANGED <<ws, age, disposed, rejected, troubles>>
    BY <1>1, Before DEF Opens, Live, untroubled
  <2>2. manager' \in Manager /\ manager'.state = "connected"
    BY <2>1, Before, ConnectedManager DEF handleConnect
  <2>3. readyState' \in [Socket -> States] /\ readyState'[s] = "open"
    BY <2>1, Before DEF States
  <2>4. RestOK'
    BY <2>1, Before DEF RestOK, handleConnect
  <2>5. TypeOK'
    BY <2>1, <2>2, <2>3, <2>4, Before, TypePartsNext
  <2>6. OneLiveSocket'
    BY <2>1, <2>2, Before DEF OneLiveSocket
  <2>7. NeverStuck' /\ Spaced(manager)' /\ SocketHasAge'
    BY <2>1, <2>2, <2>3, ReconnectAssumption
       DEF ConnectionInv, NeverStuck, ReadyState, Spaced, SocketHasAge
  <2> QED BY <2>5, <2>6, <2>7 DEF ConnectionInv
<1>2. CASE HandshakeAnswered(s)
  <2>1. UNCHANGED <<ws, readyState, manager, age, disposed, rejected>>
    BY <1>2 DEF HandshakeAnswered, untroubled
  <2>2. RestOK'
    BY <1>2, Before DEF RestOK, HandshakeAnswered, untroubled
  <2> QED BY <2>1, <2>2, Before, Kept DEF ReadyState
<1>3. CASE ServerCloses(s)
  <2>1. UNCHANGED <<ws, manager, age, disposed, rejected>>
        /\ \E rs \in {"closing", "rejected"} : readyState' = [readyState EXCEPT ![s] = rs]
    BY <1>3 DEF ServerCloses, trouble
  <2>2. RestOK'
    BY <1>3, Before, Delays DEF RestOK, ServerCloses, trouble, anyTrouble, clientVars
  <2>3. readyState' \in [Socket -> States] /\ readyState'[s] \in {"closing", "rejected"}
        /\ \A q \in Socket \ {s} : readyState'[q] = readyState[q]
    BY <2>1, Before DEF States
  <2>4. ReadyState # "done" => ReadyState' # "done"
    BY <2>1, <2>3, Before DEF ReadyState
  <2>5. \A q \in Socket : readyState'[q] \in Live => readyState[q] \in Live
    BY <2>3 DEF Live
  <2> QED BY <2>1, <2>2, <2>3, <2>4, <2>5, Before, Kept
<1>4. CASE ServerTimesOut(s)
  <2>1. UNCHANGED <<ws, manager, age, disposed, rejected>>
        /\ readyState' = [readyState EXCEPT ![s] = "closing"]
    BY <1>4 DEF ServerTimesOut, untroubled
  <2>2. RestOK'
    BY <1>4, Before DEF RestOK, ServerTimesOut, untroubled, clientVars
  <2>3. readyState' \in [Socket -> States] /\ readyState'[s] = "closing"
        /\ \A q \in Socket \ {s} : readyState'[q] = readyState[q]
    BY <2>1, Before DEF States
  <2>4. ReadyState # "done" => ReadyState' # "done"
    BY <2>1, <2>3, Before DEF ReadyState
  <2>5. \A q \in Socket : readyState'[q] \in Live => readyState[q] \in Live
    BY <2>3 DEF Live
  <2> QED BY <2>1, <2>2, <2>3, <2>4, <2>5, Before, Kept
<1>5. CASE Fails(s) \/ Closes(s)
  <2>1. PICK rs \in {"failed", "done"} :
          /\ readyState' = [readyState EXCEPT ![s] = rs]
          /\ UNCHANGED <<ws, age, disposed, rejected>> /\ troubles' \in 0 .. MaxTroubles
    BY <1>5, Before, Delays DEF Fails, Closes, trouble, anyTrouble, untroubled, RestOK
  <2>2. readyState' \in [Socket -> States] /\ readyState'[s] = rs
        /\ \A q \in Socket \ {s} : readyState'[q] = readyState[q]
    BY <2>1, Before DEF States
  <2>3. CASE ws = s
    <3>1. \E new \in {"offline", "error"} : handleDisconnect(new, manager)
      BY <1>5, <2>3 DEF Fails, Closes
    <3>2. \A q \in Socket : readyState'[q] \notin Live
      BY <2>2, <2>3, Before DEF Live
    <3>3. rejected' \in BOOLEAN
      BY <2>1, Before DEF RestOK
    <3> QED BY <2>1, <2>2, <3>1, <3>2, <3>3, Before, DisconnectKeeps
  <2>4. CASE ws # s
    <3>1. UNCHANGED <<status, manager, client, latest, greeted>>
      BY <1>5, <2>4 DEF Fails, Closes, clientVars
    <3>2. RestOK'
      BY <2>1, <3>1, Before DEF RestOK
    <3>3. ReadyState' = ReadyState
      BY <2>1, <2>2, <2>4, Before DEF ReadyState
    <3>4. \A q \in Socket : readyState'[q] \in Live => readyState[q] \in Live
      BY <2>2 DEF Live
    <3> QED BY <2>1, <2>2, <3>1, <3>2, <3>3, <3>4, Before, Kept
  <2> QED BY <2>3, <2>4
<1> QED BY <1>1, <1>2, <1>3, <1>4, <1>5

\* Steps of the browser, the app and the clock.
LEMMA RestartKeeps == ASSUME ConnectionInv, Restart PROVE ConnectionInv'
<1>1. /\ ws # None /\ readyState' = closed(ws) /\ ws' = None /\ status' = "offline"
      /\ client' \in {client, "apart"} /\ manager' = retryNow(disconnected(manager, "done"))
      /\ UNCHANGED <<latest, greeted, age, disposed, rejected>> /\ troubles' \in 0 .. MaxTroubles
  BY Before, Delays DEF Restart, restart, trouble, anyTrouble, RestOK
<1>2. disconnected(manager, "done") \in Manager
  BY Before, DisconnectedWakes DEF Live
<1>3. manager' \in Manager /\ Wakes(manager') /\ Spaced(manager')
  BY <1>1, <1>2, Before, RetryWakes
<1>4. readyState' \in [Socket -> States] /\ \A s \in Socket : readyState'[s] \notin Live
  BY <1>1, Before DEF closed, Live, States
<1>5. RestOK'
  BY <1>1, Before DEF RestOK
<1> QED BY <1>1, <1>3, <1>4, <1>5, Woken

LEMMA ReconnectTimerKeeps == ASSUME ConnectionInv, ReconnectTimer PROVE ConnectionInv'
<1> DEFINE m == [manager EXCEPT !.reconnectTimeout = Never]
<1>1. /\ manager.reconnectTimeout = 0 /\ manager' = disconnected(m, ReadyState)
      /\ UNCHANGED <<ws, readyState, status, client, latest, greeted, age, disposed, rejected, troubles>>
  BY DEF ReconnectTimer, untroubled, clientVars
<1>2. m \in Manager /\ m.state = manager.state /\ m.uris = manager.uris
  BY Before DEF Manager
<1> HIDE DEF m
<1>3. RestOK' /\ readyState' \in [Socket -> States]
  BY <1>1, Before DEF RestOK
<1>4. CASE ReadyState \in Live
  <2>1. manager' = m
    BY <1>1, <1>4 DEF disconnected
  <2>2. ReadyState' = ReadyState /\ manager.state # "delay" /\ manager.state # "pendingAttempt"
    BY <1>1, <1>4, Before DEF ReadyState
  <2> QED BY <1>1, <1>2, <1>3, <2>1, <2>2, Before, Kept DEF Wakes
<1>5. CASE ReadyState \notin Live
  <2>1. manager' \in Manager /\ Wakes(manager') /\ Spaced(manager')
    BY <1>1, <1>2, <1>5, Before, DisconnectedWakes
  <2>2. \A s \in Socket : readyState'[s] \notin Live
    BY <1>1, <1>5, Before, ReconnectAssumption DEF ReadyState
  <2> QED BY <1>1, <1>3, <2>1, <2>2, Woken
<1> QED BY <1>4, <1>5

LEMMA TimePassesKeeps == ASSUME ConnectionInv, TimePasses PROVE ConnectionInv'
<1> DEFINE t == Later(manager.reconnectTimeout)
           c == Later(manager.recheck)
<1>1. /\ t \in Nat \cup {Never} /\ c \in Nat \cup {Never}
      /\ manager.reconnectTimeout # Never => t # Never
  BY Before, ReconnectAssumption DEF Later, Manager
<1>2. /\ manager' = [manager EXCEPT !.reconnectTimeout = t, !.recheck = c]
      /\ age' = IF age = Never THEN age ELSE AtMost(MaxAge, age + 1)
      /\ UNCHANGED <<ws, readyState, status, client, latest, greeted, disposed, rejected, troubles>>
  BY Before DEF TimePasses, clientVars, Manager
<1> HIDE DEF t, c
<1>3. /\ manager' \in Manager /\ manager'.state = manager.state /\ manager'.uris = manager.uris
      /\ manager'.reconnectTimeout = t
  BY <1>1, <1>2, Before DEF Manager
<1>4. MaxAge \in Nat /\ age \in 0 .. MaxAge \cup {Never}
  BY Before, Delays DEF MaxAge
<1>5. /\ age' \in 0 .. MaxAge \cup {Never} /\ (age = Never <=> age' = Never)
      /\ age = Never \/ age' >= age
  <2>1. CASE age = Never
    BY <1>2, <2>1
  <2>2. CASE age # Never
    <3>1. age' = AtMost(MaxAge, age + 1) /\ age \in 0 .. MaxAge
      BY <1>2, <1>4, <2>2
    <3>2. age' \in 0 .. MaxAge /\ age' >= age
      BY <1>4, <3>1 DEF AtMost
    <3> QED BY <1>4, <2>2, <3>2, ReconnectAssumption
  <2> QED BY <2>1, <2>2
<1>6. RestOK' /\ ReadyState' = ReadyState
  BY <1>2, Before DEF RestOK, ReadyState
<1> QED BY <1>1, <1>2, <1>3, <1>5, <1>6, Before, Kept DEF Wakes

LEMMA OtherKeeps ==
  ASSUME ConnectionInv, UriRejects \/ WindowOffline \/ ReconnectHint \/ Hide \/ Show \/ RecheckTimer \/ Dispose
  PROVE  ConnectionInv'
<1>1. CASE UriRejects
  <2> DEFINE u == manager.uris - 1
  <2>1. /\ u \in Nat /\ manager' = [manager EXCEPT !.uris = u] /\ rejected' = TRUE
        /\ UNCHANGED <<ws, readyState, status, age, disposed, client, latest, greeted>>
        /\ troubles' \in 0 .. MaxTroubles
    BY <1>1, Before, Delays DEF UriRejects, anyTrouble, clientVars, Manager, RestOK
  <2> HIDE DEF u
  <2>2. manager' \in Manager /\ manager'.state = manager.state
    BY <2>1, Before DEF Manager
  <2>3. rejected' \in BOOLEAN
    BY <2>1, Zenon
  <2>4. RestOK'
    BY <2>1, <2>3, Before DEF RestOK
  <2> QED BY <2>1, <2>2, <2>4, Before, Kept
<1>2. CASE WindowOffline
  <2>1. closeSocket(manager) /\ UNCHANGED <<age, disposed, rejected>> /\ troubles' \in 0 .. MaxTroubles
    BY <1>2, Before, Delays DEF WindowOffline, trouble, anyTrouble, RestOK
  <2> QED BY <2>1, Before, CloseSocketKeeps
<1>3. CASE ReconnectHint \/ RecheckTimer
  <2>1. maybeReconnected(manager) /\ UNCHANGED <<age, disposed, rejected>> /\ troubles' \in 0 .. MaxTroubles
    BY <1>3, Before, Delays DEF ReconnectHint, RecheckTimer, untroubled, trouble, anyTrouble, RestOK
  <2> QED BY <2>1, Before, MaybeReconnectedKeeps
<1>4. CASE Hide
  <2>1. /\ manager' = [manager EXCEPT !.document = "hidden"]
        /\ UNCHANGED <<ws, readyState, status, age, disposed, client, latest, greeted, rejected>>
        /\ troubles' \in 0 .. MaxTroubles
    BY <1>4, Before, Delays DEF Hide, trouble, anyTrouble, clientVars, RestOK
  <2>2. /\ manager' \in Manager /\ manager'.state = manager.state /\ manager'.uris = manager.uris
        /\ manager'.reconnectTimeout = manager.reconnectTimeout
    BY <2>1, Before DEF Manager
  <2>3. RestOK' /\ ReadyState' = ReadyState
    BY <2>1, Before DEF RestOK, ReadyState
  <2> QED BY <2>1, <2>2, <2>3, Before, Kept DEF Wakes
<1>5. CASE Show
  <2> DEFINE m == [manager EXCEPT !.document = "visible"]
  <2>1. /\ m \in Manager /\ m.state = manager.state /\ m.uris = manager.uris
        /\ m.reconnectTimeout = manager.reconnectTimeout
    BY Before DEF Manager
  <2>2. UNCHANGED <<age, disposed, rejected, troubles>>
    BY <1>5 DEF Show, untroubled
  <2>3. CASE disposed
    <3>1. manager' = m /\ UNCHANGED <<ws, readyState, status, client, latest, greeted>>
      BY <1>5, <2>3 DEF Show, clientVars
    <3>2. RestOK' /\ ReadyState' = ReadyState
      BY <2>2, <3>1, Before DEF RestOK, ReadyState
    <3> QED BY <2>1, <2>2, <3>1, <3>2, Before, Kept DEF Wakes
  <2>4. CASE ~disposed
    <3>1. maybeReconnected(m) /\ troubles' \in 0 .. MaxTroubles
      BY <1>5, <2>2, <2>4, Before DEF Show, RestOK
    <3> HIDE DEF m
    <3> QED BY <2>1, <2>2, <3>1, MaybeReconnectedKeeps
  <2> QED BY <2>3, <2>4
<1>6. CASE Dispose
  <2>1. /\ disposed' = TRUE /\ client' = "closed"
        /\ manager' = [manager EXCEPT !.reconnectTimeout = Never, !.recheck = Never]
        /\ readyState' = IF ws = None THEN readyState ELSE closed(ws)
        /\ UNCHANGED <<ws, status, age, latest, greeted, rejected>> /\ troubles' \in 0 .. MaxTroubles
    BY <1>6, Before, Delays DEF Dispose, trouble, anyTrouble, RestOK
  <2>2. manager' \in Manager /\ manager'.state = manager.state
    BY <2>1, Before DEF Manager
  <2>3. /\ readyState' \in [Socket -> States]
        /\ \A s \in Socket : readyState'[s] \in Live => readyState[s] \in Live
    BY <2>1, Before DEF closed, Live, States
  <2>4. disposed' \in BOOLEAN
    BY <2>1, Zenon
  <2>5. RestOK'
    BY <2>1, <2>4, Before DEF RestOK
  <2> QED BY <2>1, <2>2, <2>3, <2>5, Before, Kept
<1> QED BY <1>1, <1>2, <1>3, <1>4, <1>5, <1>6

LEMMA StutterKeeps == ASSUME ConnectionInv, UNCHANGED vars PROVE ConnectionInv'
  BY DEF vars, clientVars, ConnectionInv, TypeOK, OneLiveSocket, NeverStuck, ReadyState, Spaced, SocketHasAge

LEMMA NextKeeps == ConnectionInv /\ [Next]_vars => ConnectionInv'
<1> SUFFICES ASSUME ConnectionInv, [Next]_vars PROVE ConnectionInv'
  OBVIOUS
<1>1. CASE UNCHANGED vars
  BY <1>1, StutterKeeps
<1>2. CASE \E s \in Socket : \/ Opens(s) \/ HandshakeAnswered(s) \/ ServerCloses(s) \/ ServerTimesOut(s)
                            \/ Fails(s) \/ Closes(s)
  BY <1>2, SocketKeeps
<1>3. CASE UriResolves
  BY <1>3, UriResolvesKeeps
<1>4. CASE Restart
  BY <1>4, RestartKeeps
<1>5. CASE ReconnectTimer
  BY <1>5, ReconnectTimerKeeps
<1>6. CASE TimePasses
  BY <1>6, TimePassesKeeps
<1>7. CASE UriRejects \/ WindowOffline \/ ReconnectHint \/ Hide \/ Show \/ RecheckTimer \/ Dispose
  BY <1>7, OtherKeeps
<1> QED BY <1>1, <1>2, <1>3, <1>4, <1>5, <1>6, <1>7 DEF Next, BrowserStep, Trouble

-----------------------------------------------------------------------------
(* The theorems.                                                           *)

LEMMA ConnectionInvariant == Spec => []ConnectionInv
  BY InitConnection, NextKeeps, PTL DEF Spec

\* Delays, timers and statuses keep their types; the delay never leaves its bounds.
THEOREM ConnectionTypes == Spec => []TypeOK
  BY ConnectionInvariant, PTL DEF ConnectionInv

\* The asserts of _setNewSocket, onopen and onmessage never fail.
THEOREM AssertsHold == Spec => []OneLiveSocket
  BY ConnectionInvariant, PTL DEF ConnectionInv

\* Until it is closed, or a getUri() rejects, something always wakes the manager up.
THEOREM AlwaysWoken == Spec => []NeverStuck
  BY ConnectionInvariant, PTL DEF ConnectionInv

\* Two attempts are never less than the minimal delay apart.
THEOREM AttemptsWait == Spec => AttemptsSpaced
<1> DEFINE Early == \E s \in Socket : readyState[s] = "done" /\ readyState'[s] = "connecting"
           Late  == age = Never \/ age >= ACTIVE_MIN_DELAY
<1>1. ConnectionInv /\ [Next]_vars => [Early => Late]_vars
  <2> SUFFICES ASSUME ConnectionInv, Next, NEW s \in Socket, readyState[s] = "done", readyState'[s] = "connecting"
               PROVE  Late
    OBVIOUS
  <2>1. UriResolves
    <3>1. ASSUME NEW q \in Socket, NEW rs \in States \ {"connecting"}, readyState' = [readyState EXCEPT ![q] = rs]
          PROVE  FALSE
      BY <3>1, Before
    <3>2. readyState' # readyState
      OBVIOUS
    <3>3. ws \in Socket => readyState' # closed(ws)
      BY <3>2, Before DEF closed
    <3>4. ~ \E q \in Socket : \/ Opens(q) \/ HandshakeAnswered(q) \/ ServerCloses(q) \/ ServerTimesOut(q)
                              \/ Fails(q) \/ Closes(q)
      BY <3>1, <3>2 DEF Opens, HandshakeAnswered, ServerCloses, ServerTimesOut, Fails, Closes, States
    <3>5. \A m : ~closeSocket(m) /\ ~maybeReconnected(m)
      BY <3>2, <3>3, Before DEF closeSocket, maybeReconnected, clientVars
    <3>6. ~Restart /\ ~WindowOffline /\ ~ReconnectHint /\ ~RecheckTimer /\ ~Show /\ ~Dispose
      BY <3>2, <3>3, <3>5, Before DEF Restart, restart, WindowOffline, ReconnectHint, RecheckTimer, Show, Dispose
    <3>7. ~TimePasses /\ ~Hide /\ ~ReconnectTimer /\ ~UriRejects
      BY <3>2 DEF TimePasses, Hide, ReconnectTimer, UriRejects
    <3> QED BY <3>4, <3>6, <3>7 DEF Next, BrowserStep, Trouble
  <2>2. manager.state = "pendingAttempt"
    BY <2>1 DEF UriResolves
  <2> QED BY <2>2 DEF ConnectionInv, Spaced
<1>2. Spec => [][Early => Late]_vars
  BY <1>1, ConnectionInvariant, PTL DEF Spec
<1> QED BY <1>2 DEF AttemptsSpaced
=============================================================================
