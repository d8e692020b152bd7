------------------------- MODULE RoomSessionsProofs -------------------------
(***************************************************************************)
(* Proofs about the sessions of a sync room.                               *)
(*                                                                         *)
(* The inductive invariant is SessionInv: what is so of sockets and their  *)
(* messages, and that the room is Good, which is closed under everything a *)
(* turn does to it.  A handler works on a room that nobody outside it sees *)
(* before the turn ends, so each step of it is a lemma of its own, from    *)
(* the message to one session (SendKeeps) over the broadcast, a fold, and  *)
(* the removal, which broadcasts, to the removal of everyone, a fold of    *)
(* removals.  IsOpen(r, s) looks through to the sockets a turn has closed  *)
(* so far, so that Good says of the room in the middle of a turn what it   *)
(* will say of the one the turn leaves (AfterKeeps).                       *)
(*                                                                         *)
(* Shows is what PresenceMirrored needs to be inductive: it takes the      *)
(* presences a client has to be shown as a parameter, because halfway      *)
(* through a broadcast some clients have been told and others have not.    *)
(***************************************************************************)
EXTENDS RoomSessions, FoldProofs

News == UNION {[I -> 0 .. MaxPushes] : I \in SUBSET Socket}

Rooms ==
  [session : [Tab -> Session], heard : SUBSET Tab, strays : [Tab -> Nat],
   presence : [Socket -> 0 .. MaxPushes], known : [Socket -> [Socket -> 0 .. MaxPushes]],
   greeted : SUBSET Socket, pruneTimer : {"none", "set", "fired"}, closing : SUBSET Socket,
   cheated : SUBSET Socket, orphans : SUBSET Socket]

\* Sockets and presence ids are those of the session's own tab.
Owned(r) ==
  \A t \in Tab :
    LET p == r.session[t]
    IN  /\ p.state = "none" => p = NoSession
        /\ p.state # "none" => /\ p.socket \in Socket /\ owner[p.socket] = t
                               /\ p.presenceId \in Socket /\ owner[p.presenceId] = t

\* Only a connected session has a queue, and one with a queue has a timer.
Queues(r) ==
  \A t \in Tab :
    LET p == r.session[t]
    IN  /\ p.state # "connected" => ~p.debounce /\ ~p.queued
        /\ p.queued => p.debounce
        /\ ~p.queued => p.outstanding = NoNews

\* A session that waits for its removal has lost its socket, and one that waits for
\* its connect message has had no answer.
Phases(r) ==
  \A t \in Tab :
    LET p == r.session[t]
    IN  /\ p.state = "awaitingRemoval" => ~IsOpen(r, p.socket)
        /\ p.state = "awaitingConnect" => p.socket \notin r.greeted

Heard(r) == \A t \in Tab : r.session[t].state \in {"awaitingConnect", "connected"} => t \in r.heard

Belongs(r) ==
  \A i \in Socket \ r.orphans : r.presence[i] # 0 => \E t \in Tab : r.session[t].presenceId = i

Base(r) == r \in Rooms /\ Owned(r) /\ Queues(r) /\ Phases(r) /\ Heard(r)

\* What t's client was told of presence i, with what is queued for it.
Shown(r, t, i) ==
  LET p == r.session[t] IN IF i \in DOMAIN p.outstanding THEN p.outstanding[i] ELSE r.known[p.socket][i]

\* That it is shown these presences, if it has to be.
Shows(r, t, presence) ==
  LET p == r.session[t]
  IN  p.state = "connected" /\ IsOpen(r, p.socket) /\ p.socket \in r.greeted /\ p.socket \notin r.cheated
      => \A i \in Socket : Shown(r, t, i) = IF i = p.presenceId THEN 0 ELSE presence[i]

Mirrored(r) == \A t \in Tab : Shows(r, t, r.presence)

\* Every session that waits for its removal, but for those of W, has a prune coming.
Scheduled(r, W) ==
  \A t \in Tab \ W : r.session[t].state = "awaitingRemoval" => r.pruneTimer # "none"

Good(r) == Base(r) /\ Belongs(r) /\ Mirrored(r)

Message == [type : {"connect", "rubbish", "close"}] \cup [type : {"push"}, presence : 0 .. MaxPushes]

Sockets ==
  /\ sockets \in 0 .. MaxSockets /\ pushes \in 0 .. MaxPushes
  /\ owner \in [Socket -> Tab \cup {None}]
  /\ readyState \in [Socket -> {"unused", "open", "closing", "closed"}]
  /\ current \in [Tab -> Socket \cup {None}]
  /\ c2s \in [Socket -> Seq(Message)]
  /\ \A s \in Socket : s > sockets => owner[s] = None /\ c2s[s] = <<>> /\ readyState[s] = "unused"
  /\ \A s \in Socket : s <= sockets => owner[s] \in Tab
  /\ \A t \in Tab : current[t] # None => current[t] <= sockets

\* A turn that leaves the prune's timer fired has a throttled call to come.
RoomInv ==
  /\ throttle \in {"idle", "quiet", "pending"} /\ behind \in BOOLEAN
  /\ room.closing = {} /\ (\A s \in room.greeted : s <= sockets)
  /\ Good(room) /\ Scheduled(room, {})
  /\ room.pruneTimer = "fired" => throttle = "pending"

SessionInv == Sockets /\ RoomInv

-----------------------------------------------------------------------------
(* What a step leaves of a room.                                           *)

\* What becomes of a session when something is sent, or its socket is given up.
Fate(x, y, t) ==
  /\ y.session[t].socket = x.session[t].socket /\ y.session[t].presenceId = x.session[t].presenceId
  /\ \/ y.session[t].state = x.session[t].state
     \/ x.session[t].state # "none" /\ y.session[t].state = "awaitingRemoval" /\ y.pruneTimer # "none"

Sent(x, y) ==
  /\ y.presence = x.presence /\ y.heard = x.heard /\ y.strays = x.strays /\ y.greeted = x.greeted
  /\ y.cheated = x.cheated /\ y.orphans = x.orphans /\ x.closing \subseteq y.closing
  /\ y.pruneTimer = x.pruneTimer \/ (x.pruneTimer = "none" /\ y.pruneTimer = "set")
  /\ \A t \in Tab : Fate(x, y, t)

LEMMA NoneIsNoSocket == None \notin Socket /\ Socket \subseteq Nat
  BY SessionsAssumption DEF Socket

LEMMA NoNewsIs == NoNews \in News /\ DOMAIN NoNews = {} /\ NoSession \in Session
<1>1. {} \in SUBSET Socket /\ NoNews \in [{} -> 0 .. MaxPushes] /\ DOMAIN NoNews = {} BY DEF NoNews
<1>2. NoNews \in News BY <1>1 DEF News
<1>3. QED BY <1>1, <1>2 DEF NoSession, Session, News

LEMMA OverIs ==
  ASSUME NEW m \in News
  PROVE  /\ \A n \in News : Over(m, n) \in News
         /\ \A n \in [Socket -> 0 .. MaxPushes] : Over(m, n) \in [Socket -> 0 .. MaxPushes]
<1>1. PICK I \in SUBSET Socket : m \in [I -> 0 .. MaxPushes] BY DEF News
<1>2. ASSUME NEW n \in News PROVE Over(m, n) \in News
  <2>1. PICK J \in SUBSET Socket : n \in [J -> 0 .. MaxPushes] BY DEF News
  <2>2. Over(m, n) \in [I \cup J -> 0 .. MaxPushes] BY <1>1, <2>1 DEF Over
  <2>3. I \cup J \in SUBSET Socket OBVIOUS
  <2>4. QED BY <2>2, <2>3 DEF News
<1>3. ASSUME NEW n \in [Socket -> 0 .. MaxPushes] PROVE Over(m, n) \in [Socket -> 0 .. MaxPushes]
  BY <1>1 DEF Over
<1>4. QED BY <1>2, <1>3

LEMMA OverAt ==
  ASSUME NEW m, NEW n, NEW i
  PROVE  /\ i \in DOMAIN Over(m, n) <=> i \in DOMAIN m \/ i \in DOMAIN n
         /\ i \in DOMAIN m => Over(m, n)[i] = m[i]
         /\ i \in DOMAIN n /\ i \notin DOMAIN m => Over(m, n)[i] = n[i]
  BY DEF Over

LEMMA CancelKeeps ==
  ASSUME NEW x, Base(x), NEW t \in Tab
  PROVE  LET y == cancelSession(x, t)
         IN  /\ Base(y) /\ Sent(x, y)
             /\ y.session[t].state \in {"none", "awaitingRemoval"}
             /\ \A u \in Tab : \A presence : Shows(x, u, presence) => Shows(y, u, presence)
<1> DEFINE p == x.session[t]
           q == [NoSession EXCEPT !.state = "awaitingRemoval", !.socket = p.socket, !.presenceId = p.presenceId]
           y == cancelSession(x, t)
<1>1. CASE p.state \in {"none", "awaitingRemoval"}
  <2>1. y = x BY <1>1 DEF cancelSession
  <2>2. Sent(x, x) BY DEF Sent, Fate
  <2>3. QED BY <1>1, <2>1, <2>2
<1>2. CASE p.state \notin {"none", "awaitingRemoval"}
  <2>1. /\ x \in Rooms /\ p \in Session /\ p.socket \in Socket /\ p.presenceId \in Socket /\ owner[p.socket] = t
        /\ owner[p.presenceId] = t
    BY <1>2 DEF Base, Owned, Rooms
  <2>2. q \in Session /\ q.state = "awaitingRemoval" /\ q.socket = p.socket /\ q.presenceId = p.presenceId
        /\ ~q.debounce /\ ~q.queued /\ q.outstanding = NoNews
    BY <2>1, NoNewsIs DEF NoSession, Session, News
  <2>3. /\ y.session = [x.session EXCEPT ![t] = q] /\ y.closing = x.closing \cup {p.socket}
        /\ y.pruneTimer = IF x.pruneTimer = "none" THEN "set" ELSE x.pruneTimer
        /\ y.presence = x.presence /\ y.heard = x.heard /\ y.strays = x.strays /\ y.greeted = x.greeted
        /\ y.cheated = x.cheated /\ y.orphans = x.orphans /\ y.known = x.known
        /\ y \in Rooms
    BY <1>2, <2>1, <2>2 DEF cancelSession, scheduleFollowUpPrune, Rooms
  <2>4. \A u \in Tab : y.session[u] = IF u = t THEN q ELSE x.session[u]
    BY <2>1, <2>3 DEF Rooms
  <2> HIDE DEF q, y
  <2>5. Base(y)
    BY <2>1, <2>2, <2>3, <2>4 DEF Base, Owned, Queues, Phases, Heard, IsOpen
  <2>6. Sent(x, y)
    BY <1>2, <2>1, <2>2, <2>3, <2>4 DEF Sent, Fate
  <2>7. \A u \in Tab : \A presence : Shows(x, u, presence) => Shows(y, u, presence)
    BY <2>1, <2>2, <2>3, <2>4 DEF Shows, Shown, IsOpen
  <2>8. QED BY <2>2, <2>4, <2>5, <2>6, <2>7 DEF y
<1>3. QED BY <1>1, <1>2

LEMMA SentTransitive ==
  ASSUME NEW x, NEW y, NEW z, Sent(x, y), Sent(y, z)
  PROVE  Sent(x, z)
<1>1. \A t \in Tab : Fate(x, z, t)
  BY DEF Sent, Fate
<1>2. QED BY <1>1 DEF Sent

\* What a message says of the presences turns what a client has to be shown into
\* this; of its own it is told nothing, or that it is gone.
Turns(m, own, old, new) ==
  /\ m \in News
  /\ \A i \in Socket : i # own => new[i] = IF i \in DOMAIN m THEN m[i] ELSE old[i]
  /\ own \in DOMAIN m => m[own] = 0

LEMMA SendKeeps ==
  ASSUME NEW x, Base(x), NEW t \in Tab, NEW m \in News
  PROVE  LET y == sendData(x, t, m)
         IN  /\ Base(y) /\ Sent(x, y)
             /\ \A u \in Tab \ {t} : \A presence : Shows(x, u, presence) => Shows(y, u, presence)
             /\ \A old, new :
                  /\ Shows(x, t, old)
                  /\ x.session[t].state = "connected" => Turns(m, x.session[t].presenceId, old, new)
                  => Shows(y, t, new)
<1> DEFINE p == x.session[t]
           y == sendData(x, t, m)
<1>0. x \in Rooms /\ p \in Session /\ IsOpen(x, p.socket) \in BOOLEAN /\ p.debounce \in BOOLEAN /\ p.queued \in BOOLEAN
  BY DEF Base, Rooms, Session, IsOpen
<1>1. CASE p.state # "connected"
  <2>1. y = x BY <1>1 DEF sendData
  <2>2. Sent(x, x) BY DEF Sent, Fate
  <2>3. \A new : Shows(x, t, new) BY <1>1 DEF Shows
  <2>4. QED BY <2>1, <2>2, <2>3
<1>2. CASE p.state = "connected" /\ ~IsOpen(x, p.socket)
  <2>1. y = cancelSession(x, t) BY <1>2 DEF sendData
  <2>2. \A new : Shows(y, t, new) BY <2>1, CancelKeeps DEF Shows
  <2>3. QED BY <2>1, <2>2, CancelKeeps
<1>3. CASE p.state = "connected" /\ IsOpen(x, p.socket) /\ p.debounce
  <2> DEFINE q == [p EXCEPT !.queued = TRUE, !.outstanding = Over(m, @)]
  <2>1. p.outstanding \in News BY <1>0 DEF Session, News
  <2>2. q \in Session /\ q.state = p.state /\ q.socket = p.socket /\ q.presenceId = p.presenceId
        /\ q.debounce /\ q.queued /\ q.outstanding = Over(m, p.outstanding)
    BY <1>0, <1>3, <2>1, OverIs DEF Session, News
  <2>3. y = [x EXCEPT !.session[t] = q]
    BY <1>3 DEF sendData
  <2> DEFINE S == [x.session EXCEPT ![t] = q]
  <2>a. S \in [Tab -> Session] BY <1>0, <2>2 DEF Rooms
  <2>b. y = [x EXCEPT !.session = S] BY <2>3
  <2> HIDE DEF S, q
  <2>4. /\ y.session = S /\ y.closing = x.closing /\ y.pruneTimer = x.pruneTimer
        /\ y.presence = x.presence /\ y.heard = x.heard /\ y.strays = x.strays /\ y.greeted = x.greeted
        /\ y.cheated = x.cheated /\ y.orphans = x.orphans /\ y.known = x.known
        /\ y \in Rooms
    BY <1>0, <2>a, <2>b DEF Rooms
  <2>5. \A u \in Tab : y.session[u] = IF u = t THEN q ELSE x.session[u]
    BY <1>0, <2>4 DEF Rooms, S
  <2> HIDE DEF y
  <2>6. Base(y)
    BY <1>0, <1>3, <2>2, <2>4, <2>5 DEF Base, Owned, Queues, Phases, Heard, IsOpen
  <2>7. Sent(x, y)
    BY <2>2, <2>4, <2>5 DEF Sent, Fate
  <2>8. \A u \in Tab \ {t} : \A presence : Shows(x, u, presence) => Shows(y, u, presence)
    BY <2>4, <2>5 DEF Shows, Shown, IsOpen
  <2>9. ASSUME NEW old, NEW new, Shows(x, t, old), Turns(m, p.presenceId, old, new) PROVE Shows(y, t, new)
    <3>1. \A i \in Socket : Shown(y, t, i) = IF i \in DOMAIN m THEN m[i] ELSE Shown(x, t, i)
      BY <2>2, <2>4, <2>5, OverAt DEF Shown
    <3>2. QED BY <2>2, <2>4, <2>5, <2>9, <3>1 DEF Shows, IsOpen, Turns
  <2>10. QED BY <1>3, <2>6, <2>7, <2>8, <2>9 DEF y
<1>4. CASE p.state = "connected" /\ IsOpen(x, p.socket) /\ ~p.debounce
  <2> DEFINE q == [p EXCEPT !.debounce = TRUE]
             k == Over(m, x.known[p.socket])
  <2>1. p.outstanding = NoNews /\ ~p.queued /\ p.socket \in Socket /\ owner[p.socket] = t
    BY <1>4 DEF Base, Queues, Owned
  <2>2. q \in Session /\ q.state = p.state /\ q.socket = p.socket /\ q.presenceId = p.presenceId
        /\ q.debounce /\ ~q.queued /\ q.outstanding = NoNews
    BY <1>0, <1>4, <2>1 DEF Session
  <2>3. k \in [Socket -> 0 .. MaxPushes]
    BY <1>0, <2>1, OverIs DEF Rooms
  <2>4. y = [x EXCEPT !.session[t] = q, !.known[p.socket] = k]
    BY <1>4 DEF sendData
  <2> DEFINE S == [x.session EXCEPT ![t] = q]
             K == [x.known EXCEPT ![p.socket] = k]
  <2> HIDE DEF q, k
  <2>a. S \in [Tab -> Session] /\ K \in [Socket -> [Socket -> 0 .. MaxPushes]]
    BY <1>0, <2>1, <2>2, <2>3 DEF Rooms
  <2>b. y = [x EXCEPT !.session = S, !.known = K] BY <2>4
  <2> HIDE DEF S, K
  <2>5. /\ y.session = S /\ y.closing = x.closing /\ y.pruneTimer = x.pruneTimer
        /\ y.presence = x.presence /\ y.heard = x.heard /\ y.strays = x.strays /\ y.greeted = x.greeted
        /\ y.cheated = x.cheated /\ y.orphans = x.orphans /\ y.known = K
        /\ y \in Rooms
    BY <1>0, <2>a, <2>b DEF Rooms
  <2>6. /\ \A u \in Tab : y.session[u] = IF u = t THEN q ELSE x.session[u]
        /\ \A s \in Socket : y.known[s] = IF s = p.socket THEN k ELSE x.known[s]
    BY <1>0, <2>1, <2>5 DEF Rooms, S, K
  <2> HIDE DEF y
  <2>7. Base(y)
    BY <1>0, <1>4, <2>2, <2>5, <2>6 DEF Base, Owned, Queues, Phases, Heard, IsOpen
  <2>8. Sent(x, y)
    BY <2>2, <2>5, <2>6 DEF Sent, Fate
  <2>9. ASSUME NEW u \in Tab \ {t}, NEW presence, Shows(x, u, presence) PROVE Shows(y, u, presence)
    <3>1. CASE x.session[u].state # "connected" BY <2>6, <3>1 DEF Shows
    <3>2. CASE x.session[u].state = "connected"
      <4>1. x.session[u].socket \in Socket /\ x.session[u].socket # p.socket
        BY <2>1, <3>2 DEF Base, Owned
      <4>2. QED BY <2>5, <2>6, <2>9, <4>1 DEF Shows, Shown, IsOpen
    <3>3. QED BY <3>1, <3>2
  <2>10. ASSUME NEW old, NEW new, Shows(x, t, old), Turns(m, p.presenceId, old, new) PROVE Shows(y, t, new)
    <3>1. \A i \in Socket : Shown(y, t, i) = IF i \in DOMAIN m THEN m[i] ELSE Shown(x, t, i)
      <4>1. x.known[p.socket] \in [Socket -> 0 .. MaxPushes] BY <1>0, <2>1 DEF Rooms
      <4>2. QED BY <4>1, <2>1, <2>2, <2>5, <2>6, NoNewsIs, OverAt DEF Shown, k
    <3>2. QED BY <2>2, <2>5, <2>6, <2>10, <3>1 DEF Shows, IsOpen, Turns
  <2>11. QED BY <1>4, <2>7, <2>8, <2>9, <2>10 DEF y
<1>5. QED BY <1>0, <1>1, <1>2, <1>3, <1>4

-----------------------------------------------------------------------------
(* A broadcast.                                                            *)

\* Whatever a message to one more tab keeps is so of a broadcast: R holds of every
\* room on the way, K of one in which the tabs of a set have been told.
LEMMA BroadcastInduction ==
  ASSUME NEW R, NEW r \in R, NEW m, NEW except, NEW K, <<{}, r>> \in K,
         \A x \in R, t \in Tab : sendData(x, t, m) \in R,
         \A s \in SUBSET (Tab \ except), t \in Tab \ except, x \in R :
           t \notin s /\ <<s, x>> \in K => <<s \cup {t}, sendData(x, t, m)>> \in K
  PROVE  broadcastPatch(r, m, except) \in R /\ <<Tab \ except, broadcastPatch(r, m, except)>> \in K
<1> DEFINE S == Tab \ except
           any(s) == CHOOSE x \in s : TRUE
           F(g) == g = [s \in SUBSET S |-> IF s = {} THEN r ELSE sendData(g[s \ {any(s)}], any(s), m)]
           step == [t \in S |-> [x \in R |-> sendData(x, t, m)]]
           pick == [s \in SUBSET S |-> any(s)]
           fold == CHOOSE g : F(g)
           G == {s \in SUBSET S : fold[s] \in R /\ <<s, fold[s]>> \in K}
<1>1. IsFiniteSet(S) BY SessionsAssumption, FS_Difference
<1>2. \A s \in SUBSET S : s # {} => any(s) \in s OBVIOUS
<1>3. step \in [S -> [R -> R]] OBVIOUS
<1>4. Picks(pick, S) BY <1>2 DEF Picks
<1>5. PICK it \in [SUBSET S -> R] : Folds(it, S, r, step, pick)
  <2> HIDE DEF S, step, pick
  <2>1. QED BY <1>1, <1>3, <1>4, FoldDefined
<1>6. \A s \in SUBSET S : it[s] = IF s = {} THEN r ELSE sendData(it[s \ {any(s)}], any(s), m)
  BY <1>2, <1>5 DEF Folds
<1>7. F(it) BY <1>6
<1>8. broadcastPatch(r, m, except) = fold[S]
  BY DEF broadcastPatch, FoldSet, MapThenFoldSet
<1>9. \A s \in SUBSET S : fold[s] = IF s = {} THEN r ELSE sendData(fold[s \ {any(s)}], any(s), m)
  <2>1. F(fold)
    <3> HIDE DEF F
    <3>1. QED BY <1>7
  <2> HIDE DEF fold, any
  <2>2. QED BY <2>1
<1> HIDE DEF fold
<1>10. {} \in G BY <1>9
<1>11. ASSUME NEW s \in SUBSET S, s # {}, \A x \in s : s \ {x} \in G PROVE s \in G
  <2>1. any(s) \in s /\ any(s) \in Tab \ except BY <1>2, <1>11
  <2>2. fold[s] = sendData(fold[s \ {any(s)}], any(s), m) BY <1>9, <1>11
  <2> DEFINE t == any(s)
             x == fold[s \ {any(s)}]
  <2>3. x \in R /\ <<s \ {t}, x>> \in K /\ s \ {t} \in SUBSET (Tab \ except) /\ t \notin s \ {t} BY <1>11, <2>1
  <2>4. fold[s] = sendData(x, t, m) /\ t \in Tab \ except BY <2>1, <2>2
  <2> HIDE DEF x, t
  <2>5. (s \ {t}) \cup {t} = s BY <2>1 DEF t
  <2>6. fold[s] \in R BY <2>3, <2>4
  <2>7. <<(s \ {t}) \cup {t}, sendData(x, t, m)>> \in K BY <2>3, <2>4
  <2>8. QED BY <2>4, <2>5, <2>6, <2>7
<1>12. S \in G
  <2> HIDE DEF G, S
  <2>1. QED BY <1>1, <1>10, <1>11, SubsetInduction
<1>13. QED BY <1>8, <1>12

LEMMA BroadcastKeeps ==
  ASSUME NEW r, Base(r), NEW m \in News, NEW except, NEW old, NEW new,
         \A t \in Tab : Shows(r, t, old),
         \A t \in Tab \ except : r.session[t].state = "connected" => Turns(m, r.session[t].presenceId, old, new)
  PROVE  LET y == broadcastPatch(r, m, except)
         IN  /\ Base(y) /\ Sent(r, y)
             /\ \A t \in Tab \ except : Shows(y, t, new)
             /\ \A t \in Tab \cap except : Shows(y, t, old)
<1> DEFINE R == {x \in Rooms : Base(x)}
           K == {p \in (SUBSET Tab) \X R :
                   /\ Sent(r, p[2])
                   /\ \A t \in p[1] : Shows(p[2], t, new)
                   /\ \A t \in Tab \ p[1] : Shows(p[2], t, old)}
           y == broadcastPatch(r, m, except)
<1>1. r \in R BY DEF Base
<1>2. \A x \in R, t \in Tab : sendData(x, t, m) \in R
  <2>1. \A x \in R, t \in Tab : Base(sendData(x, t, m)) BY SendKeeps
  <2>2. QED BY <2>1 DEF Base
<1>3. <<{}, r>> \in K
  <2>1. Sent(r, r) BY DEF Sent, Fate
  <2>2. QED BY <1>1, <2>1
<1>4. ASSUME NEW s \in SUBSET (Tab \ except), NEW t \in Tab \ except, NEW x \in R, t \notin s, <<s, x>> \in K
      PROVE  <<s \cup {t}, sendData(x, t, m)>> \in K
  <2> DEFINE z == sendData(x, t, m)
  <2>1. /\ Base(x) /\ Sent(r, x)
        /\ \A u \in s : Shows(x, u, new)
        /\ \A u \in Tab \ s : Shows(x, u, old)
    BY <1>4
  <2>2. x.session[t].state = "connected" => Turns(m, x.session[t].presenceId, old, new)
    BY <2>1 DEF Sent, Fate
  <2>3. /\ Base(z) /\ Sent(x, z) /\ Shows(z, t, new)
        /\ \A u \in Tab \ {t} : \A presence : Shows(x, u, presence) => Shows(z, u, presence)
    BY <1>4, <2>1, <2>2, SendKeeps
  <2> HIDE DEF z
  <2>4. Sent(r, z) BY <2>1, <2>3, SentTransitive
  <2>5. \A u \in s \cup {t} : Shows(z, u, new) BY <2>1, <2>3
  <2>6. \A u \in Tab \ (s \cup {t}) : Shows(z, u, old) BY <2>1, <2>3
  <2>7. z \in R BY <2>3 DEF Base
  <2>8. <<s \cup {t}, z>> \in K BY <2>4, <2>5, <2>6, <2>7
  <2>9. QED BY <2>8 DEF z
<1>5. y \in R /\ <<Tab \ except, y>> \in K
  <2> HIDE DEF R, K
  <2>1. QED BY <1>1, <1>2, <1>3, <1>4, BroadcastInduction
<1>6. QED BY <1>5

-----------------------------------------------------------------------------
(* A removal.                                                              *)

\* The sessions of the tabs of T are gone and their sockets closed; the others were
\* at most told so.
Removed(x, y, T) ==
  /\ y.strays = x.strays /\ y.greeted = x.greeted /\ y.cheated = x.cheated /\ y.orphans = x.orphans
  /\ x.closing \subseteq y.closing
  /\ y.pruneTimer = x.pruneTimer \/ (x.pruneTimer = "none" /\ y.pruneTimer = "set")
  /\ \A t \in Tab : Fate(x, y, t) \/ (t \in T /\ y.session[t] = NoSession)
  /\ \A t \in Tab \cap T : y.session[t] = NoSession
                           /\ (x.session[t].state # "none" => x.session[t].socket \in y.closing)

LEMMA AboutIs ==
  ASSUME NEW i \in Socket, NEW v \in 0 .. MaxPushes
  PROVE  About(i, v) \in News /\ DOMAIN About(i, v) = {i} /\ About(i, v)[i] = v
<1>1. About(i, v) \in [{i} -> 0 .. MaxPushes] /\ {i} \in SUBSET Socket /\ DOMAIN About(i, v) = {i} /\ About(i, v)[i] = v
  BY DEF About
<1>2. QED BY <1>1 DEF News

LEMMA RemoveKeeps ==
  ASSUME NEW x, Good(x), NEW t \in Tab
  PROVE  LET y == removeSession(x, t) IN Good(y) /\ Removed(x, y, {t})
<1> DEFINE p == x.session[t]
           S == [x.session EXCEPT ![t] = NoSession]
           gone == [x EXCEPT !.session = S, !.closing = @ \cup {p.socket}, !.heard = @ \ {t}]
           i == p.presenceId
           P == [x.presence EXCEPT ![i] = 0]
           z == [gone EXCEPT !.presence = P]
           y == removeSession(x, t)
<1>1. CASE p.state = "none"
  <2>1. y = x BY <1>1 DEF removeSession
  <2>2. p = NoSession BY <1>1 DEF Good, Base, Owned
  <2>3. Removed(x, x, {t}) BY <1>1, <2>2 DEF Removed, Fate
  <2>4. QED BY <2>1, <2>3
<1>2. CASE p.state # "none"
  <2>1. /\ x \in Rooms /\ p.socket \in Socket /\ i \in Socket /\ owner[p.socket] = t /\ owner[i] = t
    BY <1>2 DEF Good, Base, Owned
  <2>2. S \in [Tab -> Session] /\ (\A u \in Tab : S[u] = IF u = t THEN NoSession ELSE x.session[u])
    BY <2>1, NoNewsIs DEF Rooms
  <2>3. P \in [Socket -> 0 .. MaxPushes] /\ (\A j \in Socket : P[j] = IF j = i THEN 0 ELSE x.presence[j])
    BY <2>1, SessionsAssumption DEF Rooms
  <2>4. NoSession.state = "none" /\ NoSession.socket = None /\ NoSession.presenceId = None
        /\ ~NoSession.debounce /\ ~NoSession.queued /\ NoSession.outstanding = NoNews
    BY DEF NoSession
  <2>5. y = IF x.presence[i] = 0 THEN gone ELSE broadcastPatch(z, About(i, 0), {})
    BY <1>2 DEF removeSession
  <2> HIDE DEF S, P
  <2>6. /\ gone.session = S /\ gone.closing = x.closing \cup {p.socket} /\ gone.pruneTimer = x.pruneTimer
        /\ gone.presence = x.presence /\ gone.heard = x.heard \ {t} /\ gone.strays = x.strays
        /\ gone.greeted = x.greeted /\ gone.cheated = x.cheated /\ gone.orphans = x.orphans
        /\ gone.known = x.known /\ gone \in Rooms
    BY <2>1, <2>2 DEF Rooms
  <2>7. /\ z.session = S /\ z.closing = x.closing \cup {p.socket} /\ z.pruneTimer = x.pruneTimer
        /\ z.presence = P /\ z.heard = x.heard \ {t} /\ z.strays = x.strays /\ z.greeted = x.greeted
        /\ z.cheated = x.cheated /\ z.orphans = x.orphans /\ z.known = x.known
        /\ z \in Rooms
    BY <2>1, <2>2, <2>3 DEF Rooms
  <2> HIDE DEF gone, z, p, i
  <2>8. Base(gone) /\ Base(z)
    <3>1. Owned(gone) /\ Owned(z) BY <2>2, <2>4, <2>6, <2>7 DEF Good, Base, Owned
    <3>2. Queues(gone) /\ Queues(z) BY <2>2, <2>4, <2>6, <2>7 DEF Good, Base, Queues
    <3>3. Phases(gone) /\ Phases(z) BY <2>2, <2>4, <2>6, <2>7 DEF Good, Base, Phases, IsOpen
    <3>4. Heard(gone) /\ Heard(z) BY <2>2, <2>4, <2>6, <2>7 DEF Good, Base, Heard
    <3>5. QED BY <2>6, <2>7, <3>1, <3>2, <3>3, <3>4 DEF Base
  <2>9. Removed(x, gone, {t}) /\ Removed(x, z, {t})
    BY <2>2, <2>4, <2>6, <2>7 DEF Removed, Fate, p
  <2>10. \A u \in Tab : Shows(gone, u, x.presence) /\ Shows(z, u, x.presence)
    BY <2>2, <2>4, <2>6, <2>7 DEF Good, Mirrored, Shows, Shown, IsOpen
  <2>11. ASSUME NEW j \in Socket, j \notin x.orphans, x.presence[j] # 0, j # i
         PROVE  \E u \in Tab : S[u].presenceId = j
    <3>1. PICK u \in Tab : x.session[u].presenceId = j BY <2>11 DEF Good, Belongs
    <3>2. u # t BY <2>11, <3>1 DEF i, p
    <3>3. QED BY <2>2, <3>1, <3>2
  <2>12. CASE x.presence[i] = 0
    <3>1. y = gone BY <2>5, <2>12
    <3>2. Belongs(gone) BY <2>6, <2>11, <2>12 DEF Belongs
    <3>3. Mirrored(gone) BY <2>6, <2>10 DEF Mirrored
    <3>4. QED BY <2>8, <2>9, <3>1, <3>2, <3>3 DEF Good
  <2>13. CASE x.presence[i] # 0
    <3>1. y = broadcastPatch(z, About(i, 0), {}) BY <2>5, <2>13
    <3>2. About(i, 0) \in News /\ DOMAIN About(i, 0) = {i} /\ About(i, 0)[i] = 0
      <4>1. 0 \in 0 .. MaxPushes BY SessionsAssumption
      <4>2. QED BY <2>1, <4>1, AboutIs
    <3>3. \A own : Turns(About(i, 0), own, x.presence, P)
      BY <2>3, <3>2 DEF Turns
    <3> HIDE DEF y
    <3>4. Base(y) /\ Sent(z, y) /\ (\A u \in Tab : Shows(y, u, P))
      BY <2>8, <2>10, <3>1, <3>2, <3>3, BroadcastKeeps
    <3>5. Belongs(y)
      <4>1. \A u \in Tab : y.session[u].presenceId = S[u].presenceId
        BY <2>7, <3>4 DEF Sent, Fate
      <4>2. y.presence = P /\ y.orphans = x.orphans BY <2>7, <3>4 DEF Sent
      <4>3. QED BY <2>3, <2>11, <4>1, <4>2 DEF Belongs
    <3>6. Mirrored(y) BY <2>7, <3>4 DEF Mirrored, Sent
    <3>7. y.session[t] = NoSession
      <4>1. z.session[t] = NoSession BY <2>2, <2>7
      <4>2. y.session[t].state = "none" BY <2>4, <3>4, <4>1 DEF Sent, Fate
      <4>3. QED BY <3>4, <4>2 DEF Base, Owned
    <3>8. Removed(x, y, {t})
      <4>1. ASSUME NEW u \in Tab, u # t PROVE Fate(x, y, u)
        BY <2>2, <2>7, <3>4, <4>1 DEF Sent, Fate
      <4>2. QED BY <2>7, <3>4, <3>7, <4>1 DEF Removed, Sent, p
    <3>9. QED BY <3>4, <3>5, <3>6, <3>8 DEF Good, y
  <2>14. QED BY <2>12, <2>13
<1>3. QED BY <1>1, <1>2

LEMMA RemovedTransitive ==
  ASSUME NEW x, NEW y, NEW z, Base(y), Base(z), NEW T \in SUBSET Tab, NEW U \in SUBSET Tab,
         Removed(x, y, T), Removed(y, z, U)
  PROVE  Removed(x, z, T \cup U)
<1>0. /\ \A t \in Tab : z.session[t].state = "none" => z.session[t] = NoSession
      /\ NoSession.state = "none"
  BY DEF Base, Owned, NoSession
<1>1. /\ z.strays = x.strays /\ z.greeted = x.greeted /\ z.cheated = x.cheated /\ z.orphans = x.orphans
      /\ x.closing \subseteq z.closing
      /\ z.pruneTimer = x.pruneTimer \/ (x.pruneTimer = "none" /\ z.pruneTimer = "set")
      /\ y.closing \subseteq z.closing /\ (y.pruneTimer # "none" => z.pruneTimer # "none")
  BY DEF Removed
<1>2. \A t \in Tab : /\ Fate(x, y, t) \/ (t \in T /\ y.session[t] = NoSession)
                     /\ Fate(y, z, t) \/ (t \in U /\ z.session[t] = NoSession)
  BY DEF Removed
<1>3. ASSUME NEW t \in Tab PROVE Fate(x, z, t) \/ (t \in T \cup U /\ z.session[t] = NoSession)
  <2>1. CASE Fate(x, y, t) /\ Fate(y, z, t) BY <1>1, <2>1 DEF Fate
  <2>2. CASE t \in T /\ y.session[t] = NoSession /\ Fate(y, z, t)
    BY <1>0, <2>2 DEF Fate
  <2>3. QED BY <1>2, <2>1, <2>2
<1>4. ASSUME NEW t \in Tab, t \in T \cup U
      PROVE  z.session[t] = NoSession /\ (x.session[t].state # "none" => x.session[t].socket \in z.closing)
  <2>1. CASE t \in T
    <3>1. y.session[t] = NoSession /\ (x.session[t].state # "none" => x.session[t].socket \in y.closing)
      BY <2>1 DEF Removed
    <3>2. z.session[t] = NoSession BY <1>0, <1>2, <3>1 DEF Fate
    <3>3. QED BY <1>1, <3>1, <3>2
  <2>2. CASE t \notin T
    <3>1. Fate(x, y, t) BY <1>2, <2>2
    <3>2. z.session[t] = NoSession /\ (y.session[t].state # "none" => y.session[t].socket \in z.closing)
      BY <1>4, <2>2 DEF Removed
    <3>3. QED BY <3>1, <3>2 DEF Fate
  <2>3. QED BY <2>1, <2>2
<1>5. QED BY <1>1, <1>3, <1>4 DEF Removed

\* The same of the removal of everyone.
LEMMA RemovalInduction ==
  ASSUME NEW R, NEW r \in R, NEW K, <<{}, r>> \in K,
         \A x \in R, t \in Tab : removeSession(x, t) \in R,
         \A s \in SUBSET Tab, t \in Tab, x \in R :
           t \notin s /\ <<s, x>> \in K => <<s \cup {t}, removeSession(x, t)>> \in K
  PROVE  forceAllReconnect(r) \in R /\ <<Tab, forceAllReconnect(r)>> \in K
<1> DEFINE any(s) == CHOOSE x \in s : TRUE
           F(g) == g = [s \in SUBSET Tab |-> IF s = {} THEN r ELSE removeSession(g[s \ {any(s)}], any(s))]
           step == [t \in Tab |-> [x \in R |-> removeSession(x, t)]]
           pick == [s \in SUBSET Tab |-> any(s)]
           fold == CHOOSE g : F(g)
           G == {s \in SUBSET Tab : fold[s] \in R /\ <<s, fold[s]>> \in K}
<1>1. IsFiniteSet(Tab) BY SessionsAssumption
<1>2. \A s \in SUBSET Tab : s # {} => any(s) \in s OBVIOUS
<1>3. step \in [Tab -> [R -> R]] OBVIOUS
<1>4. Picks(pick, Tab) BY <1>2 DEF Picks
<1>5. PICK it \in [SUBSET Tab -> R] : Folds(it, Tab, r, step, pick)
  <2> HIDE DEF step, pick
  <2>1. QED BY <1>1, <1>3, <1>4, FoldDefined
<1>6. \A s \in SUBSET Tab : it[s] = IF s = {} THEN r ELSE removeSession(it[s \ {any(s)}], any(s))
  BY <1>2, <1>5 DEF Folds
<1>7. F(it) BY <1>6
<1>8. forceAllReconnect(r) = fold[Tab]
  BY DEF forceAllReconnect, FoldSet, MapThenFoldSet
<1>9. \A s \in SUBSET Tab : fold[s] = IF s = {} THEN r ELSE removeSession(fold[s \ {any(s)}], any(s))
  <2>1. F(fold)
    <3> HIDE DEF F
    <3>1. QED BY <1>7
  <2> HIDE DEF fold, any
  <2>2. QED BY <2>1
<1> HIDE DEF fold
<1>10. {} \in G BY <1>9
<1>11. ASSUME NEW s \in SUBSET Tab, s # {}, \A x \in s : s \ {x} \in G PROVE s \in G
  <2>1. any(s) \in s /\ any(s) \in Tab BY <1>2, <1>11
  <2>2. fold[s] = removeSession(fold[s \ {any(s)}], any(s)) BY <1>9, <1>11
  <2> DEFINE t == any(s)
             x == fold[s \ {any(s)}]
  <2>3. x \in R /\ <<s \ {t}, x>> \in K /\ s \ {t} \in SUBSET Tab /\ t \notin s \ {t} BY <1>11, <2>1
  <2>4. fold[s] = removeSession(x, t) /\ t \in Tab BY <2>1, <2>2
  <2> HIDE DEF x, t
  <2>5. (s \ {t}) \cup {t} = s BY <2>1 DEF t
  <2>6. fold[s] \in R BY <2>3, <2>4
  <2>7. <<(s \ {t}) \cup {t}, removeSession(x, t)>> \in K BY <2>3, <2>4
  <2>8. QED BY <2>4, <2>5, <2>6, <2>7
<1>12. Tab \in G
  <2> HIDE DEF G
  <2>1. QED BY <1>1, <1>10, <1>11, SubsetInduction
<1>13. QED BY <1>8, <1>12

\* broadcastChanges leaves the room alone or throws everyone out.
LEMMA ChangesKeep ==
  ASSUME NEW r, Good(r)
  PROVE  LET y == broadcastChanges(r) IN Good(y) /\ (y = r \/ Removed(r, y, Tab))
<1> DEFINE R == {x \in Rooms : Good(x)}
           K == {p \in (SUBSET Tab) \X R : Removed(r, p[2], p[1])}
           y == forceAllReconnect(r)
<1>1. r \in R BY DEF Good, Base
<1>2. \A x \in R, t \in Tab : removeSession(x, t) \in R
  <2>1. \A x \in R, t \in Tab : Good(removeSession(x, t)) BY RemoveKeeps
  <2>2. QED BY <2>1 DEF Good, Base
<1>3. <<{}, r>> \in K
  <2>1. Removed(r, r, {}) BY DEF Removed, Fate
  <2>2. QED BY <1>1, <2>1
<1>4. ASSUME NEW s \in SUBSET Tab, NEW t \in Tab, NEW x \in R, t \notin s, <<s, x>> \in K
      PROVE  <<s \cup {t}, removeSession(x, t)>> \in K
  <2> DEFINE z == removeSession(x, t)
  <2>1. Good(x) /\ Removed(r, x, s) BY <1>4
  <2>2. Good(z) /\ Removed(x, z, {t}) BY <2>1, RemoveKeeps
  <2> HIDE DEF z
  <2>3. Removed(r, z, s \cup {t}) BY <2>1, <2>2, RemovedTransitive DEF Good
  <2>4. z \in R BY <2>2 DEF Good, Base
  <2>5. <<s \cup {t}, z>> \in K BY <2>3, <2>4
  <2>6. QED BY <2>5 DEF z
<1>5. y \in R /\ <<Tab, y>> \in K
  <2> HIDE DEF R, K
  <2>1. QED BY <1>1, <1>2, <1>3, <1>4, RemovalInduction
<1>6. Good(y) /\ Removed(r, y, Tab) BY <1>5
<1>7. QED BY <1>6 DEF broadcastChanges

-----------------------------------------------------------------------------
(* The handlers.                                                           *)

\* What a turn keeps apart from Good; new: the sockets it may have greeted.
Kept(x, y, new) ==
  /\ y.greeted \subseteq x.greeted \cup new
  /\ y.pruneTimer = x.pruneTimer \/ (x.pruneTimer = "none" /\ y.pruneTimer = "set")
  /\ Scheduled(x, {}) => Scheduled(y, {})

LEMMA KeptThrough ==
  ASSUME NEW x, NEW y, NEW new
  PROVE  /\ Kept(x, x, new)
         /\ Sent(x, y) => Kept(x, y, new)
         /\ \A T \in SUBSET Tab : Removed(x, y, T) => Kept(x, y, new)
         /\ \A z : Kept(x, y, new) /\ Kept(y, z, new) => Kept(x, z, new)
<1>1. Kept(x, x, new) BY DEF Kept
<1>2. Sent(x, y) => Kept(x, y, new) BY DEF Kept, Sent, Fate, Scheduled
<1>3. ASSUME NEW T \in SUBSET Tab, Removed(x, y, T) PROVE Kept(x, y, new)
  BY <1>3 DEF Kept, Removed, Fate, Scheduled, NoSession
<1>4. \A z : Kept(x, y, new) /\ Kept(y, z, new) => Kept(x, z, new) BY DEF Kept
<1>5. QED BY <1>1, <1>2, <1>3, <1>4

LEMMA ConnectedKeeps ==
  ASSUME NEW r0, Good(r0), NEW t \in Tab, r0.session[t].state # "none", t \in r0.heard, NEW s \in Socket
  PROVE  LET y == connected(r0, t, s) IN Good(y) /\ Kept(r0, y, {s})
<1> DEFINE p == r0.session[t]
           r == broadcastChanges(r0)
           c == [NoSession EXCEPT !.state = "connected", !.socket = p.socket, !.presenceId = p.presenceId]
           n == IF r.session[t].debounce THEN r.strays[t] + 1 ELSE r.strays[t]
           S == [r.session EXCEPT ![t] = c]
           N == [r.strays EXCEPT ![t] = n]
           x == [r EXCEPT !.session = S, !.strays = N]
           y == connected(r0, t, s)
<1>1. /\ p \in Session /\ p.socket \in Socket /\ p.presenceId \in Socket /\ owner[p.socket] = t
      /\ owner[p.presenceId] = t
  BY DEF Good, Base, Owned, Rooms
<1>2. Good(r) /\ r \in Rooms /\ (r = r0 \/ Removed(r0, r, Tab)) BY ChangesKeep DEF Good, Base
<1>3. c \in Session /\ c.state = "connected" /\ c.socket = p.socket /\ c.presenceId = p.presenceId
      /\ ~c.debounce /\ ~c.queued /\ c.outstanding = NoNews
  BY <1>1, NoNewsIs DEF Session, NoSession
<1>4. y = IF ~IsOpen(x, p.socket) THEN cancelSession(x, t)
          ELSE IF s = p.socket
          THEN [x EXCEPT !.known[s] = [r.presence EXCEPT ![p.presenceId] = 0], !.greeted = @ \cup {s}]
          ELSE [x EXCEPT !.cheated = IF r.session[t].queued THEN @ \cup {p.socket} ELSE @]
  BY DEF connected
<1>5. n \in Nat
  BY <1>2 DEF Rooms
<1> HIDE DEF n, r, c, y
<1>6. S \in [Tab -> Session] /\ N \in [Tab -> Nat] /\ \A u \in Tab : S[u] = IF u = t THEN c ELSE r.session[u]
  BY <1>2, <1>3, <1>5 DEF Rooms
<1> HIDE DEF S, N
<1>7. /\ x.session = S /\ x.strays = N /\ x.closing = r.closing /\ x.pruneTimer = r.pruneTimer
      /\ x.presence = r.presence /\ x.heard = r.heard /\ x.greeted = r.greeted /\ x.known = r.known
      /\ x.cheated = r.cheated /\ x.orphans = r.orphans /\ x \in Rooms
  BY <1>2, <1>6 DEF Rooms
<1> HIDE DEF x, p
<1>8. Kept(r0, r, {s}) BY <1>2, KeptThrough
<1>9. Owned(x) /\ Queues(x) /\ Phases(x)
  <2>1. Owned(x) BY <1>1, <1>2, <1>3, <1>6, <1>7 DEF Good, Base, Owned
  <2>2. Queues(x) BY <1>2, <1>3, <1>6, <1>7 DEF Good, Base, Queues
  <2>3. Phases(x) BY <1>2, <1>3, <1>6, <1>7 DEF Good, Base, Phases, IsOpen
  <2>4. QED BY <2>1, <2>2, <2>3
<1>10. Belongs(x)
  <2>1. ASSUME NEW u \in Tab, NEW i \in Socket, r.session[u].presenceId = i PROVE \E w \in Tab : S[w].presenceId = i
    <3>1. CASE u # t BY <1>6, <2>1, <3>1
    <3>2. CASE u = t /\ r = r0 BY <1>3, <1>6, <2>1, <3>2 DEF p
    <3>3. CASE u = t /\ Removed(r0, r, Tab)
      <4>1. r.session[t].presenceId = None BY <3>3 DEF Removed, NoSession
      <4>2. QED BY <2>1, <3>3, <4>1, NoneIsNoSocket
    <3>4. QED BY <1>2, <3>1, <3>2, <3>3
  <2>2. QED BY <1>2, <1>7, <2>1 DEF Good, Belongs
<1>11. CASE ~IsOpen(x, p.socket)
  <2> DEFINE q == [NoSession EXCEPT !.state = "awaitingRemoval", !.socket = p.socket, !.presenceId = p.presenceId]
             Q == [S EXCEPT ![t] = q]
  <2>1. q \in Session /\ q.state = "awaitingRemoval" /\ q.socket = p.socket /\ q.presenceId = p.presenceId
        /\ ~q.debounce /\ ~q.queued /\ q.outstanding = NoNews
    BY <1>1, NoNewsIs DEF Session, NoSession
  <2>2. x.session[t] = c BY <1>6, <1>7
  <2> HIDE DEF q
  <2>3. Q \in [Tab -> Session] /\ \A u \in Tab : Q[u] = IF u = t THEN q ELSE x.session[u]
    BY <1>6, <1>7, <2>1
  <2>4. cancelSession(x, t) = scheduleFollowUpPrune([x EXCEPT !.session = Q, !.closing = @ \cup {p.socket}])
    BY <1>3, <1>7, <2>2 DEF cancelSession, q
  <2>5. y = scheduleFollowUpPrune([x EXCEPT !.session = Q, !.closing = @ \cup {p.socket}])
    BY <1>4, <1>11, <2>4
  <2> HIDE DEF Q
  <2>6. /\ y.session = Q /\ y.closing = x.closing \cup {p.socket}
        /\ y.pruneTimer = IF x.pruneTimer = "none" THEN "set" ELSE x.pruneTimer
        /\ y.presence = x.presence /\ y.heard = x.heard /\ y.strays = x.strays /\ y.greeted = x.greeted
        /\ y.cheated = x.cheated /\ y.orphans = x.orphans /\ y.known = x.known
        /\ y \in Rooms
    BY <1>1, <1>7, <2>3, <2>5 DEF scheduleFollowUpPrune, Rooms
  <2>7. Base(y)
    <3>1. Owned(y) BY <1>1, <1>9, <2>1, <2>3, <2>6 DEF Owned
    <3>2. Queues(y) BY <1>9, <2>1, <2>3, <2>6 DEF Queues
    <3>3. Phases(y) BY <1>9, <2>1, <2>3, <2>6 DEF Phases, IsOpen
    <3>4. Heard(y) BY <1>2, <1>6, <1>7, <2>1, <2>3, <2>6 DEF Good, Base, Heard
    <3>5. QED BY <2>6, <3>1, <3>2, <3>3, <3>4 DEF Base
  <2>8. Belongs(y)
    <3>1. \A u \in Tab : y.session[u].presenceId = x.session[u].presenceId BY <1>3, <2>1, <2>2, <2>3, <2>6
    <3>2. QED BY <1>10, <2>6, <3>1 DEF Belongs
  <2>9. Mirrored(y)
    BY <1>2, <1>6, <1>7, <2>1, <2>3, <2>6 DEF Good, Mirrored, Shows, Shown, IsOpen
  <2>10. Kept(r, y, {s})
    BY <1>6, <1>7, <2>1, <2>3, <2>6 DEF Kept, Scheduled
  <2>11. QED BY <1>8, <2>7, <2>8, <2>9, <2>10, KeptThrough DEF Good, y
<1>12. CASE IsOpen(x, p.socket)
  <2>1. r = r0
    <3>1. Removed(r0, r, Tab) => p.socket \in r.closing BY DEF Removed, p
    <3>2. QED BY <1>2, <1>7, <1>12, <3>1 DEF IsOpen
  <2>2. Base(x)
    <3>1. Heard(x) BY <1>2, <1>6, <1>7, <2>1 DEF Good, Base, Heard
    <3>2. QED BY <1>7, <1>9, <3>1 DEF Base
  <2>3. \A u \in Tab \ {t} : Shows(x, u, x.presence)
    BY <1>2, <1>6, <1>7 DEF Good, Mirrored, Shows, Shown, IsOpen
  <2>4. Kept(r0, x, {s})
    BY <1>3, <1>6, <1>7, <2>1 DEF Kept, Scheduled
  <2>5. CASE s = p.socket
    <3> DEFINE k == [r.presence EXCEPT ![p.presenceId] = 0]
               K == [x.known EXCEPT ![s] = k]
    <3>1. k \in [Socket -> 0 .. MaxPushes] /\ \A i \in Socket : k[i] = IF i = p.presenceId THEN 0 ELSE r.presence[i]
      BY <1>1, <1>2, SessionsAssumption DEF Rooms
    <3>2. y = [x EXCEPT !.known = K, !.greeted = @ \cup {s}]
      BY <1>4, <1>12, <2>5
    <3> HIDE DEF k
    <3>3. K \in [Socket -> [Socket -> 0 .. MaxPushes]] /\ \A u \in Socket : K[u] = IF u = s THEN k ELSE x.known[u]
      BY <1>7, <3>1 DEF Rooms
    <3> HIDE DEF K
    <3>4. /\ y.session = S /\ y.closing = x.closing /\ y.pruneTimer = x.pruneTimer
          /\ y.presence = x.presence /\ y.heard = x.heard /\ y.strays = x.strays
          /\ y.greeted = x.greeted \cup {s}
          /\ y.cheated = x.cheated /\ y.orphans = x.orphans /\ y.known = K
          /\ y \in Rooms
      BY <1>7, <3>2, <3>3 DEF Rooms
    <3>5. \A u \in Tab \ {t} : S[u].state # "none" => S[u].socket # s /\ S[u].socket \in Socket
      BY <1>1, <1>7, <1>9, <2>5 DEF Owned
    <3>6. Base(y)
      <4>1. Owned(y) BY <1>7, <1>9, <3>4 DEF Owned
      <4>2. Queues(y) BY <1>7, <1>9, <3>4 DEF Queues
      <4>3. Phases(y) BY <1>3, <1>6, <1>7, <1>9, <3>4, <3>5 DEF Phases, IsOpen
      <4>4. Heard(y) BY <1>7, <2>2, <3>4 DEF Base, Heard
      <4>5. QED BY <3>4, <4>1, <4>2, <4>3, <4>4 DEF Base
    <3>7. Belongs(y) BY <1>7, <1>10, <3>4 DEF Belongs
    <3>8. Mirrored(y)
      <4>1. \A u \in Tab \ {t} : Shows(y, u, y.presence)
        BY <1>7, <2>3, <3>3, <3>4, <3>5 DEF Shows, Shown, IsOpen
      <4>2. Shows(y, t, y.presence)
        BY <1>3, <1>6, <1>7, <2>5, <3>1, <3>3, <3>4, NoNewsIs DEF Shows, Shown
      <4>3. QED BY <4>1, <4>2 DEF Mirrored
    <3>9. Kept(r0, y, {s})
      BY <1>7, <2>4, <3>4 DEF Kept, Scheduled
    <3>10. QED BY <3>6, <3>7, <3>8, <3>9 DEF Good, y
  <2>6. CASE s # p.socket
    <3>2. y = [x EXCEPT !.cheated = IF r.session[t].queued THEN @ \cup {p.socket} ELSE @]
      BY <1>4, <1>12, <2>6
    <3>3. y \in Rooms
      BY <1>1, <1>7, <3>2 DEF Rooms
    <3>4. /\ y.session = S /\ y.closing = x.closing /\ y.pruneTimer = x.pruneTimer
          /\ y.presence = x.presence /\ y.heard = x.heard /\ y.strays = x.strays /\ y.greeted = x.greeted
          /\ y.cheated = (IF r.session[t].queued THEN x.cheated \cup {p.socket} ELSE x.cheated)
          /\ y.orphans = x.orphans /\ y.known = x.known
      BY <1>7, <3>2 DEF Rooms
    <3>5. Base(y)
      BY <1>7, <2>2, <3>3, <3>4 DEF Base, Owned, Queues, Phases, Heard, IsOpen
    <3>6. Belongs(y) BY <1>7, <1>10, <3>4 DEF Belongs
    <3>7. Mirrored(y)
      <4>1. \A u \in Tab \ {t} : Shows(y, u, y.presence)
        BY <1>7, <2>3, <3>4 DEF Shows, Shown, IsOpen
      <4>2. Shows(y, t, y.presence)
        <5>1. SUFFICES ASSUME IsOpen(x, p.socket), p.socket \in r.greeted, p.socket \notin r.cheated,
                              ~r.session[t].queued
                       PROVE  \A i \in Socket : x.known[p.socket][i] = IF i = p.presenceId THEN 0 ELSE r.presence[i]
          BY <1>3, <1>6, <1>7, <3>4, NoNewsIs DEF Shows, Shown, IsOpen
        <5>2. r.session[t] = p /\ p.outstanding = NoNews /\ p.state = "connected"
          BY <1>1, <1>2, <1>7, <2>1, <5>1 DEF Good, Base, Phases, Queues, IsOpen, p, Session
        <5>3. QED BY <1>2, <1>7, <5>1, <5>2, NoNewsIs DEF Good, Mirrored, Shows, Shown, IsOpen
      <4>3. QED BY <4>1, <4>2 DEF Mirrored
    <3>8. Kept(r0, y, {s})
      BY <1>7, <2>4, <3>4 DEF Kept, Scheduled
    <3>9. QED BY <3>5, <3>6, <3>7, <3>8 DEF Good, y
  <2>7. QED BY <2>5, <2>6
<1>13. QED BY <1>11, <1>12

LEMMA PushedKeeps ==
  ASSUME NEW r0, Good(r0), NEW t \in Tab, r0.session[t].state = "connected", NEW v \in 0 .. MaxPushes
  PROVE  LET y == pushed(r0, t, v) IN Good(y) /\ Kept(r0, y, {})
<1> DEFINE i == r0.session[t].presenceId
           r == broadcastChanges(r0)
           P == [r.presence EXCEPT ![i] = v]
           O == IF r.session[t].state = "none" THEN r.orphans \cup {i} ELSE r.orphans
           x == [r EXCEPT !.presence = P, !.orphans = O]
           z == sendData(x, t, NoNews)
           y == pushed(r0, t, v)
<1>1. i \in Socket /\ owner[i] = t
  BY DEF Good, Base, Owned
<1>2. Good(r) /\ r \in Rooms /\ (r = r0 \/ Removed(r0, r, Tab)) /\ Kept(r0, r, {})
  <2>1. Good(r) /\ r \in Rooms /\ (r = r0 \/ Removed(r0, r, Tab)) BY ChangesKeep DEF Good, Base
  <2>2. QED BY <2>1, KeptThrough
<1>3. y = broadcastPatch(z, About(i, v), {t})
  BY DEF pushed
<1> HIDE DEF r, y, i
<1>4. /\ P \in [Socket -> 0 .. MaxPushes] /\ O \in SUBSET Socket
      /\ \A j \in Socket : P[j] = IF j = i THEN v ELSE r.presence[j]
  BY <1>1, <1>2 DEF Rooms
<1> HIDE DEF P
<1>5. /\ x.session = r.session /\ x.strays = r.strays /\ x.closing = r.closing /\ x.pruneTimer = r.pruneTimer
      /\ x.presence = P /\ x.heard = r.heard /\ x.greeted = r.greeted /\ x.known = r.known
      /\ x.cheated = r.cheated /\ x.orphans = O /\ x \in Rooms
  BY <1>2, <1>4 DEF Rooms
<1> HIDE DEF x, z
<1>6. Base(x) /\ Kept(r, x, {})
  BY <1>2, <1>5 DEF Good, Base, Owned, Queues, Phases, Heard, IsOpen, Kept, Scheduled
<1>7. \A u \in Tab : Shows(x, u, r.presence)
  BY <1>2, <1>5 DEF Good, Mirrored, Shows, Shown, IsOpen
<1>8. \A u \in Tab : x.session[u].state = "connected" => x.session[u].presenceId \in Socket
                                                       /\ (x.session[u].presenceId = i <=> u = t)
  <2>1. x.session[t].state = "connected" => x.session[t].presenceId = i
    BY <1>2, <1>5 DEF Removed, NoSession, i
  <2>2. QED BY <1>1, <1>6, <2>1 DEF Base, Owned
<1>9. /\ Base(z) /\ Sent(x, z) /\ Shows(z, t, P)
      /\ \A u \in Tab \ {t} : Shows(z, u, r.presence)
  <2>1. x.session[t].state = "connected" => Turns(NoNews, x.session[t].presenceId, r.presence, P)
    BY <1>4, <1>8, NoNewsIs DEF Turns
  <2>2. QED BY <1>6, <1>7, <2>1, SendKeeps, NoNewsIs DEF z
<1>10. \A w : Sent(x, w) => (Shows(w, t, P) <=> Shows(w, t, r.presence))
  <2>1. ASSUME NEW w, Sent(x, w), w.session[t].state = "connected" PROVE w.session[t].presenceId = i
    BY <1>8, <2>1 DEF Sent, Fate
  <2>2. QED BY <1>4, <2>1 DEF Shows
<1>11. \A u \in Tab \ {t} : z.session[u].state = "connected" => Turns(About(i, v), z.session[u].presenceId, r.presence, P)
  <2>1. About(i, v) \in News /\ DOMAIN About(i, v) = {i} /\ About(i, v)[i] = v
    BY <1>1, AboutIs
  <2>2. ASSUME NEW u \in Tab, u # t, z.session[u].state = "connected"
        PROVE z.session[u].presenceId # i
    BY <1>8, <1>9, <2>2 DEF Sent, Fate
  <2>3. QED BY <1>4, <2>1, <2>2 DEF Turns
<1>12. /\ Base(y) /\ Sent(z, y)
       /\ \A u \in Tab \ {t} : Shows(y, u, P)
       /\ Shows(y, t, r.presence)
  <2>1. \A u \in Tab : Shows(z, u, r.presence) BY <1>9, <1>10
  <2>2. About(i, v) \in News BY <1>1, AboutIs
  <2>3. QED BY <1>3, <1>9, <1>11, <2>1, <2>2, BroadcastKeeps
<1>13. Sent(x, y) BY <1>9, <1>12, SentTransitive
<1>14. Mirrored(y)
  BY <1>5, <1>10, <1>12, <1>13 DEF Mirrored, Sent
<1>15. Belongs(y)
  <2>1. ASSUME NEW j \in Socket, j \notin O, P[j] # 0 PROVE \E u \in Tab : r.session[u].presenceId = j
    <3>1. CASE j # i BY <1>2, <1>4, <2>1, <3>1 DEF Good, Belongs
    <3>2. CASE j = i
      <4>1. r = r0 BY <1>2, <2>1, <3>2 DEF Removed, NoSession
      <4>2. QED BY <3>2, <4>1 DEF i
    <3>3. QED BY <3>1, <3>2
  <2>2. \A u \in Tab : y.session[u].presenceId = r.session[u].presenceId
    BY <1>5, <1>13 DEF Sent, Fate
  <2>3. y.presence = P /\ y.orphans = O BY <1>5, <1>13 DEF Sent
  <2> HIDE DEF O
  <2>4. QED BY <2>1, <2>2, <2>3 DEF Belongs
<1>16. Kept(r0, y, {})
  <2>1. Kept(x, y, {}) BY <1>13, KeptThrough
  <2>2. QED BY <1>2, <1>6, <2>1, KeptThrough
<1>17. QED BY <1>12, <1>14, <1>15, <1>16 DEF Good, y

LEMMA FlushKeeps ==
  ASSUME NEW x, Good(x), NEW t \in Tab
  PROVE  LET y == flushDataMessages(x, t) IN Good(y) /\ Kept(x, y, {})
<1> DEFINE p == x.session[t]
           q == [p EXCEPT !.debounce = FALSE, !.queued = FALSE, !.outstanding = NoNews]
           k == Over(p.outstanding, x.known[p.socket])
           S == [x.session EXCEPT ![t] = q]
           K == [x.known EXCEPT ![p.socket] = k]
           y == flushDataMessages(x, t)
<1>0. x \in Rooms /\ p \in Session /\ p.queued \in BOOLEAN /\ IsOpen(x, p.socket) \in BOOLEAN
  BY DEF Good, Base, Rooms, Session, IsOpen
<1>1. CASE p.state # "connected"
  BY <1>1, KeptThrough DEF flushDataMessages
<1>2. CASE p.state = "connected" /\ p.queued /\ ~IsOpen(x, p.socket)
  <2>1. y = cancelSession(x, t) BY <1>2 DEF flushDataMessages
  <2> HIDE DEF y
  <2>2. Base(y) /\ Sent(x, y) /\ \A u \in Tab : \A presence : Shows(x, u, presence) => Shows(y, u, presence)
    BY <2>1, CancelKeeps DEF Good
  <2>3. Mirrored(y) BY <2>2 DEF Good, Mirrored, Sent
  <2>4. Belongs(y) BY <2>2 DEF Good, Belongs, Sent, Fate
  <2>5. QED BY <2>2, <2>3, <2>4, KeptThrough DEF Good, y
<1>3. CASE p.state = "connected" /\ ~(p.queued /\ ~IsOpen(x, p.socket))
  <2>1. p.socket \in Socket /\ owner[p.socket] = t /\ p.outstanding \in News
    BY <1>0, <1>3 DEF Good, Base, Owned, Session, News
  <2>2. q \in Session /\ q.state = p.state /\ q.socket = p.socket /\ q.presenceId = p.presenceId
        /\ ~q.debounce /\ ~q.queued /\ q.outstanding = NoNews
    BY <1>0, NoNewsIs DEF Session, NoSession
  <2>3. k \in [Socket -> 0 .. MaxPushes]
    BY <1>0, <2>1, OverIs DEF Rooms
  <2>4. y = [x EXCEPT !.session = S, !.known = K]
    BY <1>3 DEF flushDataMessages
  <2> HIDE DEF q, k
  <2>5. S \in [Tab -> Session] /\ K \in [Socket -> [Socket -> 0 .. MaxPushes]]
    BY <1>0, <2>1, <2>2, <2>3 DEF Rooms
  <2>6. /\ \A u \in Tab : S[u] = IF u = t THEN q ELSE x.session[u]
        /\ \A s \in Socket : K[s] = IF s = p.socket THEN k ELSE x.known[s]
    BY <1>0, <2>1 DEF Rooms
  <2> HIDE DEF S, K
  <2>7. /\ y.session = S /\ y.closing = x.closing /\ y.pruneTimer = x.pruneTimer
        /\ y.presence = x.presence /\ y.heard = x.heard /\ y.strays = x.strays /\ y.greeted = x.greeted
        /\ y.cheated = x.cheated /\ y.orphans = x.orphans /\ y.known = K
        /\ y \in Rooms
    BY <1>0, <2>4, <2>5 DEF Rooms
  <2> HIDE DEF y
  <2>8. Base(y)
    <3>1. Owned(y) BY <1>3, <2>2, <2>6, <2>7 DEF Good, Base, Owned
    <3>2. Queues(y) BY <1>3, <2>2, <2>6, <2>7 DEF Good, Base, Queues
    <3>3. Phases(y) BY <1>3, <2>2, <2>6, <2>7 DEF Good, Base, Phases, IsOpen
    <3>4. Heard(y) BY <1>3, <2>2, <2>6, <2>7 DEF Good, Base, Heard
    <3>5. QED BY <2>7, <3>1, <3>2, <3>3, <3>4 DEF Base
  <2>9. Belongs(y)
    BY <2>2, <2>6, <2>7 DEF Good, Belongs
  <2>10. ASSUME NEW u \in Tab PROVE Shows(y, u, y.presence)
    <3>1. CASE x.session[u].state # "connected" BY <2>2, <2>6, <2>7, <3>1 DEF Shows
    <3>2. CASE x.session[u].state = "connected" /\ u # t
      <4>1. x.session[u].socket \in Socket /\ x.session[u].socket # p.socket
        BY <2>1, <3>2 DEF Good, Base, Owned
      <4>2. QED BY <2>6, <2>7, <3>2, <4>1 DEF Good, Mirrored, Shows, Shown, IsOpen
    <3>3. CASE u = t
      <4>1. \A i \in Socket : Shown(y, t, i) = Shown(x, t, i)
        <5>1. x.known[p.socket] \in [Socket -> 0 .. MaxPushes] BY <1>0, <2>1 DEF Rooms
        <5>2. \A i \in Socket : Shown(y, t, i) = k[i]
          BY <2>1, <2>2, <2>6, <2>7, NoNewsIs DEF Shown
        <5>3. \A i \in Socket : k[i] = IF i \in DOMAIN p.outstanding THEN p.outstanding[i] ELSE x.known[p.socket][i]
          BY <5>1, OverAt DEF k
        <5>4. QED BY <5>2, <5>3 DEF Shown
      <4>2. QED BY <2>2, <2>6, <2>7, <3>3, <4>1 DEF Good, Mirrored, Shows, IsOpen
    <3>4. QED BY <3>1, <3>2, <3>3
  <2>11. Kept(x, y, {})
    BY <2>2, <2>6, <2>7 DEF Kept, Scheduled
  <2>12. QED BY <2>8, <2>9, <2>10, <2>11 DEF Good, Mirrored, y
<1>4. QED BY <1>0, <1>1, <1>2, <1>3

LEMMA StraysKeep ==
  ASSUME NEW x, Good(x), NEW t \in Tab, NEW n \in Nat
  PROVE  LET y == [x EXCEPT !.strays[t] = n] IN Good(y) /\ Kept(x, y, {})
<1> DEFINE N == [x.strays EXCEPT ![t] = n]
           y == [x EXCEPT !.strays = N]
<1>1. x \in Rooms BY DEF Good, Base
<1>2. N \in [Tab -> Nat] BY <1>1 DEF Rooms
<1> HIDE DEF N
<1>3. /\ y.session = x.session /\ y.closing = x.closing /\ y.pruneTimer = x.pruneTimer
      /\ y.presence = x.presence /\ y.heard = x.heard /\ y.greeted = x.greeted
      /\ y.cheated = x.cheated /\ y.orphans = x.orphans /\ y.known = x.known
      /\ y \in Rooms
  BY <1>1, <1>2 DEF Rooms
<1> HIDE DEF y
<1>4. Good(y)
  BY <1>3 DEF Good, Base, Owned, Queues, Phases, Heard, Belongs, Mirrored, Shows, Shown, IsOpen
<1>5. Kept(x, y, {}) BY <1>3 DEF Kept, Scheduled
<1>6. QED BY <1>4, <1>5 DEF y, N

-----------------------------------------------------------------------------
(* The loop of pruneSessions.                                              *)

\* What one session's turn in the loop keeps is so of the loop: R holds of every
\* room on the way, K of one in which the sessions at a set of places have had it.
LEMMA PruneInduction ==
  ASSUME NEW R, NEW r, [r EXCEPT !.pruneTimer = "none"] \in R, NEW n \in Nat, NEW order \in [1 .. n -> Tab],
         NEW late, NEW K, <<{}, [r EXCEPT !.pruneTimer = "none"]>> \in K,
         \A x \in R, t \in Tab : pruneSession(x, t, t \in late) \in R,
         \A s \in SUBSET (1 .. n), i \in 1 .. n, x \in R :
           i \notin s /\ <<s, x>> \in K => <<s \cup {i}, pruneSession(x, order[i], order[i] \in late)>> \in K
  PROVE  prunedIn(r, order, late) \in R /\ <<1 .. n, prunedIn(r, order, late)>> \in K
<1> DEFINE S == 1 .. n
           base == [r EXCEPT !.pruneTimer = "none"]
           any(s) == Max(s)
           F(g) == g = [s \in SUBSET S |-> IF s = {} THEN base
                                           ELSE pruneSession(g[s \ {any(s)}], order[any(s)], order[any(s)] \in late)]
           step == [i \in S |-> [x \in R |-> pruneSession(x, order[i], order[i] \in late)]]
           pick == [s \in SUBSET S |-> any(s)]
           fold == CHOOSE g : F(g)
           G == {s \in SUBSET S : fold[s] \in R /\ <<s, fold[s]>> \in K}
<1>1. IsFiniteSet(S)
  <2>1. 1 \in Int /\ n \in Int OBVIOUS
  <2>2. QED BY <2>1, FS_Interval
<1>2. \A s \in SUBSET S : s # {} => any(s) \in s
  <2>1. SUFFICES ASSUME NEW s \in SUBSET S, s # {} PROVE any(s) \in s
    OBVIOUS
  <2>2. IsFiniteSet(s) BY <1>1, FS_Subset
  <2>3. \E x \in s : \A y \in s : x >= y BY <2>1, <2>2, GreatestOf
  <2>4. QED BY <2>3 DEF Max
<1>3. step \in [S -> [R -> R]] OBVIOUS
<1>4. Picks(pick, S)
  <2> HIDE DEF any
  <2>1. QED BY <1>2 DEF Picks
<1> HIDE DEF base
<1>5. PICK it \in [SUBSET S -> R] : Folds(it, S, base, step, pick)
  <2>1. base \in R BY DEF base
  <2> HIDE DEF S, step, pick
  <2>2. QED BY <1>1, <1>3, <1>4, <2>1, FoldDefined
<1>6. \A s \in SUBSET S : it[s] = IF s = {} THEN base
                                  ELSE pruneSession(it[s \ {any(s)}], order[any(s)], order[any(s)] \in late)
  <2> HIDE DEF any
  <2>1. \A s \in SUBSET S : s # {} => any(s) \in S /\ s \ {any(s)} \in SUBSET S BY <1>2
  <2>2. QED BY <1>5, <2>1 DEF Folds
<1>7. F(it)
  <2> HIDE DEF any
  <2>1. QED BY <1>6
<1>8. prunedIn(r, order, late) = fold[S]
  <2>1. DOMAIN order = S OBVIOUS
  <2>2. QED BY <2>1 DEF prunedIn, FoldLeft, MapThenFoldSet, base
<1>9. \A s \in SUBSET S : fold[s] = IF s = {} THEN base
                                    ELSE pruneSession(fold[s \ {any(s)}], order[any(s)], order[any(s)] \in late)
  <2>1. F(fold)
    <3> HIDE DEF F
    <3>1. QED BY <1>7
  <2> HIDE DEF fold, any
  <2>2. QED BY <2>1
<1> HIDE DEF fold
<1>10. {} \in G BY <1>9 DEF base
<1>11. ASSUME NEW s \in SUBSET S, s # {}, \A x \in s : s \ {x} \in G PROVE s \in G
  <2> HIDE DEF any
  <2>1. any(s) \in s /\ any(s) \in S BY <1>2, <1>11
  <2>2. fold[s] = pruneSession(fold[s \ {any(s)}], order[any(s)], order[any(s)] \in late) BY <1>9, <1>11
  <2> DEFINE i == any(s)
             x == fold[s \ {any(s)}]
  <2>3. x \in R /\ <<s \ {i}, x>> \in K /\ s \ {i} \in SUBSET S /\ i \notin s \ {i} BY <1>11, <2>1
  <2>4. fold[s] = pruneSession(x, order[i], order[i] \in late) /\ i \in S /\ order[i] \in Tab BY <2>1, <2>2
  <2> HIDE DEF x, i
  <2>5. (s \ {i}) \cup {i} = s BY <2>1 DEF i
  <2>6. fold[s] \in R BY <2>3, <2>4
  <2>7. <<(s \ {i}) \cup {i}, pruneSession(x, order[i], order[i] \in late)>> \in K BY <2>3, <2>4
  <2>8. QED BY <2>4, <2>5, <2>6, <2>7
<1>12. S \in G
  <2> HIDE DEF G, S
  <2>1. QED BY <1>1, <1>10, <1>11, SubsetInduction
<1>13. QED BY <1>8, <1>12

\* In what order the sessions come, each comes.
LEMMA OrderCovers ==
  ASSUME NEW S, IsFiniteSet(S), NEW order \in SetToSeqs(S)
  PROVE  \E n \in Nat : order \in [1 .. n -> S] /\ \A t \in S : \E i \in 1 .. n : order[i] = t
<1> DEFINE n == Cardinality(S)
<1>1. n \in Nat BY FS_CardinalityType
<1>2. order \in [1 .. n -> S] /\ \A i, j \in 1 .. n : i # j => order[i] # order[j]
  BY DEF SetToSeqs
<1>3. IsFiniteSet(1 .. n) /\ Cardinality(1 .. n) = n
  BY <1>1, FS_Interval
<1>4. \A t \in S : \E i \in 1 .. n : order[i] = t
  <2> HIDE DEF n
  <2>1. SUFFICES ASSUME NEW t \in S, \A i \in 1 .. n : order[i] # t PROVE FALSE
    OBVIOUS
  <2>2. order \in [1 .. n -> S \ {t}] BY <1>2, <2>1
  <2>3. IsFiniteSet(S \ {t}) /\ Cardinality(S \ {t}) = n - 1
    BY FS_RemoveElement DEF n
  <2>4. Cardinality(S \ {t}) < Cardinality(1 .. n) BY <1>1, <1>3, <2>3
  <2>5. \E i, j \in 1 .. n : i # j /\ order[i] = order[j]
    BY <1>3, <2>2, <2>3, <2>4, FS_PigeonHole
  <2>6. QED BY <1>2, <2>5
<1>5. QED BY <1>1, <1>2, <1>4

LEMMA CancelGood ==
  ASSUME NEW x, Good(x), NEW t \in Tab
  PROVE  LET y == cancelSession(x, t)
         IN  Good(y) /\ Sent(x, y) /\ y.session[t].state \in {"none", "awaitingRemoval"}
<1> DEFINE y == cancelSession(x, t)
<1>1. /\ Base(y) /\ Sent(x, y) /\ y.session[t].state \in {"none", "awaitingRemoval"}
      /\ \A u \in Tab : \A presence : Shows(x, u, presence) => Shows(y, u, presence)
  BY CancelKeeps DEF Good
<1> HIDE DEF y
<1>2. Mirrored(y) BY <1>1 DEF Good, Mirrored, Sent
<1>3. Belongs(y) BY <1>1 DEF Good, Belongs, Sent, Fate
<1>4. QED BY <1>1, <1>2, <1>3 DEF Good, y

LEMMA ScheduleGood ==
  ASSUME NEW x, Good(x)
  PROVE  LET y == scheduleFollowUpPrune(x)
         IN  Good(y) /\ Removed(x, y, {}) /\ y.pruneTimer # "none" /\ y.session = x.session
<1> DEFINE y == scheduleFollowUpPrune(x)
<1>1. x \in Rooms BY DEF Good, Base
<1>2. /\ y.session = x.session /\ y.closing = x.closing
      /\ y.pruneTimer = (IF x.pruneTimer = "none" THEN "set" ELSE x.pruneTimer)
      /\ y.presence = x.presence /\ y.heard = x.heard /\ y.strays = x.strays /\ y.greeted = x.greeted
      /\ y.cheated = x.cheated /\ y.orphans = x.orphans /\ y.known = x.known
      /\ y \in Rooms
  BY <1>1 DEF scheduleFollowUpPrune, Rooms
<1> HIDE DEF y
<1>3. Good(y)
  BY <1>2 DEF Good, Base, Owned, Queues, Phases, Heard, Belongs, Mirrored, Shows, Shown, IsOpen
<1>4. Removed(x, y, {}) BY <1>2 DEF Removed, Fate
<1>5. QED BY <1>2, <1>3, <1>4 DEF y

\* One session's turn in the loop leaves it with a prune to come, if it still waits
\* for one.
LEMMA PruneSessionKeeps ==
  ASSUME NEW x, Good(x), NEW t \in Tab, NEW late \in BOOLEAN
  PROVE  LET y == pruneSession(x, t, late)
         IN  /\ Good(y) /\ \E T \in SUBSET Tab : Removed(x, y, T)
             /\ y.session[t].state = "awaitingRemoval" => y.pruneTimer # "none"
<1> DEFINE p == x.session[t]
           out == late \/ ~IsOpen(x, p.socket)
           y == pruneSession(x, t, late)
<1>0. x \in Rooms /\ p \in Session /\ out \in BOOLEAN
  BY DEF Good, Base, Rooms, IsOpen
<1>1. p.state \in {"none", "awaitingConnect", "connected", "awaitingRemoval"}
  BY <1>0 DEF Session
<1>2. y = IF p.state = "connected" THEN (IF out THEN cancelSession(x, t) ELSE x)
          ELSE IF p.state = "awaitingConnect" THEN (IF out THEN removeSession(x, t) ELSE scheduleFollowUpPrune(x))
          ELSE IF p.state = "awaitingRemoval" THEN (IF late THEN removeSession(x, t) ELSE scheduleFollowUpPrune(x))
          ELSE x
  BY <1>1 DEF pruneSession
<1>3. CASE y = x /\ p.state \in {"none", "connected"}
  <2>1. Removed(x, x, {}) BY DEF Removed, Fate
  <2>2. QED BY <1>3, <2>1
<1>4. CASE y = removeSession(x, t)
  <2>1. Good(y) /\ Removed(x, y, {t}) BY <1>4, RemoveKeeps
  <2>2. y.session[t].state # "awaitingRemoval"
    <3> HIDE DEF y
    <3>1. QED BY <2>1 DEF Removed, NoSession
  <2>3. QED BY <2>1, <2>2
<1>5. CASE y = scheduleFollowUpPrune(x)
  <2>1. Good(y) /\ Removed(x, y, {}) /\ y.pruneTimer # "none" BY <1>5, ScheduleGood
  <2>2. QED BY <2>1
<1>6. CASE y = cancelSession(x, t) /\ p.state = "connected"
  <2>1. Good(y) /\ Sent(x, y) BY <1>6, CancelGood
  <2> HIDE DEF y
  <2>2. Removed(x, y, {}) BY <2>1 DEF Removed, Sent
  <2>3. y.session[t].state = "awaitingRemoval" => y.pruneTimer # "none"
    BY <1>6, <2>1 DEF Sent, Fate
  <2>4. QED BY <2>1, <2>2, <2>3 DEF y
<1>7. QED BY <1>1, <1>2, <1>3, <1>4, <1>5, <1>6

\* pruneSessions leaves no session waiting without a prune to come, in whatever
\* order it comes to them and whichever are past their timeout.
LEMMA PrunedKeeps ==
  ASSUME NEW r, Good(r), NEW y \in pruned(r)
  PROVE  /\ Good(y) /\ Scheduled(y, {}) /\ y.greeted = r.greeted /\ y.pruneTimer \in {"none", "set"}
         /\ r.closing \subseteq y.closing
<1> DEFINE base == [r EXCEPT !.pruneTimer = "none"]
<1>1. PICK order \in SetToSeqs(Present(r)), late \in SUBSET Present(r) : y = prunedIn(r, order, late)
  BY DEF pruned
<1>2. IsFiniteSet(Present(r)) /\ Present(r) \subseteq Tab
  <2>1. Present(r) \in SUBSET Tab BY DEF Present
  <2>2. QED BY <2>1, SessionsAssumption, FS_Subset
<1>3. PICK n \in Nat : order \in [1 .. n -> Present(r)] /\ \A t \in Present(r) : \E i \in 1 .. n : order[i] = t
  BY <1>2, OrderCovers
<1>4. order \in [1 .. n -> Tab] BY <1>2, <1>3
<1>5. r \in Rooms BY DEF Good, Base
<1>6. /\ base.session = r.session /\ base.closing = r.closing /\ base.pruneTimer = "none"
      /\ base.presence = r.presence /\ base.heard = r.heard /\ base.strays = r.strays
      /\ base.greeted = r.greeted /\ base.cheated = r.cheated /\ base.orphans = r.orphans
      /\ base.known = r.known /\ base \in Rooms
  BY <1>5 DEF Rooms
<1> DEFINE Done(s) == {order[i] : i \in s}
           R == {x \in Rooms : Good(x)}
           K == {p \in (SUBSET (1 .. n)) \X R :
                   /\ \E T \in SUBSET Tab : Removed(base, p[2], T)
                   /\ Scheduled(p[2], Tab \ Done(p[1]))}
<1>b. base = [r EXCEPT !.pruneTimer = "none"] OBVIOUS
<1> HIDE DEF base
<1>7. Good(base) /\ base \in R
  <2>1. Good(base)
    BY <1>6 DEF Good, Base, Owned, Queues, Phases, Heard, Belongs, Mirrored, Shows, Shown, IsOpen
  <2>2. QED BY <1>6, <2>1
<1>8. \A x \in R, t \in Tab : pruneSession(x, t, t \in late) \in R
  <2>1. SUFFICES ASSUME NEW x \in R, NEW t \in Tab PROVE pruneSession(x, t, t \in late) \in R
    OBVIOUS
  <2>2. (t \in late) \in BOOLEAN OBVIOUS
  <2>3. Good(pruneSession(x, t, t \in late)) BY <2>2, PruneSessionKeeps
  <2>4. QED BY <2>3 DEF Good, Base
<1>9. <<{}, base>> \in K
  <2>1. Removed(base, base, {}) BY DEF Removed, Fate
  <2>2. Scheduled(base, Tab \ Done({})) BY DEF Scheduled
  <2> HIDE DEF Done, R
  <2>3. QED BY <1>7, <2>1, <2>2
<1>10. ASSUME NEW s \in SUBSET (1 .. n), NEW i \in 1 .. n, NEW x \in R, i \notin s, <<s, x>> \in K
       PROVE  <<s \cup {i}, pruneSession(x, order[i], order[i] \in late)>> \in K
  <2> DEFINE t == order[i]
             z == pruneSession(x, order[i], order[i] \in late)
  <2>1. PICK T \in SUBSET Tab : Removed(base, x, T) BY <1>10
  <2>2. Scheduled(x, Tab \ Done(s)) /\ Good(x) BY <1>10
  <2>3. t \in Tab /\ (t \in late) \in BOOLEAN BY <1>4
  <2>4. PICK U \in SUBSET Tab : /\ Good(z) /\ Removed(x, z, U)
                                /\ z.session[t].state = "awaitingRemoval" => z.pruneTimer # "none"
    BY <2>2, <2>3, PruneSessionKeeps
  <2> HIDE DEF z
  <2>5. Removed(base, z, T \cup U)
    BY <2>1, <2>2, <2>4, RemovedTransitive DEF Good
  <2>6. Scheduled(z, Tab \ Done(s \cup {i}))
    <3>1. ASSUME NEW u \in Done(s), u \in Tab, z.session[u].state = "awaitingRemoval"
          PROVE  z.pruneTimer # "none"
      <4>1. x.session[u].state = "awaitingRemoval" => x.pruneTimer # "none" BY <2>2, <3>1 DEF Scheduled
      <4>2. QED BY <2>4, <3>1, <4>1 DEF Removed, Fate, NoSession
    <3>2. Done(s \cup {i}) = Done(s) \cup {t} OBVIOUS
    <3> HIDE DEF Done, t
    <3>3. QED BY <2>4, <3>1, <3>2 DEF Scheduled
  <2>7. z \in R BY <2>4 DEF Good, Base
  <2>8. <<s \cup {i}, z>> \in K
    <3> HIDE DEF R, Done
    <3>1. QED BY <2>5, <2>6, <2>7
  <2>9. QED BY <2>8 DEF z
<1>11. y \in R /\ <<1 .. n, y>> \in K
  <2>1. base \in R /\ <<{}, base>> \in K BY <1>7, <1>9
  <2> HIDE DEF R, K
  <2>2. QED BY <1>1, <1>b, <1>4, <1>8, <1>10, <2>1, PruneInduction
<1>12. PICK T \in SUBSET Tab : Removed(base, y, T) BY <1>11
<1>13. Scheduled(y, Tab \ Done(1 .. n)) /\ Good(y) BY <1>11
<1>14. Scheduled(y, {})
  <2>1. SUFFICES ASSUME NEW t \in Tab, y.session[t].state = "awaitingRemoval" PROVE y.pruneTimer # "none"
    BY DEF Scheduled
  <2>2. CASE t \in Present(r)
    <3>1. t \in Done(1 .. n) BY <1>3, <2>2
    <3> HIDE DEF Done
    <3>2. QED BY <1>13, <2>1, <3>1 DEF Scheduled
  <2>3. CASE t \notin Present(r)
    <3>1. base.session[t].state = "none" BY <1>6, <2>3 DEF Present
    <3>2. QED BY <1>12, <2>1, <3>1 DEF Removed, Fate, NoSession
  <2>4. QED BY <2>2, <2>3
<1>15. y.greeted = r.greeted /\ y.pruneTimer \in {"none", "set"} /\ r.closing \subseteq y.closing
  BY <1>6, <1>12 DEF Removed
<1>16. QED BY <1>13, <1>14, <1>15

-----------------------------------------------------------------------------
(* The end of a turn.                                                      *)

LEMMA AfterIs ==
  ASSUME NEW x \in Rooms
  PROVE  LET y == after(x)
         IN  /\ y \in Rooms /\ y.session = x.session /\ y.heard = x.heard /\ y.strays = x.strays
             /\ y.presence = x.presence /\ y.pruneTimer = x.pruneTimer /\ y.closing = {} /\ y.orphans = x.orphans
             /\ y.greeted \subseteq x.greeted
             /\ \A t \in Tab : x.session[t].socket \in Socket =>
                  LET s == x.session[t].socket
                  IN  y.known[s] = x.known[s] /\ (s \in y.greeted <=> s \in x.greeted)
                      /\ (s \in y.cheated <=> s \in x.cheated)
<1> DEFINE used == {x.session[t].socket : t \in Tab}
           K == [s \in Socket |-> IF s \in used THEN x.known[s] ELSE NoPresence]
           y == after(x)
<1>1. NoPresence \in [Socket -> 0 .. MaxPushes] BY SessionsAssumption DEF NoPresence
<1>2. K \in [Socket -> [Socket -> 0 .. MaxPushes]] BY <1>1 DEF Rooms
<1>3. \A t \in Tab : x.session[t].socket \in used OBVIOUS
<1>4. y = [x EXCEPT !.closing = {}, !.greeted = @ \cap used, !.cheated = @ \cap used, !.known = K]
  BY DEF after
<1>5. \A s \in Socket : s \in used => K[s] = x.known[s] OBVIOUS
<1> HIDE DEF K, used, y
<1>6. /\ y \in Rooms /\ y.session = x.session /\ y.heard = x.heard /\ y.strays = x.strays
      /\ y.presence = x.presence /\ y.pruneTimer = x.pruneTimer /\ y.closing = {} /\ y.orphans = x.orphans
      /\ y.greeted = x.greeted \cap used /\ y.cheated = x.cheated \cap used /\ y.known = K
  BY <1>2, <1>4 DEF Rooms
<1>7. QED BY <1>3, <1>5, <1>6 DEF y

\* What it closed is closed: the room that was good while the turn ran is good after.
LEMMA AfterKeeps ==
  ASSUME NEW x, Good(x), Scheduled(x, {}), room' = after(x), owner' = owner,
         \A s \in Socket : readyState'[s] = "open" <=> IsOpen(x, s)
  PROVE  /\ Good(room)' /\ Scheduled(room, {})' /\ room'.closing = {} /\ room'.greeted \subseteq x.greeted
         /\ room'.pruneTimer = x.pruneTimer
<1> DEFINE y == after(x)
<1>1. x \in Rooms BY DEF Good, Base
<1>2. /\ y \in Rooms /\ y.session = x.session /\ y.heard = x.heard /\ y.strays = x.strays
      /\ y.presence = x.presence /\ y.pruneTimer = x.pruneTimer /\ y.closing = {} /\ y.orphans = x.orphans
      /\ y.greeted \subseteq x.greeted
      /\ \A t \in Tab : x.session[t].socket \in Socket =>
           LET s == x.session[t].socket
           IN  y.known[s] = x.known[s] /\ (s \in y.greeted <=> s \in x.greeted) /\ (s \in y.cheated <=> s \in x.cheated)
  BY <1>1, AfterIs
<1>3. room' = y OBVIOUS
<1> HIDE DEF y
<1>4. \A s \in Socket : IsOpen(room, s)' <=> IsOpen(x, s)
  BY <1>2, <1>3 DEF IsOpen
<1>5. \A t \in Tab : x.session[t].state # "none" => x.session[t].socket \in Socket
  BY DEF Good, Base, Owned
<1>6. Owned(room)' BY <1>2, <1>3 DEF Good, Base, Owned
<1>7. Queues(room)' BY <1>2, <1>3 DEF Good, Base, Queues
<1>8. Phases(room)'
  BY <1>2, <1>3, <1>4, <1>5 DEF Good, Base, Phases
<1>9. Heard(room)' BY <1>2, <1>3 DEF Good, Base, Heard
<1>10. Belongs(room)' BY <1>2, <1>3 DEF Good, Belongs
<1>11. Mirrored(room)'
  <2>1. SUFFICES ASSUME NEW t \in Tab PROVE Shows(y, t, y.presence)'
    BY <1>3 DEF Mirrored
  <2>2. CASE x.session[t].state # "connected"
    BY <1>2, <2>2 DEF Shows
  <2>3. CASE x.session[t].state = "connected"
    BY <1>2, <1>3, <1>4, <1>5, <2>3 DEF Good, Mirrored, Shows, Shown
  <2>4. QED BY <2>2, <2>3
<1>12. Scheduled(room, {})' BY <1>2, <1>3 DEF Scheduled
<1>13. (room \in Rooms)' BY <1>2, <1>3 DEF Rooms, Session, Socket
<1>14. QED BY <1>2, <1>3, <1>6, <1>7, <1>8, <1>9, <1>10, <1>11, <1>12, <1>13 DEF Good, Base

LEMMA TurnKeeps ==
  ASSUME Sockets, NEW x, Good(x), Scheduled(x, {}), turn(x), owner' = owner
  PROVE  /\ Good(room)' /\ Scheduled(room, {})' /\ room'.closing = {} /\ room'.greeted \subseteq x.greeted
         /\ room'.pruneTimer = x.pruneTimer
         /\ readyState' \in [Socket -> {"unused", "open", "closing", "closed"}]
         /\ \A s \in Socket : readyState[s] = "unused" => readyState'[s] = "unused"
<1>1. readyState' \in [Socket -> {"unused", "open", "closing", "closed"}]
  BY DEF turn, Sockets
<1>2. \A s \in Socket : readyState[s] = "unused" => readyState'[s] = "unused"
  BY DEF turn
<1>3. \A s \in Socket : readyState'[s] = "open" <=> IsOpen(x, s)
  BY DEF turn, IsOpen
<1>4. room' = after(x) BY DEF turn
<1>5. QED BY <1>1, <1>2, <1>3, <1>4, AfterKeeps

LEMMA TurnPruningKeeps ==
  ASSUME Sockets, NEW r, Good(r), Scheduled(r, {}), turnPruning(r), owner' = owner,
         throttle \in {"idle", "quiet", "pending"}
  PROVE  /\ Good(room)' /\ Scheduled(room, {})' /\ room'.closing = {} /\ room'.greeted \subseteq r.greeted
         /\ room'.pruneTimer = "fired" => throttle' = "pending"
         /\ throttle' \in {"idle", "quiet", "pending"}
         /\ readyState' \in [Socket -> {"unused", "open", "closing", "closed"}]
         /\ \A s \in Socket : readyState[s] = "unused" => readyState'[s] = "unused"
<1>1. PICK x \in IF throttle = "idle" THEN pruned(r) ELSE {r} : turn(x)
  BY DEF turnPruning
<1>2. throttle' = IF throttle = "idle" THEN "quiet" ELSE "pending"
  BY DEF turnPruning
<1>3. Good(x) /\ Scheduled(x, {}) /\ x.greeted = r.greeted /\ (throttle = "idle" => x.pruneTimer \in {"none", "set"})
  <2>1. CASE throttle = "idle"
    <3>1. x \in pruned(r) BY <1>1, <2>1
    <3>2. QED BY <3>1, PrunedKeeps
  <2>2. CASE throttle # "idle" BY <1>1, <2>2
  <2>3. QED BY <2>1, <2>2
<1>4. QED BY <1>1, <1>2, <1>3, TurnKeeps

-----------------------------------------------------------------------------
(* The actions.                                                            *)

\* A step of the server that changes no socket's tab keeps what is so of sockets.
LEMMA ServerKeepsSockets ==
  ASSUME Sockets, UNCHANGED <<owner, current, sockets, pushes>>,
         readyState' \in [Socket -> {"unused", "open", "closing", "closed"}],
         \A s \in Socket : readyState[s] = "unused" => readyState'[s] = "unused",
         c2s' \in [Socket -> Seq(Message)], \A s \in Socket : c2s[s] = <<>> => c2s'[s] = <<>>
  PROVE  Sockets'
<1>1. (c2s \in [Socket -> Seq(Message)])' BY DEF Message, Socket
<1>2. \A s \in Socket : s > sockets' => owner'[s] = None /\ c2s'[s] = <<>> /\ readyState'[s] = "unused"
  BY DEF Sockets
<1>3. QED BY <1>1, <1>2 DEF Sockets, Socket

\* A function with another value at one place.
LEMMA WithValue ==
  ASSUME NEW D, NEW R, NEW f \in [D -> R], NEW d, NEW v \in R
  PROVE  [f EXCEPT ![d] = v] \in [D -> R]
OBVIOUS

\* A queue with one more message.
LEMMA OneMore ==
  ASSUME NEW R, NEW q \in Seq(R), NEW m \in R
  PROVE  Append(q, m) \in Seq(R)
OBVIOUS

LEMMA ConnectsKeeps ==
  ASSUME SessionInv, NEW t \in Tab, Connects(t)
  PROVE  SessionInv'
<1> DEFINE s == sockets + 1
           p == room.session[t]
           i == IF p.state = "none" THEN s ELSE p.presenceId
           q == [NoSession EXCEPT !.state = "awaitingConnect", !.socket = s, !.presenceId = i]
           S == [room.session EXCEPT ![t] = q]
           x == [room EXCEPT !.session = S, !.heard = @ \cup {t}]
<1>1. /\ s \in Socket /\ s > sockets /\ sockets' = s /\ sockets \in Nat
      /\ owner[s] = None /\ c2s[s] = <<>> /\ readyState[s] = "unused"
      /\ owner' = [owner EXCEPT ![s] = t] /\ current' = [current EXCEPT ![t] = s]
      /\ c2s' = [c2s EXCEPT ![s] = Append(c2s[s], [type |-> "connect"])]
      /\ readyState' = [readyState EXCEPT ![s] = "open"]
      /\ room' = after(x)
      /\ UNCHANGED <<behind, throttle, pushes, troubles>>
  BY NoneIsNoSocket, SessionsAssumption DEF SessionInv, Sockets, Connects, newSession, Socket, sent
<1>2. Good(room) /\ room \in Rooms /\ (\A u \in room.greeted : u <= sockets) /\ room.closing = {}
  BY DEF SessionInv, RoomInv, Good, Base
<1>3. Sockets'
  <2>1. [type |-> "connect"] \in Message BY DEF Message
  <2>2. c2s' \in [Socket -> Seq(Message)]
    <3>1. c2s \in [Socket -> Seq(Message)] BY DEF SessionInv, Sockets
    <3>2. c2s[s] \in Seq(Message) BY <1>1, <3>1
    <3>3. Append(c2s[s], [type |-> "connect"]) \in Seq(Message) BY <2>1, <3>2, OneMore
    <3>4. [c2s EXCEPT ![s] = Append(c2s[s], [type |-> "connect"])] \in [Socket -> Seq(Message)]
      BY <3>1, <3>3, WithValue
    <3>5. QED BY <1>1, <3>4
  <2>3. (c2s \in [Socket -> Seq(Message)])' BY <2>2 DEF Message, Socket
  <2>4. owner' \in [Socket -> Tab \cup {None}] /\ current' \in [Tab -> Socket \cup {None}]
        /\ readyState' \in [Socket -> {"unused", "open", "closing", "closed"}]
        /\ sockets' \in 0 .. MaxSockets /\ pushes' \in 0 .. MaxPushes
    <3>1. /\ owner \in [Socket -> Tab \cup {None}] /\ current \in [Tab -> Socket \cup {None}]
          /\ readyState \in [Socket -> {"unused", "open", "closing", "closed"}]
          /\ pushes \in 0 .. MaxPushes
      BY DEF SessionInv, Sockets
    <3>2. [owner EXCEPT ![s] = t] \in [Socket -> Tab \cup {None}] BY <3>1, WithValue
    <3>3. [current EXCEPT ![t] = s] \in [Tab -> Socket \cup {None}]
      <4>1. s \in Socket \cup {None} BY <1>1
      <4> HIDE DEF s
      <4>2. QED BY <3>1, <4>1, WithValue
    <3>4. [readyState EXCEPT ![s] = "open"] \in [Socket -> {"unused", "open", "closing", "closed"}]
      BY <3>1, WithValue
    <3>5. sockets' \in 0 .. MaxSockets BY <1>1 DEF Socket
    <3>6. pushes' = pushes BY DEF Connects
    <3>7. QED BY <1>1, <3>1, <3>2, <3>3, <3>4, <3>5, <3>6
  <2>5. \A u \in Socket : u > sockets' => owner'[u] = None /\ c2s'[u] = <<>> /\ readyState'[u] = "unused"
    BY <1>1, NoneIsNoSocket DEF SessionInv, Sockets
  <2>6. \A u \in Socket : u <= sockets' => owner'[u] \in Tab
    BY <1>1, NoneIsNoSocket DEF SessionInv, Sockets
  <2>7. \A u \in Tab : current'[u] # None => current'[u] <= sockets'
    BY <1>1, NoneIsNoSocket DEF SessionInv, Sockets
  <2>8. QED BY <2>3, <2>4, <2>5, <2>6, <2>7 DEF Sockets, Socket

<1>4. \A u \in Tab : room.session[u].state # "none" =>
        /\ room.session[u].socket \in Socket /\ room.session[u].socket # s /\ room.session[u].presenceId \in Socket
        /\ owner'[room.session[u].socket] = u /\ owner'[room.session[u].presenceId] = u
        /\ readyState'[room.session[u].socket] = "open" <=> readyState[room.session[u].socket] = "open"
  <2>1. \A u \in Tab : room.session[u].state # "none" =>
          /\ room.session[u].socket \in Socket /\ room.session[u].presenceId \in Socket
          /\ owner[room.session[u].socket] = u /\ owner[room.session[u].presenceId] = u
    BY <1>2 DEF Good, Base, Owned
  <2>2. \A u \in Tab : u # None BY SessionsAssumption
  <2>3. \A w \in Socket : w # s => owner'[w] = owner[w] /\ (readyState'[w] = "open" <=> readyState[w] = "open")
    BY <1>1 DEF SessionInv, Sockets
  <2> HIDE DEF s
  <2>4. QED BY <1>1, <2>1, <2>2, <2>3
<1>5. i \in Socket /\ owner'[i] = t /\ owner'[s] = t
  <2>1. owner'[s] = t BY <1>1 DEF SessionInv, Sockets
  <2>2. QED BY <1>1, <1>4, <2>1
<1> HIDE DEF s, i
<1>6. q \in Session /\ q.state = "awaitingConnect" /\ q.socket = s /\ q.presenceId = i
      /\ ~q.debounce /\ ~q.queued /\ q.outstanding = NoNews
  BY <1>1, <1>5, NoNewsIs DEF Session, NoSession
<1> HIDE DEF q
<1>7. S \in [Tab -> Session] /\ \A u \in Tab : S[u] = IF u = t THEN q ELSE room.session[u]
  BY <1>2, <1>6 DEF Rooms
<1> HIDE DEF S
<1>8. /\ x.session = S /\ x.strays = room.strays /\ x.closing = {} /\ x.pruneTimer = room.pruneTimer
      /\ x.presence = room.presence /\ x.heard = room.heard \cup {t} /\ x.greeted = room.greeted
      /\ x.known = room.known /\ x.cheated = room.cheated /\ x.orphans = room.orphans /\ x \in Rooms
  BY <1>2, <1>7 DEF Rooms
<1> HIDE DEF x
<1>9. /\ room' \in Rooms /\ room'.session = S /\ room'.heard = room.heard \cup {t}
      /\ room'.presence = room.presence /\ room'.pruneTimer = room.pruneTimer /\ room'.closing = {}
      /\ room'.orphans = room.orphans /\ room'.greeted \subseteq room.greeted
      /\ \A u \in Tab : S[u].socket \in Socket =>
           LET w == S[u].socket
           IN  room'.known[w] = room.known[w] /\ (w \in room'.greeted <=> w \in room.greeted)
               /\ (w \in room'.cheated <=> w \in room.cheated)
  BY <1>1, <1>8, AfterIs
<1>10. s \notin room.greeted BY <1>1, <1>2, NoneIsNoSocket
<1>11. Owned(room)' BY <1>1, <1>2, <1>4, <1>5, <1>6, <1>7, <1>9 DEF Good, Base, Owned, Socket
<1>12. Queues(room)' BY <1>2, <1>6, <1>7, <1>9 DEF Good, Base, Queues
<1>13. Phases(room)'
  <2>1. SUFFICES ASSUME NEW u \in Tab
                 PROVE  /\ S[u].state = "awaitingRemoval" => readyState'[S[u].socket] # "open"
                        /\ S[u].state = "awaitingConnect" => S[u].socket \notin room'.greeted
    BY <1>9 DEF Phases, IsOpen
  <2>2. CASE u = t BY <1>6, <1>7, <1>9, <1>10, <2>2
  <2>3. CASE u # t
    <3>1. room.session[u].state = "awaitingRemoval" => readyState[room.session[u].socket] # "open"
      BY <1>2 DEF Good, Base, Phases, IsOpen
    <3>2. room.session[u].state = "awaitingConnect" => room.session[u].socket \notin room.greeted
      BY <1>2 DEF Good, Base, Phases
    <3>3. QED BY <1>4, <1>7, <1>9, <2>3, <3>1, <3>2
  <2>4. QED BY <2>2, <2>3
<1>14. Heard(room)' BY <1>2, <1>7, <1>9 DEF Good, Base, Heard
<1>15. Belongs(room)'
  <2>1. ASSUME NEW j \in Socket, NEW u \in Tab, room.session[u].presenceId = j PROVE S[u].presenceId = j
    <3>1. CASE u # t BY <1>7, <2>1, <3>1
    <3>2. CASE u = t /\ p.state = "none"
      <4>1. p.presenceId = None BY <1>2, <3>2 DEF Good, Base, Owned, NoSession
      <4>2. QED BY <2>1, <3>2, <4>1, NoneIsNoSocket
    <3>3. CASE u = t /\ p.state # "none" BY <1>6, <1>7, <2>1, <3>3 DEF i
    <3>4. QED BY <3>1, <3>2, <3>3
  <2>2. \A j \in Socket \ room.orphans : room.presence[j] # 0 => \E u \in Tab : S[u].presenceId = j
    BY <1>2, <2>1 DEF Good, Belongs
  <2>3. QED BY <1>9, <2>2 DEF Belongs, Socket
<1>16. Mirrored(room)'
  <2>1. SUFFICES ASSUME NEW u \in Tab PROVE Shows(room, u, room.presence)'
    BY DEF Mirrored
  <2>2. CASE u = t BY <1>6, <1>7, <1>9, <2>2 DEF Shows
  <2>3. CASE u # t
    <3>1. Shows(room, u, room.presence) BY <1>2 DEF Good, Mirrored
    <3>2. QED BY <1>2, <1>4, <1>7, <1>9, <2>3, <3>1 DEF Shows, Shown, IsOpen, Socket
  <2>4. QED BY <2>2, <2>3
<1>17. Scheduled(room, {})'
  BY <1>6, <1>7, <1>9 DEF SessionInv, RoomInv, Scheduled
<1>18. (room \in Rooms)' BY <1>9 DEF Rooms, Session, Socket
<1>19. \A u \in room'.greeted : u <= sockets'
  BY <1>1, <1>2, <1>9 DEF Rooms, Socket
<1>20. QED
  BY <1>1, <1>3, <1>9, <1>11, <1>12, <1>13, <1>14, <1>15, <1>16, <1>17, <1>18, <1>19
     DEF SessionInv, RoomInv, Good, Base

\* What leaves the room alone and opens no socket.
LEMMA GoodUntouched ==
  ASSUME Good(room), UNCHANGED <<room, owner>>, \A s \in Socket : readyState'[s] = "open" => readyState[s] = "open"
  PROVE  Good(room)'
<1>0. \A t \in Tab : room.session[t].state # "none" => room.session[t].socket \in Socket
  BY DEF Good, Base, Owned
<1>1. Owned(room)' BY DEF Good, Base, Owned, NoSession, NoNews, Socket
<1>2. Queues(room)' BY DEF Good, Base, Queues, NoNews
<1>3. Phases(room)' BY <1>0 DEF Good, Base, Phases, IsOpen
<1>4. Heard(room)' BY DEF Good, Base, Heard
<1>5. Belongs(room)' BY DEF Good, Belongs, Socket
<1>6. Mirrored(room)' BY <1>0 DEF Good, Mirrored, Shows, Shown, IsOpen, Socket
<1>7. (room \in Rooms)' BY DEF Good, Base, Rooms, Session, Socket
<1>8. QED BY <1>1, <1>2, <1>3, <1>4, <1>5, <1>6, <1>7 DEF Good, Base

LEMMA RoomUntouched ==
  ASSUME RoomInv, UNCHANGED <<room, readyState, owner, throttle, sockets>>, behind' \in BOOLEAN
  PROVE  RoomInv'
<1>1. Good(room)' BY GoodUntouched DEF RoomInv
<1>2. Scheduled(room, {})' BY DEF RoomInv, Scheduled
<1>3. QED BY <1>1, <1>2 DEF RoomInv

\* What a tab sends keeps what is so of sockets.
LEMMA SendingKeepsSockets ==
  ASSUME Sockets, NEW s \in Socket, s <= sockets, NEW m \in Message, c2s' = sent(c2s, s, m),
         pushes' \in 0 .. MaxPushes, UNCHANGED <<owner, readyState, sockets>>,
         \A t \in Tab : current'[t] # None => current'[t] <= sockets, current' \in [Tab -> Socket \cup {None}]
  PROVE  Sockets'
<1>1. c2s' = [c2s EXCEPT ![s] = Append(c2s[s], m)] BY DEF sent
<1>2. c2s' \in [Socket -> Seq(Message)]
  BY <1>1 DEF Sockets
<1>3. (c2s \in [Socket -> Seq(Message)])' BY <1>2 DEF Message, Socket
<1>4. \A u \in Socket : u > sockets' => owner'[u] = None /\ c2s'[u] = <<>> /\ readyState'[u] = "unused"
  BY <1>1, NoneIsNoSocket DEF Sockets
<1>5. QED BY <1>3, <1>4 DEF Sockets, Socket

LEMMA TabKeeps ==
  ASSUME SessionInv, NEW t \in Tab, TabStep(t)
  PROVE  SessionInv'
<1> DEFINE s == current[t]
<1>0. s # None => s \in Socket /\ s <= sockets
  BY DEF SessionInv, Sockets
<1>1. CASE Connects(t) BY <1>1, ConnectsKeeps
<1>2. CASE Pushes(t)
  <2>1. s \in Socket /\ s <= sockets
    BY <1>0, <1>2, NoneIsNoSocket DEF Pushes, SessionInv, RoomInv, Good, Base, Rooms
  <2>2. pushes + 1 \in 0 .. MaxPushes
    BY <1>2, SessionsAssumption DEF Pushes, SessionInv, Sockets
  <2> DEFINE m == [type |-> "push", presence |-> pushes + 1]
  <2>3. m \in Message BY <2>2 DEF Message
  <2>4. c2s' = sent(c2s, s, m) /\ pushes' = pushes + 1
        /\ UNCHANGED <<room, readyState, owner, current, behind, throttle, sockets, troubles>>
    BY <1>2 DEF Pushes
  <2> HIDE DEF m, s
  <2>5. Sockets' BY <2>1, <2>2, <2>3, <2>4, SendingKeepsSockets DEF SessionInv, Sockets
  <2>6. RoomInv' BY <2>4, RoomUntouched DEF SessionInv, RoomInv
  <2>7. QED BY <2>5, <2>6 DEF SessionInv
<1>3. CASE Leaves(t)
  <2>1. c2s' = sent(c2s, s, [type |-> "close"]) /\ current' = [current EXCEPT ![t] = None] /\ s # None
        /\ UNCHANGED <<room, readyState, owner, behind, throttle, sockets, pushes, troubles>>
    BY <1>3 DEF Leaves, bounds
  <2>2. [type |-> "close"] \in Message BY DEF Message
  <2>3. /\ current' \in [Tab -> Socket \cup {None}] /\ pushes' \in 0 .. MaxPushes
        /\ \A u \in Tab : current'[u] # None => current'[u] <= sockets
    BY <2>1 DEF SessionInv, Sockets
  <2>4. Sockets' BY <1>0, <2>1, <2>2, <2>3, SendingKeepsSockets DEF SessionInv
  <2>5. RoomInv' BY <2>1, RoomUntouched DEF SessionInv, RoomInv
  <2>6. QED BY <2>4, <2>5 DEF SessionInv
<1>4. CASE SendsRubbish(t)
  <2>1. c2s' = sent(c2s, s, [type |-> "rubbish"]) /\ s # None
        /\ UNCHANGED <<room, readyState, owner, current, behind, throttle, sockets, pushes>>
    BY <1>4 DEF SendsRubbish
  <2>2. [type |-> "rubbish"] \in Message BY DEF Message
  <2>3. Sockets' BY <1>0, <2>1, <2>2, SendingKeepsSockets DEF SessionInv, Sockets
  <2>4. RoomInv' BY <2>1, RoomUntouched DEF SessionInv, RoomInv
  <2>5. QED BY <2>3, <2>4 DEF SessionInv
<1>5. QED BY <1>1, <1>2, <1>3, <1>4 DEF TabStep

LEMMA StorageKeeps ==
  ASSUME SessionInv, StorageMovesOn
  PROVE  SessionInv'
<1>1. UNCHANGED <<room, readyState, owner, c2s, current, throttle, sockets, pushes>> /\ behind' = TRUE
  BY DEF StorageMovesOn
<1>2. Sockets' BY <1>1 DEF SessionInv, Sockets, Message, Socket
<1>3. RoomInv' BY <1>1, RoomUntouched DEF SessionInv
<1>4. QED BY <1>2, <1>3 DEF SessionInv

LEMMA ReceivesKeeps ==
  ASSUME SessionInv, NEW s \in Socket, Receives(s)
  PROVE  SessionInv'
<1> DEFINE t == owner[s]
           m == Head(c2s[s])
           p == room.session[t].state
           r == CASE p = "none" -> room
                  [] p # "none" /\ m.type = "connect" -> connected(room, t, s)
                  [] p # "none" /\ m.type = "rubbish" -> removeSession(room, t)
                  [] p = "connected" /\ m.type = "push" -> pushed(room, t, m.presence)
                  [] OTHER -> room
<1>1. /\ c2s[s] # <<>> /\ c2s[s] \in Seq(Message) /\ m \in Message /\ Tail(c2s[s]) \in Seq(Message)
      /\ c2s' = [c2s EXCEPT ![s] = Tail(@)] /\ UNCHANGED <<owner, current, sockets, pushes, troubles>>
      /\ s <= sockets
  <2>1. c2s[s] # <<>> /\ c2s[s] \in Seq(Message) /\ s <= sockets
    BY NoneIsNoSocket DEF Receives, SessionInv, Sockets
  <2>2. m \in Message /\ Tail(c2s[s]) \in Seq(Message)
    BY <2>1
  <2>3. QED BY <2>1, <2>2 DEF Receives, bounds
<1>2. c2s' \in [Socket -> Seq(Message)] /\ \A u \in Socket : c2s[u] = <<>> => c2s'[u] = <<>>
  BY <1>1 DEF SessionInv, Sockets
<1>3. CASE t \notin room.heard
  <2>1. UNCHANGED <<room, readyState, throttle, behind>> BY <1>3 DEF Receives
  <2>2. Sockets' BY <1>1, <1>2, <2>1, ServerKeepsSockets DEF SessionInv, Sockets
  <2>3. RoomInv' BY <1>1, <2>1, RoomUntouched DEF SessionInv, RoomInv
  <2>4. QED BY <2>2, <2>3 DEF SessionInv
<1>4. CASE t \in room.heard
  <2>1. turnPruning(r) /\ behind' \in BOOLEAN BY <1>4 DEF Receives
  <2>2. Good(room) /\ Scheduled(room, {}) /\ t \in Tab
    BY <1>4 DEF SessionInv, RoomInv, Good, Base, Rooms
  <2>3. Good(r) /\ Kept(room, r, {s})
    <3>1. CASE r = room BY <2>2, <3>1, KeptThrough
    <3>2. CASE r = connected(room, t, s) /\ p # "none"
      BY <1>4, <2>2, <3>2, ConnectedKeeps
    <3>3. CASE r = removeSession(room, t)
      BY <2>2, <3>3, RemoveKeeps, KeptThrough
    <3>4. CASE r = pushed(room, t, m.presence) /\ p = "connected" /\ m.type = "push"
      <4>1. m.presence \in 0 .. MaxPushes BY <1>1, <3>4 DEF Message
      <4>2. Good(r) /\ Kept(room, r, {}) BY <2>2, <3>4, <4>1, PushedKeeps
      <4>3. Kept(room, r, {s}) BY <4>2 DEF Kept
      <4>4. QED BY <4>2, <4>3
    <3> HIDE DEF p, m
    <3>5. QED BY <3>1, <3>2, <3>3, <3>4
  <2> HIDE DEF r
  <2>4. Scheduled(r, {}) BY <2>2, <2>3 DEF Kept
  <2>5. /\ Good(room)' /\ Scheduled(room, {})' /\ room'.closing = {} /\ room'.greeted \subseteq r.greeted
        /\ room'.pruneTimer = "fired" => throttle' = "pending"
        /\ throttle' \in {"idle", "quiet", "pending"}
        /\ readyState' \in [Socket -> {"unused", "open", "closing", "closed"}]
        /\ \A u \in Socket : readyState[u] = "unused" => readyState'[u] = "unused"
    BY <1>1, <2>1, <2>3, <2>4, TurnPruningKeeps DEF SessionInv, RoomInv
  <2>6. Sockets' BY <1>1, <1>2, <2>5, ServerKeepsSockets DEF SessionInv
  <2>7. \A u \in room'.greeted : u <= sockets'
    BY <1>1, <2>3, <2>5 DEF SessionInv, RoomInv, Kept
  <2>8. QED BY <2>1, <2>5, <2>6, <2>7 DEF SessionInv, RoomInv
<1>5. QED BY <1>3, <1>4

LEMMA CloseFrameKeeps ==
  ASSUME SessionInv, NEW s \in Socket, ReceivesCloseFrame(s)
  PROVE  SessionInv'
<1>1. /\ readyState[s] = "open" /\ readyState' = [readyState EXCEPT ![s] = "closing"]
      /\ UNCHANGED <<room, owner, c2s, current, behind, throttle, sockets, pushes, troubles>>
  BY DEF ReceivesCloseFrame, bounds
<1>2. /\ readyState' \in [Socket -> {"unused", "open", "closing", "closed"}]
      /\ \A u \in Socket : readyState[u] = "unused" => readyState'[u] = "unused"
      /\ \A u \in Socket : readyState'[u] = "open" => readyState[u] = "open"
  BY <1>1 DEF SessionInv, Sockets
<1>3. Sockets' BY <1>1, <1>2, ServerKeepsSockets DEF SessionInv, Sockets
<1>4. Good(room)' BY <1>1, <1>2, GoodUntouched DEF SessionInv, RoomInv
<1>5. RoomInv' BY <1>1, <1>4 DEF SessionInv, RoomInv, Scheduled
<1>6. QED BY <1>3, <1>5 DEF SessionInv

\* A turn that closes with room r and lets the throttle be.
LEMMA TurnEnds ==
  ASSUME SessionInv, NEW r, Good(r), Kept(room, r, {}), turn(r),
         behind' \in BOOLEAN, UNCHANGED <<owner, c2s, current, throttle, bounds>>
  PROVE  SessionInv'
<1>1. Scheduled(r, {}) /\ r.greeted \subseteq room.greeted /\ (r.pruneTimer = "fired" => room.pruneTimer = "fired")
  BY DEF SessionInv, RoomInv, Kept
<1>2. /\ Good(room)' /\ Scheduled(room, {})' /\ room'.closing = {} /\ room'.greeted \subseteq r.greeted
      /\ room'.pruneTimer = r.pruneTimer
      /\ readyState' \in [Socket -> {"unused", "open", "closing", "closed"}]
      /\ \A u \in Socket : readyState[u] = "unused" => readyState'[u] = "unused"
  BY <1>1, TurnKeeps DEF SessionInv
<1>3. UNCHANGED <<owner, c2s, current, throttle, sockets, pushes, troubles>> BY DEF bounds
<1>4. Sockets' BY <1>2, <1>3, ServerKeepsSockets DEF SessionInv, Sockets
<1>5. QED BY <1>1, <1>2, <1>3, <1>4 DEF SessionInv, RoomInv

LEMMA SocketClosesKeeps ==
  ASSUME SessionInv, NEW s \in Socket, SocketCloses(s)
  PROVE  SessionInv'
<1> DEFINE t == owner[s]
           r == cancelSession(room, t)
<1>1. /\ c2s[s] # <<>> /\ readyState[s] = "closing" /\ c2s' = [c2s EXCEPT ![s] = <<>>] /\ room' = after(r)
      /\ readyState' = [x \in Socket |-> IF x = s THEN "closed"
                                         ELSE IF x \in r.closing /\ readyState[x] = "open" THEN "closing"
                                         ELSE readyState[x]]
      /\ UNCHANGED <<owner, current, behind, throttle, sockets, pushes, troubles>>
  BY DEF SocketCloses, bounds
<1>2. t \in Tab
  BY <1>1, NoneIsNoSocket DEF SessionInv, Sockets
<1>3. Good(room) /\ Scheduled(room, {}) /\ Good(r) /\ Sent(room, r) /\ Kept(room, r, {})
  <2>1. Good(room) /\ Scheduled(room, {}) BY DEF SessionInv, RoomInv
  <2>2. Good(r) /\ Sent(room, r) BY <1>2, <2>1, CancelGood
  <2>3. QED BY <2>1, <2>2, KeptThrough
<1> HIDE DEF r
<1>4. /\ readyState' \in [Socket -> {"unused", "open", "closing", "closed"}]
      /\ \A u \in Socket : readyState[u] = "unused" => readyState'[u] = "unused"
      /\ \A u \in Socket : readyState'[u] = "open" <=> IsOpen(r, u)
  BY <1>1 DEF SessionInv, Sockets, IsOpen
<1>5. Scheduled(r, {}) BY <1>3 DEF Kept
<1>6. /\ Good(room)' /\ Scheduled(room, {})' /\ room'.closing = {} /\ room'.greeted \subseteq r.greeted
      /\ room'.pruneTimer = r.pruneTimer
  BY <1>1, <1>3, <1>4, <1>5, AfterKeeps
<1>7. c2s' \in [Socket -> Seq(Message)] /\ \A u \in Socket : c2s[u] = <<>> => c2s'[u] = <<>>
  BY <1>1 DEF SessionInv, Sockets
<1>8. Sockets' BY <1>1, <1>4, <1>7, ServerKeepsSockets DEF SessionInv
<1>9. r.greeted \subseteq room.greeted /\ (r.pruneTimer = "fired" => room.pruneTimer = "fired")
  BY <1>3 DEF Kept
<1>10. QED BY <1>1, <1>6, <1>8, <1>9 DEF SessionInv, RoomInv

LEMMA ExternalKeeps ==
  ASSUME SessionInv, broadcastExternalStorageChanges
  PROVE  SessionInv'
<1> DEFINE r == broadcastChanges(room)
<1>1. Good(room) /\ Scheduled(room, {}) BY DEF SessionInv, RoomInv
<1>2. Good(r) /\ (r = room \/ Removed(room, r, Tab)) BY <1>1, ChangesKeep
<1>3. Kept(room, r, {}) BY <1>1, <1>2, KeptThrough
<1>4. turn(r) /\ behind' \in BOOLEAN /\ UNCHANGED <<owner, c2s, current, throttle, bounds>>
  BY DEF broadcastExternalStorageChanges
<1> HIDE DEF r
<1>5. QED BY <1>2, <1>3, <1>4, TurnEnds

LEMMA TimersKeep ==
  ASSUME SessionInv, Timers
  PROVE  SessionInv'
<1>0. Good(room) /\ Scheduled(room, {}) /\ room \in Rooms BY DEF SessionInv, RoomInv, Good, Base
<1>1. ASSUME NEW t \in Tab, DebounceTimer(t) PROVE SessionInv'
  <2>1. turn(flushDataMessages(room, t)) /\ UNCHANGED <<owner, c2s, current, behind, throttle, bounds>>
    BY <1>1 DEF DebounceTimer
  <2>2. behind' \in BOOLEAN BY <2>1 DEF SessionInv, RoomInv
  <2>3. QED BY <1>0, <2>1, <2>2, FlushKeeps, TurnEnds
<1>2. ASSUME NEW t \in Tab, StrayTimer(t) PROVE SessionInv'
  <2> DEFINE n == IF room.session[t].debounce THEN room.strays[t] ELSE room.strays[t] - 1
             x == [room EXCEPT !.strays[t] = n]
             y == flushDataMessages(x, t)
  <2>1. n \in Nat BY <1>0, <1>2 DEF StrayTimer, Rooms
  <2>2. turn(y) /\ UNCHANGED <<owner, c2s, current, behind, throttle, bounds>>
    BY <1>2 DEF StrayTimer
  <2> HIDE DEF n
  <2>3. Good(x) /\ Kept(room, x, {}) BY <1>0, <2>1, StraysKeep
  <2> HIDE DEF x
  <2>4. Good(y) /\ Kept(x, y, {}) BY <2>3, FlushKeeps
  <2> HIDE DEF y
  <2>5. Kept(room, y, {}) BY <2>3, <2>4, KeptThrough
  <2>6. behind' \in BOOLEAN BY <2>2 DEF SessionInv, RoomInv
  <2>7. QED BY <2>2, <2>4, <2>5, <2>6, TurnEnds
<1>3. ASSUME NEW r, turnPruning(r), Good(r), Scheduled(r, {}), r.greeted = room.greeted,
             UNCHANGED <<owner, c2s, current, behind, bounds>>
      PROVE  SessionInv'
  <2>1. UNCHANGED <<owner, c2s, current, behind, sockets, pushes, troubles>> BY <1>3 DEF bounds
  <2>2. /\ Good(room)' /\ Scheduled(room, {})' /\ room'.closing = {} /\ room'.greeted \subseteq r.greeted
        /\ room'.pruneTimer = "fired" => throttle' = "pending"
        /\ throttle' \in {"idle", "quiet", "pending"}
        /\ readyState' \in [Socket -> {"unused", "open", "closing", "closed"}]
        /\ \A u \in Socket : readyState[u] = "unused" => readyState'[u] = "unused"
    BY <1>3, <2>1, TurnPruningKeeps DEF SessionInv, RoomInv
  <2>3. Sockets' BY <2>1, <2>2, ServerKeepsSockets DEF SessionInv, Sockets
  <2>4. QED BY <1>3, <2>1, <2>2, <2>3 DEF SessionInv, RoomInv
<1>4. CASE PruneTimer
  <2> DEFINE x == [room EXCEPT !.pruneTimer = "fired"]
  <2>1. turnPruning(x) /\ UNCHANGED <<owner, c2s, current, behind, bounds>> BY <1>4 DEF PruneTimer
  <2>2. /\ x.session = room.session /\ x.closing = room.closing /\ x.pruneTimer = "fired"
        /\ x.presence = room.presence /\ x.heard = room.heard /\ x.strays = room.strays
        /\ x.greeted = room.greeted /\ x.cheated = room.cheated /\ x.orphans = room.orphans
        /\ x.known = room.known /\ x \in Rooms
    BY <1>0 DEF Rooms
  <2> HIDE DEF x
  <2>3. Good(x)
    BY <1>0, <2>2 DEF Good, Base, Owned, Queues, Phases, Heard, Belongs, Mirrored, Shows, Shown, IsOpen
  <2>4. Scheduled(x, {}) BY <2>2 DEF Scheduled
  <2>5. QED BY <1>3, <2>1, <2>2, <2>3, <2>4
<1>5. CASE Interval
  BY <1>0, <1>3, <1>5 DEF Interval
<1>6. CASE ThrottleTimer
  <2>1. CASE throttle = "quiet"
    <3>1. throttle' = "idle" /\ UNCHANGED <<room, readyState, owner, c2s, current, behind, sockets, pushes, troubles>>
      BY <1>6, <2>1 DEF ThrottleTimer, bounds
    <3>2. Sockets' BY <3>1, ServerKeepsSockets DEF SessionInv, Sockets
    <3>3. RoomInv'
      <4>1. Good(room)' BY <1>0, <3>1, GoodUntouched
      <4>2. QED BY <2>1, <3>1, <4>1 DEF SessionInv, RoomInv, Scheduled
    <3>4. QED BY <3>2, <3>3 DEF SessionInv
  <2>2. CASE throttle = "pending"
    <3>1. throttle' = "quiet" /\ UNCHANGED <<owner, c2s, current, behind, sockets, pushes, troubles>>
      BY <1>6, <2>2 DEF ThrottleTimer, bounds
    <3>2. PICK x \in pruned(room) : turn(x) BY <1>6, <2>2 DEF ThrottleTimer
    <3>3. Good(x) /\ Scheduled(x, {}) /\ x.greeted = room.greeted /\ x.pruneTimer \in {"none", "set"}
      BY <1>0, <3>2, PrunedKeeps
    <3>4. /\ Good(room)' /\ Scheduled(room, {})' /\ room'.closing = {} /\ room'.greeted \subseteq x.greeted
          /\ room'.pruneTimer = x.pruneTimer
          /\ readyState' \in [Socket -> {"unused", "open", "closing", "closed"}]
          /\ \A u \in Socket : readyState[u] = "unused" => readyState'[u] = "unused"
      BY <3>1, <3>2, <3>3, TurnKeeps DEF SessionInv
    <3>5. Sockets' BY <3>1, <3>4, ServerKeepsSockets DEF SessionInv, Sockets
    <3>6. QED BY <3>1, <3>3, <3>4, <3>5 DEF SessionInv, RoomInv
  <2>3. QED BY <1>6, <2>1, <2>2 DEF ThrottleTimer
<1>7. QED BY <1>1, <1>2, <1>4, <1>5, <1>6 DEF Timers

LEMMA InitHolds == Init => SessionInv
<1> SUFFICES ASSUME Init PROVE SessionInv
  OBVIOUS
<1>1. 0 \in 0 .. MaxPushes /\ 0 \in 0 .. MaxSockets
  BY SessionsAssumption
<1>2. Sockets
  <2>1. \A s \in Socket : ~(s <= sockets)
    BY NoneIsNoSocket DEF Init, Socket
  <2>2. <<>> \in Seq(Message) OBVIOUS
  <2>3. QED BY <1>1, <2>1, <2>2 DEF Init, Sockets
<1>3. room = Room BY DEF Init
<1>4. Room \in Rooms
  <2>1. NoPresence \in [Socket -> 0 .. MaxPushes] BY <1>1 DEF NoPresence
  <2>2. [t \in Tab |-> NoSession] \in [Tab -> Session] /\ [t \in Tab |-> 0] \in [Tab -> Nat]
        /\ [s \in Socket |-> NoPresence] \in [Socket -> [Socket -> 0 .. MaxPushes]]
    BY <2>1, NoNewsIs
  <2>3. QED BY <2>1, <2>2 DEF Room, Rooms
<1>5. \A t \in Tab : /\ Room.session[t] = NoSession /\ NoSession.state = "none" /\ ~NoSession.debounce
                     /\ ~NoSession.queued /\ NoSession.outstanding = NoNews
  BY DEF Room, NoSession
<1>6. /\ Room.closing = {} /\ Room.greeted = {} /\ Room.pruneTimer = "none"
      /\ \A i \in Socket : Room.presence[i] = 0
  BY DEF Room, NoPresence
<1> HIDE DEF Init
<1>7. Base(Room)
  <2>1. Owned(Room) /\ Queues(Room) /\ Phases(Room) /\ Heard(Room)
    BY <1>5 DEF Owned, Queues, Phases, Heard
  <2>2. QED BY <1>4, <2>1 DEF Base
<1>8. Belongs(Room) /\ Mirrored(Room) /\ Scheduled(Room, {})
  BY <1>5, <1>6 DEF Belongs, Mirrored, Shows, Scheduled
<1>9. throttle = "idle" /\ behind = FALSE BY DEF Init
<1>10. QED BY <1>2, <1>3, <1>6, <1>7, <1>8, <1>9 DEF SessionInv, RoomInv, Good

LEMMA StepKeeps == SessionInv /\ [Next]_vars => SessionInv'
<1> SUFFICES ASSUME SessionInv, [Next]_vars PROVE SessionInv'
  OBVIOUS
<1>1. CASE Timers BY <1>1, TimersKeep
<1>2. CASE StorageMovesOn \/ broadcastExternalStorageChanges
  BY <1>2, StorageKeeps, ExternalKeeps
<1>3. ASSUME NEW t \in Tab, TabStep(t) PROVE SessionInv'
  BY <1>3, TabKeeps
<1>4. ASSUME NEW s \in Socket, Network(s) PROVE SessionInv'
  BY <1>4, CloseFrameKeeps, SocketClosesKeeps, ReceivesKeeps DEF Network
<1>5. CASE UNCHANGED vars
  <2>1. UNCHANGED <<room, readyState, owner, c2s, current, behind, throttle, sockets, pushes, troubles>>
    BY <1>5 DEF vars
  <2>2. Sockets' BY <2>1, ServerKeepsSockets DEF SessionInv, Sockets
  <2>3. RoomInv' BY <2>1, RoomUntouched DEF SessionInv, RoomInv
  <2>4. QED BY <2>2, <2>3 DEF SessionInv
<1>6. QED BY <1>1, <1>2, <1>3, <1>4, <1>5 DEF Next

\* The invariant the others follow from.
THEOREM SessionInvHolds == Spec => []SessionInv
  BY InitHolds, StepKeeps, PTL DEF Spec

LEMMA InvTypeOK == SessionInv => TypeOK
<1> SUFFICES ASSUME SessionInv PROVE TypeOK
  OBVIOUS
<1>1. room \in Rooms /\ Queues(room) BY DEF SessionInv, RoomInv, Good, Base
<1>2. \A t \in Tab : LET p == room.session[t]
                     IN  p.state # "connected" => ~p.debounce /\ ~p.queued /\ p.outstanding = NoNews
  BY <1>1 DEF Queues
<1>3. QED BY <1>1, <1>2 DEF TypeOK, Rooms, SessionInv, RoomInv, Sockets

LEMMA InvStranded == SessionInv => NothingStranded
<1> SUFFICES ASSUME SessionInv PROVE NothingStranded
  OBVIOUS
<1>1. room \in Rooms /\ Queues(room) /\ Scheduled(room, {}) BY DEF SessionInv, RoomInv, Good, Base
<1>2. room.pruneTimer \in {"none", "set", "fired"} BY <1>1 DEF Rooms
<1>3. QED BY <1>1, <1>2 DEF NothingStranded, SessionInv, RoomInv, Queues, Scheduled

LEMMA InvMirrored == SessionInv => PresenceMirrored
<1> SUFFICES ASSUME SessionInv, NEW t \in Tab, room.session[t].state = "connected",
                    readyState[room.session[t].socket] = "open",
                    room.session[t].socket \in room.greeted \ room.cheated
             PROVE  Over(room.session[t].outstanding, room.known[room.session[t].socket])
                      = [room.presence EXCEPT ![room.session[t].presenceId] = 0]
  BY DEF PresenceMirrored
<1> DEFINE p == room.session[t]
           k == Over(p.outstanding, room.known[p.socket])
           P == [room.presence EXCEPT ![p.presenceId] = 0]
<1>1. room \in Rooms /\ Good(room) /\ room.closing = {} BY DEF SessionInv, RoomInv, Good, Base
<1>2. p.socket \in Socket /\ p.presenceId \in Socket /\ p.outstanding \in News
      /\ room.known[p.socket] \in [Socket -> 0 .. MaxPushes]
  BY <1>1 DEF Good, Base, Owned, Rooms, Session, News
<1>3. k \in [Socket -> 0 .. MaxPushes] BY <1>2, OverIs
<1>4. \A i \in Socket : k[i] = Shown(room, t, i)
  BY <1>2, OverAt DEF Shown
<1>5. \A i \in Socket : Shown(room, t, i) = IF i = p.presenceId THEN 0 ELSE room.presence[i]
  BY <1>1 DEF Good, Mirrored, Shows, IsOpen
<1>6. /\ P \in [Socket -> 0 .. MaxPushes]
      /\ \A i \in Socket : P[i] = IF i = p.presenceId THEN 0 ELSE room.presence[i]
  BY <1>1, <1>2, SessionsAssumption DEF Rooms
<1> HIDE DEF k, P
<1>7. \A i \in Socket : k[i] = P[i] BY <1>4, <1>5, <1>6
<1>8. k = P BY <1>3, <1>6, <1>7
<1>9. QED BY <1>8 DEF k, P

LEMMA InvBelongs == SessionInv => PresenceBelongs /\ SpeakersAreHeard
  BY DEF SessionInv, RoomInv, Good, Base, Belongs, Heard, PresenceBelongs, SpeakersAreHeard

\* Types, and only a connected session has messages to send and a timer for them.
THEOREM TypeOKHolds == Spec => []TypeOK
  BY SessionInvHolds, InvTypeOK, PTL

\* No session waits for a removal that will not come, and no message for a flush:
\* through every order in which the loop of pruneSessions takes the sessions, and
\* however its timer, its throttle and the timers of replaced sessions fall.
THEOREM NothingStrandedHolds == Spec => []NothingStranded
  BY SessionInvHolds, InvStranded, PTL

\* Clients are told of each other what the room holds (broadcastPatch,
\* _unsafe_sendMessage, _flushDataMessages, handleConnectRequest).
THEOREM PresenceMirroredHolds == Spec => []PresenceMirrored
  BY SessionInvHolds, InvMirrored, PTL

\* No presence outlives its session, but for one pushed by the message that threw
\* the session out (removeSession, handlePushRequest).
THEOREM PresenceBelongsHolds == Spec => []PresenceBelongs
  BY SessionInvHolds, InvBelongs, PTL

\* The removal of a session never deafens the room to one that took its id
\* (handleSocketConnect, the listener of session_removed).
THEOREM SpeakersAreHeardHolds == Spec => []SpeakersAreHeard
  BY SessionInvHolds, InvBelongs, PTL
=============================================================================
