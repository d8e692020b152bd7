---------------------------- MODULE SyncProtocol ----------------------------
(***************************************************************************)
(* The sync protocol of packages/sync-core: TLSyncClient.ts edits a local  *)
(* store optimistically and rebases it on what the server says;            *)
(* TLSyncRoom.ts applies pushes to the storage and broadcasts what came of *)
(* them.  Every client has one socket at a time.  A browser tab keeps its  *)
(* session id over reconnects and TLSocketRoom never stops listening to a  *)
(* replaced socket, so what was in flight on an old socket may reach the   *)
(* tab's new session.                                                      *)
(*                                                                         *)
(* A record is a function from properties to values; diffs are given id by *)
(* id.  Presence, permissions, schema versions and read-only sessions are  *)
(* left out.  Messages stay in order on one socket, so a session's queue,  *)
(* the socket and the client's incomingDiffBuffer are one sequence, beside *)
(* which is kept how much of it is still in the queue.                     *)
(***************************************************************************)
EXTENDS SyncStorage, SequencesExt

CONSTANTS
  Client, Prop, Val,
  Setups           \* what a behaviour is asked to cover: see ProtocolAssumption

\* What a diff on the network does to one id.
Ops == [type : {"put"}, state : Value] \cup [type : {"remove"}, state : {Absent}]
         \cup [type : {"patch"}, state : [Prop -> Val \cup {Unchanged}]]

ASSUME ProtocolAssumption ==
  /\ Value = [Prop -> Val]
  /\ Unchanged \notin Val
  /\ Unchanged \notin Ops
  /\ \A u \in Setups :
       /\ u.warm \in BOOLEAN       \* whether every tab has connected already
       /\ u.editsLag \in BOOLEAN   \* whether edits wait for a frame before listeners see them
       /\ u.overlap \in BOOLEAN    \* whether a replaced socket may outlive the reconnect
       /\ u.together \in BOOLEAN   \* whether an edit sets all properties, or one
       /\ u.prunes \in BOOLEAN     \* whether the storage prunes its tombstones
       /\ {u.edits,                \* bounds: edits of all clients together,
           u.drops,                \* sockets lost for no reason of the protocol's,
           u.externals,            \* transactions of the host on the storage,
           u.connects}             \* and sockets a client opens
            \subseteq Nat

VARIABLES
  tab,                \* each tab's TLSyncClient and store
  session,            \* the room's sessions: "none", "awaiting" or "connected"
  lastDocumentClock,  \* the storage clock the room has told its sessions of
  c2s, s2c,           \* each tab's current socket, in each direction
  late,               \* what the server has yet to read from replaced sockets
  outstanding,        \* how many at the end of s2c are yet in a session's queue
  cheated, misled,    \* ghosts, see handleConnect and Flush
  setup, edits, drops, externals

serverVars == <<storageVars, session, lastDocumentClock>>
outbox     == <<s2c, outstanding, cheated>>
netVars    == <<c2s, outbox, late, misled>>
bounds     == <<setup, edits, drops, externals>>
vars       == <<tab, serverVars, netVars, bounds>>

-----------------------------------------------------------------------------
(* Diffs.  A RecordsDiff has an entry for each id; one id can be in two of *)
(* the three collections when changes are squashed that do not follow on   *)
(* from each other.                                                        *)

Same == [added |-> Absent, updated |-> <<>>, removed |-> Absent]

Entry(from, to) ==
  IF from = to THEN Same
  ELSE IF from = Absent THEN [Same EXCEPT !.added = to]
  ELSE IF to = Absent THEN [Same EXCEPT !.removed = from]
  ELSE [Same EXCEPT !.updated = <<from, to>>]

NoDiff == [id \in RecordId |-> Same]

Changes(s, t) == [id \in RecordId |-> Entry(s[id], t[id])]

\* squashRecordDiffs for one id: d, then the single change e.  What was added
\* and removed again is dropped; an update that was taken back stays.
squash(d, e) ==
  IF e = Same THEN d
  ELSE IF e.added # Absent
  THEN IF d.removed = Absent THEN [d EXCEPT !.added = e.added]
       ELSE [d EXCEPT !.removed = Absent, !.updated = <<d.removed, e.added>>]
  ELSE IF e.updated # <<>>
  THEN IF d.added # Absent THEN [Same EXCEPT !.added = e.updated[2]]
       ELSE [Same EXCEPT !.updated = <<(IF d.updated = <<>> THEN e ELSE d).updated[1], e.updated[2]>>]
  ELSE IF d.added # Absent THEN [d EXCEPT !.added = Absent]
  ELSE [Same EXCEPT !.removed = IF d.updated = <<>> THEN e.removed ELSE d.updated[1]]

Squash(d, e) == [id \in RecordId |-> squash(d[id], e[id])]

\* applyDiff(reverseRecordsDiff(d)): puts what was removed, then what was
\* updated, and removes what was added.
Undo(s, d) ==
  [id \in RecordId |->
     IF d[id].added # Absent THEN Absent
     ELSE IF d[id].updated # <<>> THEN d[id].updated[1]
     ELSE IF d[id].removed # Absent THEN d[id].removed
     ELSE s[id]]

\* A NetworkDiff that does nothing.
NoOps == [id \in RecordId |-> Unchanged]

\* getNetworkDiff: put, patch and remove, the last of an id's ops winning.
NetworkDiff(d) ==
  LET patch(f, t) == [p \in Prop |-> IF f[p] = t[p] THEN Unchanged ELSE t[p]]
      op(e) ==
        IF e.removed # Absent THEN [type |-> "remove", state |-> Absent]
        ELSE IF e.updated # <<>> /\ e.updated[1] # e.updated[2]
        THEN [type |-> "patch", state |-> patch(e.updated[1], e.updated[2])]
        ELSE IF e.added # Absent THEN [type |-> "put", state |-> e.added]
        ELSE Unchanged
  IN  [id \in RecordId |-> op(d[id])]

\* toNetworkDiff of the change feed.
ForwardDiff(f) ==
  [id \in RecordId |->
     IF f[id] = Unchanged THEN Unchanged
     ELSE [type |-> IF f[id] = Absent THEN "remove" ELSE "put", state |-> f[id]]]

\* applyNetworkDiff: a patch of a record that is gone is skipped.
Apply(s, nd) ==
  [id \in RecordId |->
     IF nd[id] = Unchanged THEN s[id]
     ELSE IF nd[id].type # "patch" THEN nd[id].state
     ELSE IF s[id] = Absent THEN Absent
     ELSE [p \in Prop |-> IF nd[id].state[p] = Unchanged THEN s[id][p] ELSE nd[id].state[p]]]

\* Applying network diffs in turn, and the squashed changes that makes.
Reapplied(s, nds) ==
  LET step(acc, nd) == [at |-> Apply(acc.at, nd),
                        diff |-> Squash(acc.diff, Changes(acc.at, Apply(acc.at, nd)))]
  IN  FoldLeft(step, [at |-> s, diff |-> NoDiff], nds)

-----------------------------------------------------------------------------
(* Messages.                                                               *)

ConnectRequest(k)  == [type |-> "connect", requestId |-> k.requestId, clock |-> k.lastServerClock]
Push(number, nd)   == [type |-> "push", clientClock |-> number, diff |-> nd]
Close              == [type |-> "close"]

ConnectReply(id, wipe, nd, clock) ==
  [type |-> "connect", requestId |-> id, wipeAll |-> wipe, diff |-> nd, serverClock |-> clock]
Patch(nd, clock) == [type |-> "patch", diff |-> nd, serverClock |-> clock]
PushResult(number, action, nd, clock) ==
  [type |-> "push_result", clientClock |-> number, action |-> action, diff |-> nd, serverClock |-> clock]

-----------------------------------------------------------------------------
(* The client.  Each operator is what a method does to a tab k.            *)

\* A tab's fields; "connecting" is between connect and its reply.
Tab(records, clock, state, id) ==
  [store |-> records,
   unflushed |-> <<>>,        \* user edits the store's history has yet to report
   speculative |-> NoDiff,    \* speculativeChanges
   nextDiff |-> NoDiff,       \* unsentChanges.nextDiff
   pending |-> <<>>,          \* pendingPushRequests
   clientClock |-> 0, lastServerClock |-> clock, status |-> state, requestId |-> id]

\* What the store's history reports joins the speculative changes and, on a
\* connected client, the next push request.
push(k, d) ==
  [k EXCEPT !.speculative = Squash(@, d),
            !.nextDiff = IF k.status = "connected" THEN Squash(@, d) ELSE @]

\* The reports of user edits, in order.
flushHistory(k) == [FoldLeft(push, k, k.unflushed) EXCEPT !.unflushed = <<>>]

sendUnsentChanges(k) ==
  LET nd == NetworkDiff(k.nextDiff)
  IN  IF k.status # "connected" \/ nd = NoOps THEN k
      ELSE [k EXCEPT !.pending = Append(@, Push(k.clientClock, nd)),
                     !.clientClock = @ + 1,
                     !.nextDiff = NoDiff]

\* Mutants: the unanswered pushes survive the connection; the speculative
\* changes do not.
resetConnectionKeeping(k)   == [k EXCEPT !.status = "offline", !.nextDiff = NoDiff]
resetConnectionForgetting(k) ==
  [k EXCEPT !.status = "offline", !.pending = <<>>, !.nextDiff = NoDiff, !.speculative = NoDiff]

\* What is queued is forgotten; it is still among the speculative changes.
resetConnection(k) == [k EXCEPT !.status = "offline", !.pending = <<>>, !.nextDiff = NoDiff]

\* What a client makes of a connect reply: it undoes the speculative changes
\* (or wipes the documents), applies the reply, and re-applies them.  Edits not
\* yet reported stay so; later ones are reported apart from them.
rehydrated(k, msg) ==
  LET base  == Apply(IF msg.wipeAll THEN NoRecords ELSE Undo(k.store, k.speculative), msg.diff)
      again == Reapplied(base, <<NetworkDiff(k.speculative)>>)
  IN  [k EXCEPT !.status = "connected", !.lastServerClock = msg.serverClock,
                !.store = again.at, !.speculative = again.diff,
                !.unflushed = IF @ = <<>> THEN <<>> ELSE Append(@, NoDiff)]

\* Mutant: what was re-applied is not pushed.
didReconnectSilently(k, msg) == rehydrated(k, msg)

didReconnect(k, msg) ==
  LET again == rehydrated(k, msg)
  IN  [again EXCEPT !.nextDiff = again.speculative]

\* Mutant: a commit only takes the push off the queue.
settledLater(at, msg, diff) == IF msg.action = "rebase" THEN Apply(at, msg.diff) ELSE at

\* What a push result leaves of the oldest unanswered push.
settled(at, msg, diff) ==
  CASE msg.action = "commit"  -> Apply(at, diff)
    [] msg.action = "rebase"  -> Apply(at, msg.diff)
    [] msg.action = "discard" -> at

\* The server state the client holds after one more data message, and the
\* pushes still unanswered; not ok if a result is not for the oldest of them.
receive(acc, msg) ==
  IF msg.type = "patch" THEN [acc EXCEPT !.at = Apply(@, msg.diff)]
  ELSE IF acc.pending = <<>> \/ Head(acc.pending).clientClock # msg.clientClock
  THEN [acc EXCEPT !.ok = FALSE]
  ELSE [acc EXCEPT !.pending = Tail(@), !.at = settled(@, msg, Head(acc.pending).diff)]

\* The speculative changes undone, the data messages applied, and what is
\* still unanswered or unsent re-applied.
rebased(k, msgs) ==
  LET start == [at |-> Undo(k.store, k.speculative), pending |-> k.pending, ok |-> TRUE]
      got   == FoldLeft(receive, start, msgs)
      redo  == [i \in 1 .. Len(got.pending) |-> got.pending[i].diff]
                 \o <<NetworkDiff(k.nextDiff)>>
      again == Reapplied(got.at, redo)
  IN  IF ~got.ok THEN resetConnection(k)
      ELSE [k EXCEPT !.store = again.at, !.speculative = again.diff, !.pending = got.pending,
                     !.lastServerClock = Last(msgs).serverClock]

rebase(k, msgs) == IF msgs = <<>> THEN k ELSE rebased(flushHistory(k), msgs)

\* The client's own steps, and what they do to its socket.

\* The user changes one record of a loaded store: creates it, removes it or
\* sets one property, or all of them to the same.
Written == IF setup.together THEN {r \in Value : \A p, q \in Prop : r[p] = r[q]} ELSE Value

Edit(c) ==
  \E id \in RecordId, to \in Written \cup {Absent} :
    LET old == tab[c].store[id]
        d   == [NoDiff EXCEPT ![id] = Entry(old, to)]
        k   == [tab[c] EXCEPT !.store[id] = to,
                              !.unflushed = IF @ = <<>> THEN <<d>>
                                            ELSE Append(Front(@), Squash(Last(@), d))]
    IN  /\ edits < setup.edits /\ edits' = edits + 1
        /\ tab[c].lastServerClock >= 0
        /\ to # old
        /\ old # Absent /\ to # Absent /\ ~setup.together => \E p \in Prop : \A q \in Prop \ {p} : old[q] = to[q]
        /\ tab' = [tab EXCEPT ![c] = IF setup.editsLag THEN k ELSE flushHistory(k)]
        /\ UNCHANGED <<serverVars, netVars, setup, drops, externals>>

\* The history reactor's next frame.
FlushHistory(c) ==
  /\ tab[c].unflushed # <<>>
  /\ tab' = [tab EXCEPT ![c] = flushHistory(@)]
  /\ UNCHANGED <<serverVars, netVars, bounds>>

\* What the room has sent a tab.
onWire(c) == SubSeq(s2c[c], 1, Len(s2c[c]) - outstanding[c])

\* A socket is given up: what was sent on it may yet be read, and the server
\* learns of the close after that.
LoseSocket(c, sent) ==
  /\ late' = [late EXCEPT ![c] = @ \o c2s[c] \o sent \o <<Close>>]
  /\ c2s' = [c2s EXCEPT ![c] = <<>>]
  /\ s2c' = [s2c EXCEPT ![c] = <<>>]
  /\ outstanding' = [outstanding EXCEPT ![c] = 0]
  /\ cheated' = cheated \ {c}

\* Messages that came out of a client's step from k to l.
sentBy(k, l) == IF l.clientClock = k.clientClock THEN <<>> ELSE <<Last(l.pending)>>

\* The network scheduler's frame: it sends what is unsent and rebases on the
\* n messages that have arrived, in the order these were first asked for.  A
\* tab that reads on past messages it was cheated of is misled.
Flush(c, n) ==
  LET msgs == SubSeq(s2c[c], 1, n)
      finish(k, sent) ==
        /\ tab' = [tab EXCEPT ![c] = k]
        /\ IF k.status = "offline" THEN LoseSocket(c, sent) /\ UNCHANGED misled
           ELSE /\ c2s' = [c2s EXCEPT ![c] = @ \o sent]
                /\ s2c' = [s2c EXCEPT ![c] = SubSeq(@, n + 1, Len(@))]
                /\ misled' = IF c \in cheated /\ n > 0 THEN misled \cup {c} ELSE misled
                /\ UNCHANGED <<late, outstanding, cheated>>
  IN  /\ tab[c].status = "connected"
      /\ \A i \in 1 .. n : msgs[i].type # "connect"
      /\ \/ LET k == sendUnsentChanges(tab[c])
            IN  finish(rebase(k, msgs), sentBy(tab[c], k))
         \/ LET k == rebase(tab[c], msgs)
            IN  finish(sendUnsentChanges(k), sentBy(k, sendUnsentChanges(k)))
      /\ UNCHANGED <<serverVars, bounds>>

Drop(c) ==
  /\ drops < setup.drops /\ drops' = drops + 1
  /\ tab[c].status # "offline"
  /\ tab' = [tab EXCEPT ![c] = resetConnection(@)]
  /\ LoseSocket(c, <<>>)
  /\ UNCHANGED <<serverVars, misled, setup, edits, externals>>

\* The room has closed the socket.
SeeClose(c) ==
  /\ tab[c].status # "offline" /\ session[c] = "none"
  /\ tab' = [tab EXCEPT ![c] = resetConnection(@)]
  /\ LoseSocket(c, <<>>)
  /\ UNCHANGED <<serverVars, misled, bounds>>

\* A new socket: handleNewSession replaces the tab's session, and
\* sendConnectMessage asks for what happened since lastServerClock.
Reconnect(c) ==
  LET k == [tab[c] EXCEPT !.status = "connecting", !.requestId = @ + 1]
  IN  /\ tab[c].status = "offline" /\ k.requestId <= setup.connects
      /\ setup.overlap \/ late[c] = <<>>
      /\ tab' = [tab EXCEPT ![c] = k]
      /\ c2s' = [c2s EXCEPT ![c] = <<ConnectRequest(k)>>]
      /\ session' = [session EXCEPT ![c] = "awaiting"]
      /\ UNCHANGED <<storageVars, lastDocumentClock, outbox, late, misled, bounds>>

\* The head of the incoming messages, when it is not data for a connected
\* client: replies to an old request and early data are ignored.  Nothing that
\* misled a tab outlives a wipe.
ReadHead(c) ==
  LET msg == Head(s2c[c])
      expected == /\ msg.type = "connect" /\ msg.requestId = tab[c].requestId
                  /\ tab[c].status = "connecting"
  IN  /\ onWire(c) # <<>>
      /\ msg.type = "connect" \/ tab[c].status = "connecting"
      /\ tab' = [tab EXCEPT ![c] = IF expected THEN didReconnect(@, msg) ELSE @]
      /\ s2c' = [s2c EXCEPT ![c] = Tail(@)]
      /\ misled' = IF expected /\ msg.wipeAll THEN misled \ {c} ELSE misled
      /\ UNCHANGED <<serverVars, c2s, late, outstanding, cheated, bounds>>

-----------------------------------------------------------------------------
(* The room.                                                               *)

\* broadcastChanges: what the host changed since the room last looked goes to
\* everyone first; if tombstones are missing everyone is thrown out instead.
mustReconnect == lastDocumentClock # documentClock /\ wipeAll(lastDocumentClock)
Connected(c)  == session[c] = "connected" /\ ~mustReconnect

\* Mutant: the room takes note of the changes and tells nobody.
newsForgotten == <<>>

news ==
  IF lastDocumentClock = documentClock THEN <<>>
  ELSE <<Patch(ForwardDiff(changesSince(lastDocumentClock)), documentClock)>>

\* A socket the client has already left takes messages nowhere.
hears(c) == Connected(c) /\ tab[c].status # "offline"

\* A session's first data message is sent at once and starts its debounceTimer;
\* those that come while it runs are queued (_unsafe_sendMessage).  Presence
\* patches start it too, so with nothing queued it may be running or not.  Where
\* no session is replaced while it is connected the queue is as good as sent.
timers == IF setup.overlap
          THEN {t \in SUBSET Client : \A c \in Client : outstanding[c] > 0 => c \in t}
          ELSE {{}}

\* What c's session has queued after m more data messages.
queued(c, m, running) == IF c \in running THEN outstanding[c] + m
                         ELSE IF setup.overlap /\ m > 0 THEN m - 1 ELSE 0

\* Every connected session gets the news and then its own messages.
broadcast(messages) ==
  \E running \in timers :
    /\ s2c' = [c \in Client |-> IF hears(c) THEN s2c[c] \o news \o messages[c] ELSE s2c[c]]
    /\ outstanding' = [c \in Client |->
         IF hears(c) THEN queued(c, Len(news \o messages[c]), running) ELSE outstanding[c]]
    /\ UNCHANGED cheated

nothing == [c \in Client |-> <<>>]

\* The room's own records of what it has told the sessions.
catchUp ==
  /\ session' = [c \in Client |-> IF mustReconnect THEN "none" ELSE session[c]]
  /\ lastDocumentClock' = documentClock
  /\ UNCHANGED storageVars

\* Whether the request the tab sent on its socket has been answered.
answered(c) ==
  \/ tab[c].status = "connected"
  \/ \E i \in DOMAIN s2c[c] : s2c[c][i].type = "connect" /\ s2c[c][i].requestId = tab[c].requestId

\* handleConnectRequest.  If everyone has to reconnect that includes the one
\* who is connecting: its socket is closed before the reply.  The reply comes
\* from a new session object: what the one it replaces has queued, the news of
\* this very call included, is lost with it.  That cheats the tab of it once its
\* own request has been answered: the reply it waits for would make up for it.
handleConnect(c, msg) ==
  LET upToDate == msg.clock = documentClock
      reply == ConnectReply(msg.requestId, ~upToDate /\ wipeAll(msg.clock),
                 IF upToDate THEN NoOps ELSE ForwardDiff(changesSince(msg.clock)),
                 documentClock)
      told(x) == IF hears(x) THEN s2c[x] \o news ELSE s2c[x]
      left(x, running) == IF hears(x) THEN queued(x, Len(news), running) ELSE outstanding[x]
  IN  IF mustReconnect THEN catchUp /\ UNCHANGED outbox ELSE
      /\ session' = [session EXCEPT ![c] = "connected"]
      /\ \E running \in timers :
           LET lost == left(c, running)
           IN  /\ s2c' = [x \in Client |->
                    IF x # c \/ tab[c].status = "offline" THEN told(x)
                    ELSE SubSeq(told(c), 1, Len(told(c)) - lost) \o <<reply>>]
               /\ outstanding' = [x \in Client |-> IF x = c THEN 0 ELSE left(x, running)]
               /\ cheated' = IF lost > 0 /\ answered(c) THEN cheated \cup {c} ELSE cheated
      /\ lastDocumentClock' = documentClock
      /\ UNCHANGED storageVars

\* What the sender of a push is told: that all of it was stored, none of it,
\* or what it came to.
result(msg, actual) ==
  CASE actual = msg.diff -> PushResult(msg.clientClock, "commit", NoOps, documentClock')
    [] actual # msg.diff /\ actual = NoOps ->
         PushResult(msg.clientClock, "discard", NoOps, documentClock')
    [] OTHER -> PushResult(msg.clientClock, "rebase", actual, documentClock')

\* Mutant: a push that changes nothing is not answered.
answerChanges(msg, actual) == IF actual = NoOps THEN <<>> ELSE <<result(msg, actual)>>

answer(msg, actual) == <<result(msg, actual)>>

\* handlePushRequest: the ops that change something are stored; the sender
\* gets its result and the others get the ops.
handlePush(c, msg) ==
  LET after  == Apply(documents, msg.diff)
      actual == NetworkDiff(Changes(documents, after))
      stored == {id \in RecordId : after[id] # documents[id] /\ after[id] # Absent}
  IN  IF session[c] # "connected" THEN UNCHANGED <<serverVars, outbox>> ELSE
      /\ transaction([id \in stored |-> after[id]],
                     {id \in RecordId : documents[id] # Absent /\ after[id] = Absent})
      /\ lastDocumentClock' = documentClock'
      /\ session' = [x \in Client |-> IF mustReconnect THEN "none" ELSE session[x]]
      /\ broadcast([x \in Client |-> IF x = c THEN answer(msg, actual)
                                     ELSE IF actual = NoOps THEN <<>>
                                     ELSE <<Patch(actual, documentClock')>>])

handleClose(c) ==
  /\ session' = [session EXCEPT ![c] = "none"]
  /\ UNCHANGED <<storageVars, lastDocumentClock, outbox>>

\* A session that is gone is not answered; one still awaiting its removal
\* makes the room look at the storage all the same.
handleMessage(c, msg) ==
  \/ msg.type = "connect" /\ session[c] # "none" /\ handleConnect(c, msg)
  \/ msg.type = "connect" /\ session[c] = "none" /\ UNCHANGED <<serverVars, outbox>>
  \/ msg.type = "connect" /\ session[c] = "none" /\ catchUp /\ broadcast(nothing)
  \/ msg.type = "push" /\ handlePush(c, msg)
  \/ msg.type = "close" /\ handleClose(c)

ReadSocket(c) ==
  /\ c2s[c] # <<>>
  /\ handleMessage(c, Head(c2s[c]))
  /\ c2s' = [c2s EXCEPT ![c] = Tail(@)]
  /\ UNCHANGED <<tab, late, misled, bounds>>

\* A replaced socket speaks, or closes: the room takes it for the tab's
\* current session.
ReadReplacedSocket(c) ==
  /\ late[c] # <<>>
  /\ handleMessage(c, Head(late[c]))
  /\ late' = [late EXCEPT ![c] = Tail(@)]
  /\ UNCHANGED <<tab, c2s, misled, bounds>>

\* The debounceTimer: what is queued is sent, unless the session is gone.
FlushDataMessages(c) ==
  /\ session[c] = "connected" /\ outstanding[c] > 0
  /\ outstanding' = [outstanding EXCEPT ![c] = 0]
  /\ UNCHANGED <<tab, serverVars, c2s, s2c, late, cheated, misled, bounds>>

\* The host changes the documents behind the room's back.
HostTransaction ==
  /\ externals < setup.externals /\ externals' = externals + 1
  /\ \E id \in RecordId :
       \/ \E r \in Value \ {documents[id]} : transaction([i \in {id} |-> r], {})
       \/ documents[id] # Absent /\ transaction([i \in {} |-> Absent], {id})
  /\ UNCHANGED <<tab, session, lastDocumentClock, netVars, setup, edits, drops>>

\* The storage's onChange microtask.
broadcastExternalStorageChanges ==
  /\ lastDocumentClock # documentClock
  /\ catchUp /\ broadcast(nothing)
  /\ UNCHANGED <<tab, c2s, late, misled, bounds>>

Prune ==
  /\ setup.prunes
  /\ pruneTombstones
  /\ UNCHANGED <<tab, session, lastDocumentClock, netVars, bounds>>

-----------------------------------------------------------------------------

Fresh ==
  /\ storageInit
  /\ lastDocumentClock = documentClock
  /\ c2s = nothing /\ s2c = nothing /\ late = nothing
  /\ outstanding = [c \in Client |-> 0] /\ cheated = {} /\ misled = {}
  /\ edits = 0 /\ drops = 0 /\ externals = 0

\* Empty tabs that have yet to connect.
ColdInit ==
  /\ tab = [c \in Client |-> Tab(NoRecords, -1, "offline", 0)]
  /\ session = [c \in Client |-> "none"]

\* The same once every tab has connected: where the larger setups begin.
WarmInit ==
  /\ tab = [c \in Client |-> Tab(documents, documentClock, "connected", 1)]
  /\ session = [c \in Client |-> "connected"]

Init ==
  /\ Fresh
  /\ setup \in Setups
  /\ IF setup.warm THEN WarmInit ELSE ColdInit

TabStep(c) ==
  \/ FlushHistory(c) \/ SeeClose(c) \/ Reconnect(c) \/ ReadHead(c)
  \/ \E n \in 0 .. Len(onWire(c)) : Flush(c, n)

RoomStep(c) == ReadSocket(c) \/ ReadReplacedSocket(c) \/ FlushDataMessages(c)

Next ==
  \/ \E c \in Client : Edit(c) \/ Drop(c) \/ TabStep(c) \/ RoomStep(c)
  \/ HostTransaction \/ broadcastExternalStorageChanges \/ Prune

Spec == Init /\ [][Next]_vars

\* Sockets deliver, the room reads, and a tab's frames and its reconnect
\* timer come; whether the user edits, a socket drops, the host writes or the
\* storage prunes is nobody's duty.
Fairness ==
  /\ \A c \in Client : /\ WF_vars(TabStep(c)) /\ WF_vars(FlushDataMessages(c))
                        /\ WF_vars(ReadSocket(c)) /\ WF_vars(ReadReplacedSocket(c))
  /\ WF_vars(broadcastExternalStorageChanges)

FairSpec == Spec /\ Fairness

-----------------------------------------------------------------------------
(* Properties.                                                             *)

\* Types, and what a tab keeps: the queue of unanswered pushes is in the order
\* they were numbered, and a tab that is not connected has nothing queued and
\* nothing to receive (resetConnection, TLSyncClient.ts:708-730).
syncTypeOK ==
  /\ storageTypeOK /\ lastDocumentClock <= documentClock
  /\ session \in [Client -> {"none", "awaiting", "connected"}]
  /\ \A c \in Client : LET k == tab[c] IN
       /\ k.status \in {"offline", "connecting", "connected"}
       /\ k.store \in [RecordId -> Value \cup {Absent}]
       /\ k.lastServerClock \in -1 .. documentClock
       /\ \A i \in 1 .. Len(k.pending) :
            /\ k.pending[i].clientClock < k.clientClock
            /\ i > 1 => k.pending[i - 1].clientClock < k.pending[i].clientClock
       /\ k.status # "connected" => k.pending = <<>> /\ k.nextDiff = NoDiff
       /\ k.status = "offline" => c2s[c] = <<>> /\ s2c[c] = <<>>
  /\ cheated \cup misled \subseteq Client
  /\ \A c \in Client : outstanding[c] \in 0 .. Len(s2c[c])

\* "If we take this diff, reverse it, and apply that to the store, our store
\* will match exactly the most recent state of the server that we know about"
\* (speculativeChanges, TLSyncClient.ts:389-393), whenever the store's history
\* has been flushed: over rebases, resets, reconnects and what replaced sockets
\* deliver.  It is not so of a misled tab: its room lost patches queued for it
\* (TLSyncRoom.ts:1104), and lastServerClock has moved past them.
SpeculativeUndone ==
  \A c \in Client \ misled : tab[c].lastServerClock >= 0 /\ tab[c].unflushed = <<>> =>
    Undo(tab[c].store, tab[c].speculative) = history[tab[c].lastServerClock]

\* A connected client that has heard the answers to all its pushes shows nothing
\* ahead of the server that is not in its next push.  (While a push waits, a
\* record can be orphaned: an edit that is taken back, overtaken by the server
\* and made again cancels out in nextDiff and not in speculativeChanges.  When
\* edits lag it can stay so.)
OptimisticMeansQueued ==
  \A c \in Client, id \in RecordId :
    LET k == tab[c]
    IN  ~setup.editsLag /\ k.status = "connected" /\ NetworkDiff(k.speculative)[id] # Unchanged =>
          k.nextDiff[id] # Same \/ k.pending # <<>>

\* A push is answered exactly once and in order while its socket lasts: of what
\* waits in pendingPushRequests the server has yet to read the end, and each of
\* the others has one result on the way (TLSyncClient.ts:978-997), unless a late
\* connect request made the room lose some of what it had queued for the tab.
PushesAnswered ==
  \A c \in Client \ cheated : tab[c].status = "connected" /\ session[c] = "connected" =>
    LET waiting == tab[c].pending
        read    == Len(waiting) - Len(c2s[c])
        answers(j, i) == /\ s2c[c][j].type = "push_result"
                         /\ s2c[c][j].clientClock = waiting[i].clientClock
    IN  /\ read >= 0
        /\ c2s[c] = SubSeq(waiting, read + 1, Len(waiting))
        /\ \E at \in [1 .. read -> DOMAIN s2c[c]] :
             /\ \A i, l \in 1 .. read : i < l => at[i] < at[l]
             /\ \A i \in DOMAIN waiting, j \in DOMAIN s2c[c] :
                  answers(j, i) <=> i <= read /\ at[i] = j

Idle(c) ==
  /\ tab[c].status = "connected" /\ session[c] = "connected"
  /\ c2s[c] = <<>> /\ s2c[c] = <<>> /\ tab[c].pending = <<>> /\ tab[c].unflushed = <<>>

\* A connected client that has nothing to send and nothing to receive shows
\* what is stored, unless the room has lost what it had queued for it (and when
\* edits lag, unless it lost one of its own: see OptimisticMeansQueued).
IdleMeansSynced ==
  \A c \in Client \ (cheated \cup misled) :
    ~setup.editsLag /\ Idle(c) /\ tab[c].nextDiff = NoDiff /\ lastDocumentClock = documentClock
      => tab[c].store = documents

\* "All stores should be the same" once every client is online and every
\* message is delivered (syncFuzz.test.ts:218, 248): here, once everyone is
\* idle and no client would send anything if it were given another frame.
AllStoresTheSame ==
  (\A c \in Client : Idle(c) /\ NetworkDiff(tab[c].nextDiff) = NoOps)
    => \A c, d \in Client : tab[c].store = tab[d].store

\* When editing and trouble stop, everyone ends up with what is stored, except
\* a tab left holding a taken-back edit it will not send (see AllStoresTheSame).
Converges ==
  <>[] \A c \in Client : tab[c].nextDiff = NoDiff => tab[c].store = documents /\ Idle(c)
=============================================================================
