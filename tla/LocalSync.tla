----------------------------- MODULE LocalSync -----------------------------
(***************************************************************************)
(* How the tabs of one browser keep a board on disk                        *)
(* (packages/editor/src/lib/utils/sync/TLLocalSyncClient.ts and            *)
(* LocalIndexedDb.ts).  Every tab has the whole document in memory, tells  *)
(* the others of its edits over a broadcast channel, and writes its own    *)
(* edits, throttled, to the one IndexedDB database they share.             *)
(*                                                                         *)
(* Of a record there is kept which edit wrote or deleted it last, 0 if     *)
(* none did.  The database runs its transactions one after the other,      *)
(* each of them whole or not at all.  A tab may be closed by its app,      *)
(* unloaded, or killed; its page may be an older release than another's.   *)
(*                                                                         *)
(* There is one person at the keyboard: a tab has heard of what was done   *)
(* in the others before they do something in it, and its throttle is       *)
(* longer than a message takes.  Records two tabs edit at once are kept    *)
(* apart by nothing in this code.                                          *)
(***************************************************************************)
EXTENDS Naturals, Sequences, FiniteSetsExt

CONSTANTS
  Tab, Record,
  None,           \* no tab: a write whose tab is gone
  MaxEdits,       \* bound on the edits
  MaxOpens,       \* bound on the tabs opened
  MaxTroubles     \* bound on failing writes, kills and unloads, and on newer releases

ASSUME LocalAssumption ==
  /\ None \notin Tab
  /\ {MaxEdits, MaxOpens, MaxTroubles} \subseteq Nat

VARIABLES
  tab,        \* every tab's page
  inbox,      \* messages of the channel that a tab has yet to handle
  disk,       \* the records stored
  idb,        \* the database's transactions, first come first served
  release,    \* the schema version a page loads with
  edits, opens, troubles,
  latest,     \* ghost: the last edit of each record
  lost        \* ghost: records whose last edit the code gives up, see GivenUp and Missed

vars == <<tab, inbox, disk, idb, release, edits, opens, troubles, latest, lost>>
ghosts == <<latest, lost>>
bounds == <<edits, opens, troubles>>

Content == [Record -> 0 .. MaxEdits]
Changes == UNION {[R -> 0 .. MaxEdits] : R \in SUBSET Record}
NoChanges == [r \in {} |-> 0]
Over(c, d) == [r \in DOMAIN c \cup DOMAIN d |-> IF r \in DOMAIN c THEN c[r] ELSE d[r]]

Empty == [r \in Record |-> 0]

\* unheard: changes the store's listeners hear of in the next frame; queue:
\* diffQueue, squashed, and whether it holds anything; timer:
\* scheduledPersistTimeout; leaving: the page was told to reload.
NoTab == [phase |-> "closed", version |-> 0, store |-> Empty, unheard |-> NoChanges,
          queue |-> NoChanges, queued |-> FALSE, shouldDoFullDBWrite |-> TRUE, isPersisting |-> FALSE,
          timer |-> FALSE, isReloading |-> FALSE, leaving |-> FALSE]

\* "loading": load() runs; "loaded": onmessage is set; "closing": close() waits
\* for the write in flight; "flushing": close() waits for its own.
Phases == {"closed", "loading", "loaded", "closing", "flushing"}
IsOpen(t) == tab[t].phase # "closed"

-----------------------------------------------------------------------------
(* The database.                                                           *)

reading(t) == [tab |-> t, kind |-> "read", data |-> NoChanges]

\* Mutant: a write in flight is not looked at.
PersistsAnyway(p) == ~p.isReloading /\ (p.shouldDoFullDBWrite \/ p.queued)

\* persistIfNeeded has something to do, and may do it.
Persists(p) ==
  /\ ~p.isPersisting /\ ~p.isReloading
  /\ p.shouldDoFullDBWrite \/ p.queued

\* persistIfNeeded, and doPersist up to its await: the diff queue is emptied at
\* once.
persistIfNeeded(p) ==
  IF Persists(p)
  THEN [p EXCEPT !.timer = FALSE, !.isPersisting = TRUE, !.shouldDoFullDBWrite = FALSE,
                 !.queue = NoChanges, !.queued = FALSE]
  ELSE [p EXCEPT !.timer = FALSE]

\* The write it starts.
writes(t, p) ==
  IF ~Persists(p) THEN <<>>
  ELSE IF p.shouldDoFullDBWrite THEN <<[tab |-> t, kind |-> "snapshot", data |-> p.store]>>
  ELSE <<[tab |-> t, kind |-> "changes", data |-> p.queue]>>

\* flushAndDispose: a write in flight is waited for, then another is done for
\* what came in since.
flushAndDispose(p) ==
  IF p.isPersisting THEN [p EXCEPT !.phase = "closing"]
  ELSE IF Persists(p) THEN [persistIfNeeded(p) EXCEPT !.phase = "flushing"]
  ELSE NoTab

\* What a write's end lets happen.
finished(p) ==
  IF p.phase = "closing" THEN flushAndDispose(p)
  ELSE IF p.phase = "flushing" THEN NoTab
  ELSE p

finishes(t, p) ==
  /\ tab' = [tab EXCEPT ![t] = finished(p)]
  /\ idb' = Tail(idb) \o IF p.phase = "closing" THEN writes(t, p) ELSE <<>>

\* Mutant: a change that came in during the write waits for the next one.
persistedQuietly(p) == [p EXCEPT !.isPersisting = FALSE]

\* The end of doPersist, which asks for another persist.
persisted(p) == [p EXCEPT !.isPersisting = FALSE, !.timer = TRUE]

\* Mutant: what the failed write held is forgotten.
failedForgetting(p) == [persisted(p) EXCEPT !.leaving = TRUE]

\* The catch of doPersist: the diffs are gone, so the next write is a full one,
\* and the page is told to reload.
failed(p) == [persisted(p) EXCEPT !.shouldDoFullDBWrite = TRUE, !.leaving = TRUE]

\* What will be stored of a record once the transactions of a queue have run.
Stored(r, queue) ==
  LET W == {i \in DOMAIN queue : r \in DOMAIN queue[i].data}
  IN  IF W = {} THEN disk[r] ELSE queue[Max(W)].data[r]

\* t's page has the last edit of a record to write.  A page that is to reload for
\* a newer one writes nothing any more.
Pending(t, r) ==
  /\ ~tab[t].isReloading
  /\ \/ r \in DOMAIN tab[t].unheard /\ tab[t].unheard[r] = latest[r]
     \/ r \in DOMAIN tab[t].queue /\ tab[t].queue[r] = latest[r]
     \/ /\ tab[t].phase \notin {"closed", "loading"}
        /\ tab[t].shouldDoFullDBWrite /\ tab[t].store[r] = latest[r]

\* t is writing the last edit of a record.
Writing(t, r) ==
  \E i \in DOMAIN idb : idb[i].tab = t /\ r \in DOMAIN idb[i].data /\ idb[i].data[r] = latest[r]

\* The last edits that were t's to store, and that a queue will not store.
GivenUp(t, queue) == {r \in Record : (Pending(t, r) \/ Writing(t, r)) /\ Stored(r, queue) # latest[r]}

\* A write lands.
Commits ==
  /\ idb # <<>> /\ Head(idb).kind # "read"
  /\ disk' = Over(Head(idb).data, disk)
  /\ IF Head(idb).tab = None THEN idb' = Tail(idb) /\ UNCHANGED tab
     ELSE finishes(Head(idb).tab, persisted(tab[Head(idb).tab]))
  /\ UNCHANGED <<inbox, release, bounds, ghosts>>

\* A write fails.  The next one is to make up for it, if there is a next one.
Fails ==
  /\ idb # <<>> /\ Head(idb).kind # "read"
  /\ troubles < MaxTroubles /\ troubles' = troubles + 1
  /\ \E t \in Tab :
         /\ Head(idb).tab = t
         /\ finishes(t, failed(tab[t]))
         /\ lost' = IF tab[t].phase = "flushing" \/ tab[t].isReloading THEN lost \cup GivenUp(t, idb') ELSE lost
  /\ UNCHANGED <<inbox, disk, release, edits, opens, latest>>

-----------------------------------------------------------------------------
(* The broadcast channel.                                                  *)

\* postMessage reaches every other tab that has made its channel.
posted(t, m) ==
  [u \in Tab |-> IF u # t /\ tab[u].phase \in {"loading", "loaded"} THEN Append(inbox[u], m) ELSE inbox[u]]

announce(v) == [type |-> "announce", version |-> v, changes |-> NoChanges]
diff(v, c)  == [type |-> "diff", version |-> v, changes |-> c]

\* Records of which a message, or a change not yet reported, will still tell t,
\* or tell it to reload.
UnderWay(t) ==
  {r \in Record :
     \/ \E i \in DOMAIN inbox[t] :
          inbox[t][i].version >= tab[t].version /\ r \in DOMAIN inbox[t][i].changes
     \/ \E u \in Tab \ {t} : tab[u].version >= tab[t].version /\ r \in DOMAIN tab[u].unheard}

\* What was done in the other tabs has come to this one.
UpToDate(t) == inbox[t] = <<>> /\ \A u \in Tab \ {t} : tab[u].unheard = NoChanges

-----------------------------------------------------------------------------
(* A tab.                                                                  *)

\* The constructor, and the start of connect().
Open(t) ==
  /\ ~IsOpen(t) /\ opens < MaxOpens /\ opens' = opens + 1
  /\ tab' = [tab EXCEPT ![t] = [NoTab EXCEPT !.phase = "loading", !.version = release]]
  /\ idb' = Append(idb, reading(t))
  /\ UNCHANGED <<inbox, disk, release, edits, troubles, ghosts>>

\* load() reads what is stored.
Reads ==
  /\ idb # <<>> /\ Head(idb).kind = "read"
  /\ idb' = Tail(idb)
  /\ tab' = [tab EXCEPT ![Head(idb).tab].store = disk]
  /\ UNCHANGED <<inbox, disk, release, bounds, ghosts>>

\* A record was edited after t read it, and the message came before onmessage was
\* set.
Missed(t) == {r \in Record \ UnderWay(t) : tab[t].store[r] # latest[r]}

\* The rest of connect().
Loads(t) ==
  /\ tab[t].phase = "loading" /\ \A i \in DOMAIN idb : idb[i] # reading(t)
  /\ tab' = [tab EXCEPT ![t].phase = "loaded"]
  /\ inbox' = posted(t, announce(tab[t].version))
  /\ lost' = lost \cup Missed(t)
  /\ UNCHANGED <<disk, idb, release, bounds, latest>>

\* An edit, or a deletion, by the person, who has seen what was done in the other
\* tabs and takes longer than they take to write or to close.  A page that a newer
\* one is about to replace edits in vain.
Edit(t, r) ==
  /\ tab[t].phase = "loaded" /\ UpToDate(t)
  /\ \A u \in Tab \ {t} : r \notin DOMAIN tab[u].queue /\ tab[u].phase # "closing"
  /\ edits < MaxEdits /\ edits' = edits + 1
  /\ tab' = [tab EXCEPT ![t].store[r] = edits', ![t].unheard = Over([s \in {r} |-> edits'], @)]
  /\ latest' = [latest EXCEPT ![r] = edits']
  /\ lost' = IF tab[t].isReloading \/ \E u \in Tab : tab[u].version > tab[t].version THEN lost \cup {r}
             ELSE lost \ {r}
  /\ UNCHANGED <<inbox, disk, idb, release, opens, troubles>>

\* The listener for the user's document changes.
heard(p) ==
  [p EXCEPT !.unheard = NoChanges, !.queue = Over(p.unheard, @),
            !.queued = @ \/ p.unheard # NoChanges,
            !.timer = @ \/ p.unheard # NoChanges]

\* A frame: the store's history reaches the listener.
Report(t) ==
  /\ tab[t].phase = "loaded" /\ tab[t].unheard # NoChanges
  /\ tab' = [tab EXCEPT ![t] = heard(@)]
  /\ inbox' = posted(t, diff(tab[t].version, tab[t].unheard))
  /\ UNCHANGED <<disk, idb, release, bounds, ghosts>>

\* The listener for changes of the session's own records.
SessionChanges(t) ==
  /\ tab[t].phase = "loaded"
  /\ tab' = [tab EXCEPT ![t].queued = TRUE, ![t].timer = TRUE]
  /\ UNCHANGED <<inbox, disk, idb, release, bounds, ghosts>>

\* A message for a tab that does not listen yet, or no longer.
Ignores(t) ==
  /\ inbox[t] # <<>> /\ tab[t].phase # "loaded"
  /\ inbox' = [inbox EXCEPT ![t] = Tail(@)]
  /\ UNCHANGED <<tab, disk, idb, release, bounds, ghosts>>

\* onmessage: a newer page makes this one reload (it is taken to have been open
\* for the five seconds the code wants of it) and write nothing until it does, ...
HearsNewer(t) ==
  /\ inbox[t] # <<>> /\ tab[t].phase = "loaded" /\ Head(inbox[t]).version > tab[t].version
  /\ tab' = [tab EXCEPT ![t].isReloading = TRUE, ![t].leaving = TRUE]
  /\ inbox' = [inbox EXCEPT ![t] = Tail(@)]
  /\ lost' = lost \cup GivenUp(t, idb)
  /\ UNCHANGED <<disk, idb, release, bounds, latest>>

\* ... an older one is told, and overwritten with the whole document at once, so
\* that its edit is given up and so is what this tab has yet to hear, ...
HearsOlder(t) ==
  /\ inbox[t] # <<>> /\ tab[t].phase = "loaded" /\ Head(inbox[t]).version < tab[t].version
  /\ inbox' = [posted(t, announce(tab[t].version)) EXCEPT ![t] = Tail(@)]
  /\ LET p == [tab[t] EXCEPT !.shouldDoFullDBWrite = TRUE]
     IN  tab' = [tab EXCEPT ![t] = persistIfNeeded(p)] /\ idb' = idb \o writes(t, p)
  /\ lost' = lost \cup DOMAIN Head(inbox[t]).changes \cup UnderWay(t)
  /\ UNCHANGED <<disk, release, bounds, latest>>

\* Mutant: a record this tab has is kept.
HearsSameKeeping(t) ==
  /\ inbox[t] # <<>> /\ tab[t].phase = "loaded" /\ Head(inbox[t]).version = tab[t].version
  /\ tab' = [tab EXCEPT ![t].store = Over(@, Head(inbox[t]).changes)]
  /\ inbox' = [inbox EXCEPT ![t] = Tail(@)]
  /\ UNCHANGED <<disk, idb, release, bounds, ghosts>>

\* ... and a diff of the same release is applied.
HearsSame(t) ==
  /\ inbox[t] # <<>> /\ tab[t].phase = "loaded" /\ Head(inbox[t]).version = tab[t].version
  /\ tab' = [tab EXCEPT ![t].store = Over(Head(inbox[t]).changes, @)]
  /\ inbox' = [inbox EXCEPT ![t] = Tail(@)]
  /\ UNCHANGED <<disk, idb, release, bounds, ghosts>>

\* scheduledPersistTimeout.
PersistTimer(t) ==
  /\ tab[t].timer /\ UpToDate(t)
  /\ tab' = [tab EXCEPT ![t] = persistIfNeeded(@)] /\ idb' = idb \o writes(t, tab[t])
  /\ UNCHANGED <<inbox, disk, release, bounds, ghosts>>

\* visibilitychange.
Hide(t) ==
  /\ tab[t].phase = "loaded" /\ UpToDate(t)
  /\ Persists(tab[t])
  /\ tab' = [tab EXCEPT ![t] = persistIfNeeded(@)] /\ idb' = idb \o writes(t, tab[t])
  /\ UNCHANGED <<inbox, disk, release, bounds, ghosts>>

\* close(): the history is flushed first, then nothing is heard any more.  A
\* tab that is about to reload for a newer page does not write.
Close(t) ==
  /\ tab[t].phase = "loaded" /\ UpToDate(t)
  /\ tab' = [tab EXCEPT ![t] = flushAndDispose(heard(@))]
  /\ idb' = idb \o writes(t, heard(tab[t]))
  /\ inbox' = IF tab[t].unheard = NoChanges THEN inbox
              ELSE posted(t, diff(tab[t].version, tab[t].unheard))
  /\ UNCHANGED <<disk, release, bounds, ghosts>>

\* What becomes of a queue when t's page is gone: nobody waits for its read, and
\* its write lands whole or not at all.
orphaned(t, queue, lands) ==
  [i \in DOMAIN queue |->
     IF queue[i].tab # t THEN queue[i]
     ELSE [tab |-> None, kind |-> "changes", data |-> IF lands THEN queue[i].data ELSE NoChanges]]

\* close() before load() is through writes nothing.
CloseUnloaded(t) ==
  /\ tab[t].phase = "loading"
  /\ tab' = [tab EXCEPT ![t] = NoTab]
  /\ inbox' = [inbox EXCEPT ![t] = <<>>]
  /\ idb' = orphaned(t, idb, FALSE)
  /\ UNCHANGED <<disk, release, bounds, ghosts>>

\* Changes of the last frame reach no other tab.
die(t, queue) ==
  /\ tab' = [tab EXCEPT ![t] = NoTab]
  /\ inbox' = [inbox EXCEPT ![t] = <<>>]
  /\ \E lands \in BOOLEAN : idb' = orphaned(t, queue, lands)
  /\ lost' = lost \cup GivenUp(t, idb') \cup DOMAIN tab[t].unheard
  /\ UNCHANGED <<disk, release, edits, opens, latest>>

\* pagehide, then the end of the page.
Unload(t) ==
  /\ IsOpen(t) /\ UpToDate(t)
  /\ IF tab[t].leaving THEN UNCHANGED troubles
     ELSE troubles < MaxTroubles /\ troubles' = troubles + 1
  /\ die(t, IF tab[t].phase = "loading" THEN idb ELSE idb \o writes(t, tab[t]))

\* A newer version of the app is deployed.
Release ==
  /\ troubles < MaxTroubles /\ troubles' = troubles + 1
  /\ release' = release + 1
  /\ UNCHANGED <<tab, inbox, disk, idb, edits, opens, ghosts>>

Init ==
  /\ tab = [t \in Tab |-> NoTab]
  /\ inbox = [t \in Tab |-> <<>>]
  /\ disk = Empty /\ idb = <<>> /\ release = 1
  /\ edits = 0 /\ opens = 0 /\ troubles = 0
  /\ latest = Empty /\ lost = {}

Database == Commits \/ Reads

Hears(t) == Ignores(t) \/ HearsNewer(t) \/ HearsOlder(t) \/ HearsSame(t)
TabStep(t) == Loads(t) \/ Report(t) \/ PersistTimer(t) \/ Hears(t)

PersonStep(t) ==
  \/ Open(t) \/ Close(t) \/ CloseUnloaded(t) \/ Unload(t) \/ Hide(t) \/ SessionChanges(t)
  \/ \E r \in Record : Edit(t, r)

Next ==
  \/ Database \/ Fails \/ Release
  \/ \E t \in Tab : TabStep(t) \/ PersonStep(t)

Spec == Init /\ [][Next]_vars

\* The browser runs the database, the frames, the timers and the messages, and
\* ends a page that was told to reload.
FairSpec ==
  /\ Spec
  /\ WF_vars(Database)
  /\ \A t \in Tab :
       /\ WF_vars(Loads(t)) /\ WF_vars(Report(t)) /\ WF_vars(PersistTimer(t)) /\ WF_vars(Hears(t))
       /\ WF_vars(tab[t].leaving /\ Unload(t))

-----------------------------------------------------------------------------
(* Properties.                                                             *)

Page == [phase : Phases, version : Nat, store : Content, unheard : Changes, queue : Changes,
         queued : BOOLEAN, shouldDoFullDBWrite : BOOLEAN, isPersisting : BOOLEAN, timer : BOOLEAN,
         isReloading : BOOLEAN, leaving : BOOLEAN]

\* The transaction at i is a write of t's.
WriteOf(t, i) == idb[i].tab = t /\ idb[i].kind # "read"

\* Types, and a page has one write under way while it is persisting and none
\* otherwise (persistIfNeeded, TLLocalSyncClient.ts:360-391).
TypeOK ==
  /\ tab \in [Tab -> Page]
  /\ \A t \in Tab : /\ tab[t].isPersisting <=> (\E i \in DOMAIN idb : WriteOf(t, i))
                    /\ \A i, j \in DOMAIN idb : WriteOf(t, i) /\ WriteOf(t, j) => i = j
  /\ \A t \in Tab : inbox[t] \in Seq([type : {"announce", "diff"}, version : Nat, changes : Changes])
  /\ disk \in Content
  /\ idb \in Seq([tab : Tab \cup {None}, kind : {"read", "snapshot", "changes"}, data : Changes])
  /\ release \in Nat
  /\ edits \in 0 .. MaxEdits /\ opens \in 0 .. MaxOpens /\ troubles \in 0 .. MaxTroubles
  /\ latest \in Content /\ lost \subseteq Record

\* No edit falls between the queue, the write in flight, the database and
\* close(): it is stored, or will be, whatever fails, closes or is written in
\* between by another tab
\* (TLLocalSyncClient.ts:284-322, 397-450).
EditsAccountedFor ==
  \A r \in Record \ lost : Stored(r, idb) = latest[r] \/ \E t \in Tab : Pending(t, r)

\* Tabs of one release with nothing left to hear show the same document
\* (connect, TLLocalSyncClient.ts:177-282).
TabsAgree ==
  \A t, u \in Tab :
    /\ tab[t].phase = "loaded" /\ tab[u].phase = "loaded" /\ tab[t].version = tab[u].version
    /\ ~tab[t].isReloading /\ ~tab[u].isReloading
    => \A r \in Record \ (lost \cup UnderWay(t) \cup UnderWay(u)) : tab[t].store[r] = tab[u].store[r]

\* Once nothing more is edited, everything that was not given up gets on disk
\* and stays there, with nobody having to close or hide a tab
\* (schedulePersist, TLLocalSyncClient.ts:337-349).
DiskCatchesUp ==
  <>[][UNCHANGED latest]_latest => <>[](\A r \in Record \ lost : disk[r] = latest[r])
=============================================================================
