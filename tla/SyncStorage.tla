----------------------------- MODULE SyncStorage -----------------------------
(***************************************************************************)
(* The room's document storage of packages/sync-core: every record with    *)
(* the clock of its last change, tombstones for deleted records, and the   *)
(* change feed getChangesSince that brings a returning client up to date.  *)
(* InMemorySyncStorage.ts and SQLiteSyncStorage.ts implement it; where the *)
(* two differ (which tombstones a prune or a reload keeps) the action      *)
(* allows both.                                                            *)
(*                                                                         *)
(* The object-store lane shares clock, tombstones and transactions with    *)
(* the documents, so one map stands for both.  Schema versions and their   *)
(* migrations are left out.  A transaction that throws is rolled back and  *)
(* is no step.                                                             *)
(***************************************************************************)
EXTENDS Integers, FiniteSets

CONSTANTS
  RecordId, Value,
  Absent,     \* no record under this id
  Unchanged,  \* this id is not in the diff
  MAX_TOMBSTONES, TOMBSTONE_PRUNE_BUFFER_SIZE,
  MaxClock    \* bound: the clock of the last transaction

ASSUME StorageAssumption ==
  /\ Absent \notin Value
  /\ Unchanged \notin Value \cup {Absent}
  /\ IsFiniteSet(RecordId)
  /\ MAX_TOMBSTONES \in Nat /\ TOMBSTONE_PRUNE_BUFFER_SIZE \in Nat
  /\ MaxClock \in Nat

VARIABLES
  documents,         \* what is stored under each id
  lastChangedClock,  \* the clock of a stored record's last change
  tombstones,        \* the deleted ids that are still remembered
  documentClock,
  tombstoneHistoryStartsAtClock,
  history            \* ghost: what was stored at each clock

storageVars == <<documents, lastChangedClock, tombstones, documentClock,
                 tombstoneHistoryStartsAtClock, history>>

Contents  == [RecordId -> Value \cup {Absent}]
Diffs     == [RecordId -> Value \cup {Absent, Unchanged}]
Tombstone == [id : RecordId, clock : 0 .. documentClock]

NoRecords == [id \in RecordId |-> Absent]
Stored    == {id \in RecordId : documents[id] # Absent}

ApplyForward(s, diff) ==
  [id \in RecordId |-> IF diff[id] = Unchanged THEN s[id] ELSE diff[id]]

-----------------------------------------------------------------------------

\* Whether a client that last saw clock `since` must start over: its clock is
\* from another life of this room, or tombstones it would need are gone.
wipeAll(since) == since > documentClock \/ since < tombstoneHistoryStartsAtClock

\* getChangesSince: the stored records changed after `since` and the
\* tombstones written after it, or everything when the client starts over.
changesSince(since) ==
  [id \in RecordId |->
     IF documents[id] # Absent /\ (wipeAll(since) \/ lastChangedClock[id] > since)
     THEN documents[id]
     ELSE IF ~wipeAll(since) /\ \E t \in tombstones : t.id = id /\ t.clock > since
          THEN Absent ELSE Unchanged]

\* What a client that held s at clock `since` holds after the feed.
CaughtUp(s, since) ==
  ApplyForward(IF wipeAll(since) THEN NoRecords ELSE s, changesSince(since))

\* Mutant: set leaves the tombstone of the id it sets.
transactionKeepingTombstones(puts, deletes) ==
  LET removed == deletes \cap (Stored \cup DOMAIN puts)
      clock   == documentClock + 1
  IN  IF DOMAIN puts \cup removed = {} THEN UNCHANGED storageVars ELSE
      /\ documents' = [id \in RecordId |-> IF id \in removed THEN Absent
                         ELSE IF id \in DOMAIN puts THEN puts[id] ELSE documents[id]]
      /\ lastChangedClock' = [id \in RecordId |-> IF id \in removed THEN 0
                         ELSE IF id \in DOMAIN puts THEN clock ELSE lastChangedClock[id]]
      /\ tombstones' = {t \in tombstones : t.id \notin removed}
                         \cup [id : removed, clock : {clock}]
      /\ documentClock' = clock
      /\ history' = [c \in 0 .. clock |-> IF c = clock THEN documents' ELSE history[c]]
      /\ UNCHANGED tombstoneHistoryStartsAtClock

\* One transaction: sets the records of puts, then deletes those of deletes
\* that are stored by then.  All its writes carry one new clock; a set clears
\* the id's tombstone and a delete leaves one.
transaction(puts, deletes) ==
  LET removed == deletes \cap (Stored \cup DOMAIN puts)
      clock   == documentClock + 1
  IN  IF DOMAIN puts \cup removed = {} THEN UNCHANGED storageVars ELSE
      /\ documents' = [id \in RecordId |-> IF id \in removed THEN Absent
                         ELSE IF id \in DOMAIN puts THEN puts[id] ELSE documents[id]]
      /\ lastChangedClock' = [id \in RecordId |-> IF id \in removed THEN 0
                         ELSE IF id \in DOMAIN puts THEN clock ELSE lastChangedClock[id]]
      /\ tombstones' = {t \in tombstones : t.id \notin removed \cup DOMAIN puts}
                         \cup [id : removed, clock : {clock}]
      /\ documentClock' = clock
      /\ history' = [c \in 0 .. clock |-> IF c = clock THEN documents' ELSE history[c]]
      /\ UNCHANGED tombstoneHistoryStartsAtClock

-----------------------------------------------------------------------------
(* Pruning: the oldest tombstones go, never only some of one clock.        *)

\* Mutant: the tombstones are sorted the other way round.
idsToDeleteNewest(T, extra) ==
  {t \in T : Cardinality({s \in T : s.clock > t.clock}) < extra}

\* computeTombstonePruning's cut: a tombstone goes when fewer than `extra`
\* are strictly older.
idsToDelete(T, extra) ==
  {t \in T : Cardinality({s \in T : s.clock < t.clock}) < extra}

\* The clock of the oldest remaining tombstone, or now when none is left.
newHistoryStart(kept) ==
  {t.clock : t \in {t \in kept : \A s \in kept : t.clock <= s.clock}}
    \cup {c \in {documentClock} : kept = {}}

pruneTombstones ==
  LET extra == TOMBSTONE_PRUNE_BUFFER_SIZE + Cardinality(tombstones) - MAX_TOMBSTONES
      kept  == tombstones \ idsToDelete(tombstones, extra)
  IN  /\ Cardinality(tombstones) > MAX_TOMBSTONES
      /\ tombstoneHistoryStartsAtClock' \in newHistoryStart(kept)
      /\ tombstones' \in {kept, {t \in tombstones : t.clock >= tombstoneHistoryStartsAtClock'}}
      /\ UNCHANGED <<documents, lastChangedClock, documentClock, history>>

\* The process restarts from the storage's own snapshot.  A snapshot of an
\* older version has no tombstoneHistoryStartsAtClock: history starts now.
\* When it starts now the in-memory constructor drops the tombstones.
reload ==
  /\ tombstoneHistoryStartsAtClock' \in {tombstoneHistoryStartsAtClock, documentClock}
  /\ \/ tombstones' = tombstones
     \/ tombstoneHistoryStartsAtClock' = documentClock /\ tombstones' = {}
  /\ UNCHANGED <<documents, lastChangedClock, documentClock, history>>

-----------------------------------------------------------------------------

storageInit ==
  /\ documents \in Contents
  /\ lastChangedClock = [id \in RecordId |-> 0]
  /\ tombstones = {}
  /\ documentClock = 0
  /\ tombstoneHistoryStartsAtClock = 0
  /\ history = [c \in 0 .. 0 |-> documents]

storageNext ==
  \/ /\ documentClock < MaxClock
     /\ \E P, D \in SUBSET RecordId : \E puts \in [P -> Value] : transaction(puts, D)
  \/ pruneTombstones
  \/ reload

storageSpec == storageInit /\ [][storageNext]_storageVars

-----------------------------------------------------------------------------
(* Properties.                                                             *)

\* Types; a deleted record has at most one tombstone, and none once it is set
\* again; no clock is in the future (InMemorySyncStorage.ts:354-381).
storageTypeOK ==
  /\ documentClock \in Nat
  /\ documents \in Contents
  /\ lastChangedClock \in [RecordId -> 0 .. documentClock]
  /\ tombstones \subseteq Tombstone
  /\ \A t \in tombstones : documents[t.id] = Absent
  /\ \A s, t \in tombstones : s.id = t.id => s = t
  /\ tombstoneHistoryStartsAtClock \in 0 .. documentClock
  /\ history \in [0 .. documentClock -> Contents]
  /\ history[documentClock] = documents

\* Whatever clock a client stopped at, and whatever was set, deleted, set
\* again, pruned or reloaded since, the change feed applied to what the client
\* held then gives exactly what is stored now: no deleted record survives on a
\* client because its tombstone was pruned (InMemorySyncStorage.ts:425-453,
\* computeTombstonePruning 52-85).  So it does for a client whose clock is not of
\* this room's past, whatever it holds (429-434; a first connect sends clock -1).
ChangeFeedComplete ==
  /\ \A c \in 0 .. documentClock : CaughtUp(history[c], c) = documents
  /\ \A c \in {-1, documentClock + 1}, t \in 0 .. documentClock :
       CaughtUp(history[t], c) = documents

-----------------------------------------------------------------------------
(* The strengthening the proof needs.                                      *)

\* A stored record has not changed since its clock; a deleted one has been
\* gone since its tombstone; one without a tombstone has been absent since
\* history starts and since the oldest tombstone (a reload may keep tombstones
\* older than the start, and the next prune moves the start back to them).
FeedInv ==
  \A c \in 0 .. documentClock, id \in RecordId :
    \/ documents[id] # Absent /\ c < lastChangedClock[id]
    \/ \E t \in tombstones : t.id = id /\ c < t.clock
    \/ /\ documents[id] = Absent
       /\ c < tombstoneHistoryStartsAtClock
       /\ \A t \in tombstones : c < t.clock
    \/ history[c][id] = documents[id]
=============================================================================
