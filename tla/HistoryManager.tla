--------------------------- MODULE HistoryManager ---------------------------
(***************************************************************************)
(* Undo and redo (packages/editor/src/lib/editor/managers/HistoryManager   *)
(* and the RecordsDiff algebra of packages/store/src/lib/RecordsDiff.ts).  *)
(*                                                                         *)
(* The manager never copies the document: it keeps diffs, squashes and     *)
(* reverses them, and applies them to whatever the store then holds.       *)
(* Others change the store too: peers, batches whose changes are not       *)
(* recorded, and batches whose changes leave the redo stack as it is.      *)
(* Records of Own see only recorded changes that clear the redo stack; of  *)
(* them undo and redo have to be exact.                                    *)
(*                                                                         *)
(* A record's value is a number, 0 while the record does not exist.  Keys  *)
(* that are ephemeral, side effects of the store and batches that throw,   *)
(* which crash the editor (Editor.ts:385), are left out.                   *)
(***************************************************************************)
EXTENDS Naturals, SequencesExt

CONSTANTS
  Record,
  Own,          \* the records that only recorded changes touch
  MaxValue,     \* records have the values 1 .. MaxValue
  MaxChanges,   \* bound on the changes
  MaxMarks,     \* bound on the marks, which are numbered as they are set
  MaxBatches    \* bound on the batches that say what to do with their changes

ASSUME HistoryAssumption ==
  /\ Own \subseteq Record
  /\ {MaxValue, MaxChanges, MaxMarks, MaxBatches} \subseteq Nat

VARIABLES
  h,         \* the store and the manager's stacks, see Empty
  state,     \* what the manager does with a change
  batches,   \* the states that the batches under way will restore
  marked,    \* ghost: the store as it was when each mark was set
  tip,       \* ghost: the store as it was before anything on the redo stack was undone
  forked,    \* ghost: a bail went below what the redo stack starts from
  changes, rounds

vars == <<h, state, batches, marked, tip, forked, changes, rounds>>

Value  == 0 .. MaxValue
Mark   == 1 .. MaxMarks
States == {"recording", "recordingPreserveRedoStack", "paused"}

-----------------------------------------------------------------------------
(* Diffs, a record at a time; 0 where a part says nothing of the record.   *)

Change == [added : Value, from : Value, to : Value, removed : Value]
Silent == [added |-> 0, from |-> 0, to |-> 0, removed |-> 0]
EmptyDiff == [r \in Record |-> Silent]

Added(v)      == [Silent EXCEPT !.added = v]
Updated(v, w) == [Silent EXCEPT !.from = v, !.to = w]
Removed(v)    == [Silent EXCEPT !.removed = v]

isRecordsDiffEmpty(d) == d = EmptyDiff

reverseRecordsDiff(d) ==
  [r \in Record |-> [added |-> d[r].removed, from |-> d[r].to, to |-> d[r].from, removed |-> d[r].added]]

squashAdded(t, v) ==
  IF v = 0 THEN t
  ELSE IF t.removed = 0 THEN [t EXCEPT !.added = v]
  ELSE IF t.removed = v THEN [t EXCEPT !.removed = 0]
  ELSE [t EXCEPT !.removed = 0, !.from = t.removed, !.to = v]

squashUpdated(t, v, w) ==
  IF w = 0 THEN t
  ELSE IF t.added # 0 THEN Added(w)
  ELSE Updated(IF t.to # 0 THEN t.from ELSE v, w)

squashRemoved(t, v) ==
  IF v = 0 THEN t
  ELSE IF t.added # 0 THEN [t EXCEPT !.added = 0]
  ELSE IF t.to # 0 THEN Removed(t.from)
  ELSE [t EXCEPT !.removed = v]

squash(t, d) ==
  [r \in Record |-> squashRemoved(squashUpdated(squashAdded(t[r], d[r].added), d[r].from, d[r].to), d[r].removed)]

\* squashRecordDiffsMutable of a sequence of diffs, into an empty one.
squashed(diffs) == FoldLeft(squash, EmptyDiff, diffs)

\* Store.applyDiff
applied(store, d) ==
  [r \in Record |-> IF d[r].removed # 0 THEN 0
                    ELSE IF d[r].to # 0 THEN d[r].to
                    ELSE IF d[r].added # 0 THEN d[r].added
                    ELSE store[r]]

-----------------------------------------------------------------------------
(* The stacks.  The head of a stack is the end of its sequence.            *)

Stop(m) == [type |-> "stop", id |-> m]
Diff(d) == [type |-> "diff", diff |-> d]
Entry   == [type : {"stop"}, id : Mark] \cup [type : {"diff"}, diff : [Record -> Change]]

\* A manager that remembers nothing.
Empty == [store |-> [r \in Record |-> 0], undos |-> <<>>, redos |-> <<>>, pending |-> EmptyDiff, isEmpty |-> TRUE]

\* Mutant: an update does not make the diff count.
pendingAfterQuiet(x, d) ==
  LET p == squash(x.pending, d)
  IN  [x EXCEPT !.pending = p,
                !.isEmpty = IF \E r \in Record : d[r].to = 0 /\ d[r] # Silent THEN isRecordsDiffEmpty(p) ELSE @]

\* PendingDiff.apply
pendingAfter(x, d) ==
  LET p == squash(x.pending, d)
  IN  [x EXCEPT !.pending = p,
                !.isEmpty = IF \E r \in Record : d[r].added # 0 \/ d[r].removed # 0 THEN isRecordsDiffEmpty(p)
                            ELSE @ /\ \A r \in Record : d[r].to = 0]

flushPendingDiff(x) ==
  IF x.isEmpty THEN x
  ELSE [x EXCEPT !.undos = Append(@, Diff(x.pending)), !.pending = EmptyDiff, !.isEmpty = TRUE]

LastStop(s, Marks) == Max({i \in DOMAIN s : s[i].type = "stop" /\ s[i].id \in Marks} \cup {0})
LastDiff(s) == Max({i \in DOMAIN s : s[i].type = "diff"} \cup {0})

\* The entries that are left when s is popped to its last stop; marks above the
\* last diff do not count when nothing is pending.
left(s, quiet) ==
  LET stop == LastStop(IF quiet THEN SubSeq(s, 1, LastDiff(s)) ELSE s, Mark)
  IN  IF stop = 0 THEN 0 ELSE stop - 1

\* What the entries do to the document, one by one: a stop does nothing.
diffsOf(entries) == [i \in DOMAIN entries |-> IF entries[i].type = "diff" THEN entries[i].diff ELSE EmptyDiff]

\* _undo, once it is known how many entries of the undo stack stay.
undone(x, kept, pushToRedoStack) ==
  LET popped == Reverse(SubSeq(x.undos, kept + 1, Len(x.undos)))
      top    == IF isRecordsDiffEmpty(x.pending) THEN <<>> ELSE <<Diff(x.pending)>>
      both   == diffsOf(top \o popped)
  IN  [store   |-> applied(x.store, squashed([i \in DOMAIN both |-> reverseRecordsDiff(both[i])])),
       undos   |-> SubSeq(x.undos, 1, kept),
       redos   |-> IF pushToRedoStack THEN x.redos \o top \o popped ELSE x.redos,
       pending |-> EmptyDiff,
       isEmpty |-> TRUE]

\* _undo to the last mark, and to mark m.
undo(x, pushToRedoStack) == undone(x, left(x.undos, isRecordsDiffEmpty(x.pending)), pushToRedoStack)

bailToMark(x, m) ==
  IF LastStop(x.undos, {m}) = 0 THEN [x EXCEPT !.isEmpty = isRecordsDiffEmpty(x.pending)]
  ELSE undone(x, LastStop(x.undos, {m}) - 1, FALSE)

redo(x) ==
  LET y      == flushPendingDiff(x)
      kept   == left(y.redos, TRUE)
      popped == Reverse(SubSeq(y.redos, kept + 1, Len(y.redos)))
  IN  IF y.redos = <<>> THEN y
      ELSE [y EXCEPT !.store = applied(@, squashed(diffsOf(popped))),
                     !.undos = @ \o popped,
                     !.redos = SubSeq(@, 1, kept)]

\* Mutant: the diffs are squashed as they are popped, the last one first.
squashToMarkBackwards(x, m) ==
  LET stop   == LastStop(x.undos, {m})
      popped == diffsOf(SubSeq(x.undos, stop + 1, Len(x.undos)))
  IN  IF stop = 0 \/ LastDiff(x.undos) <= stop THEN x
      ELSE [x EXCEPT !.undos = Append(SubSeq(@, 1, stop), Diff(squashed(Reverse(popped))))]

squashToMark(x, m) ==
  LET stop   == LastStop(x.undos, {m})
      popped == diffsOf(SubSeq(x.undos, stop + 1, Len(x.undos)))
  IN  IF stop = 0 \/ LastDiff(x.undos) <= stop THEN x
      ELSE [x EXCEPT !.undos = Append(SubSeq(@, 1, stop), Diff(squashed(popped)))]

-----------------------------------------------------------------------------
(* The document changes.                                                   *)

\* A record is put or removed: what the store tells its interceptors.
diff(v, w) == IF v = 0 THEN Added(w) ELSE IF w = 0 THEN Removed(v) ELSE Updated(v, w)

\* Mutant: a recorded change leaves the redo stack, if it is made in a batch.
recordedInBatch(x, d) ==
  LET y == IF state = "paused" THEN x ELSE pendingAfter(x, d)
  IN  IF state = "recording" /\ batches = <<>> THEN [y EXCEPT !.redos = <<>>] ELSE y

\* The interceptor, for a change of the user's.
recorded(x, d) ==
  LET y == IF state = "paused" THEN x ELSE pendingAfter(x, d)
  IN  IF state = "recording" THEN [y EXCEPT !.redos = <<>>] ELSE y

Put(r, v) ==
  /\ changes < MaxChanges /\ v # h.store[r]
  /\ r \in Own => state = "recording"
  /\ h' = recorded([h EXCEPT !.store[r] = v], [EmptyDiff EXCEPT ![r] = diff(h.store[r], v)])
  /\ changes' = changes + 1
  /\ tip' = IF h'.redos = <<>> THEN h'.store ELSE tip
  /\ UNCHANGED <<state, batches, marked, forked, rounds>>

\* A peer's change.  Messages are handled between batches, never within one.
RemotePut(r, v) ==
  /\ changes < MaxChanges /\ r \notin Own /\ v # h.store[r] /\ batches = <<>>
  /\ h' = [h EXCEPT !.store[r] = v]
  /\ changes' = changes + 1
  /\ UNCHANGED <<state, batches, marked, tip, forked, rounds>>

-----------------------------------------------------------------------------
(* What the editor asks of the manager.                                    *)

\* A batch that only groups leaves the state as it is and is not modelled.
BatchBegins(mode) ==
  /\ rounds < MaxBatches
  /\ state' = IF state = "paused" THEN state ELSE mode
  /\ batches' = Append(batches, state)
  /\ rounds' = rounds + 1
  /\ UNCHANGED <<h, marked, tip, forked, changes>>

BatchEnds ==
  /\ batches # <<>>
  /\ state' = Last(batches) /\ batches' = Front(batches)
  /\ UNCHANGED <<h, marked, tip, forked, changes, rounds>>

_mark ==
  /\ Len(marked) < MaxMarks
  /\ marked' = Append(marked, h.store)
  /\ h' = [flushPendingDiff(h) EXCEPT !.undos = Append(@, Stop(Len(marked')))]
  /\ UNCHANGED <<state, batches, tip, forked, changes, rounds>>

\* The editor undoes, redoes, bails and squashes whenever it is asked to.
Undo ==
  /\ h' = undo(h, TRUE)
  /\ UNCHANGED <<state, batches, marked, tip, forked, changes, rounds>>

Redo ==
  /\ h' = redo(h)
  /\ UNCHANGED <<state, batches, marked, tip, forked, changes, rounds>>

Bails(x) ==
  /\ h' = x
  /\ tip' = IF x.redos = <<>> THEN x.store ELSE tip
  /\ forked' = (forked \/ (h.redos # <<>> /\ h'.store # h.store))
  /\ UNCHANGED <<state, batches, marked, changes, rounds>>

Bail == Bails(undo(h, FALSE))
BailToMark(m) == Bails(bailToMark(h, m))

SquashToMark(m) ==
  /\ h' = squashToMark(h, m)
  /\ UNCHANGED <<state, batches, marked, tip, forked, changes, rounds>>

Clear ==
  /\ h' = [Empty EXCEPT !.store = h.store]
  /\ tip' = h.store
  /\ forked' = FALSE
  /\ UNCHANGED <<state, batches, marked, changes, rounds>>

Init ==
  /\ \E store \in [Record -> {0, MaxValue}] : h = [Empty EXCEPT !.store = store]
  /\ state = "recording" /\ batches = <<>>
  /\ marked = <<>> /\ tip = h.store /\ forked = FALSE
  /\ changes = 0 /\ rounds = 0

Edits == \E r \in Record, v \in Value : Put(r, v) \/ RemotePut(r, v)
Replay == Undo \/ Redo \/ Bail \/ Clear \/ \E m \in DOMAIN marked : BailToMark(m) \/ SquashToMark(m)
Batch == BatchEnds \/ \E mode \in States : BatchBegins(mode)
Next == Edits \/ Replay \/ Batch \/ _mark

Spec == Init /\ [][Next]_vars

-----------------------------------------------------------------------------
(* Properties.                                                             *)

SameOwn(s, t) == \A r \in Own : s[r] = t[r]

\* One thing at most about a record: that it came, changed or went.
OneThing ==
  {Silent} \cup {Added(v) : v \in Value \ {0}} \cup {Removed(v) : v \in Value \ {0}}
    \cup {Updated(v, w) : v, w \in Value \ {0}}

\* The manager says that nothing is pending exactly when the pending diff is
\* empty, although it does not look at the whole diff after an update; and a
\* diff says one thing at most of a record of Own, as long as no bail has left
\* behind a redo stack that starts from elsewhere.
TypeOK ==
  /\ h.store \in [Record -> Value]
  /\ h.undos \in Seq(Entry) /\ h.redos \in Seq(Entry) /\ h.pending \in [Record -> Change]
  /\ h.isEmpty <=> isRecordsDiffEmpty(h.pending)
  /\ ~forked => \A s \in {h.undos, h.redos, <<Diff(h.pending)>>} :
                  \A i \in DOMAIN s, r \in Own : s[i].type = "diff" => s[i].diff[r] \in OneThing
  /\ state \in States /\ batches \in Seq(States)

\* Bailing to a mark gives every record of Own the value it had when the mark was
\* set, whatever was undone, redone, squashed and batched since then.
MarksRemember ==
  ~forked => \A m \in DOMAIN marked :
    LastStop(h.undos, {m}) # 0 => SameOwn(bailToMark(h, m).store, marked[m])

\* Redoing everything gives Own back as it was before the first undo.
RedosReachTip ==
  ~forked => SameOwn(applied(h.store, squashed(diffsOf(Reverse(h.redos)))), tip)
=============================================================================
