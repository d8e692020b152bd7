------------------------ MODULE HistoryManagerProofs ------------------------
(***************************************************************************)
(* Proofs about undo and redo: what a mark stands for and what can be      *)
(* redone stay exact, however often diffs are squashed, reversed, popped   *)
(* and pushed.                                                             *)
(*                                                                         *)
(* The stacks hold diffs, not documents, so the invariant says that there  *)
(* are documents they are the differences of.  For a record of Own, the    *)
(* undo stack leads it from some value to some other one (From), the       *)
(* pending diff leads it from there to what the store holds (Past), and    *)
(* the redo stack, from its head on, leads it from there to the tip        *)
(* (Future); a mark on the way stands where the record had the value it    *)
(* had when the mark was set.  Ways are put together and cut in two, and   *)
(* so are the stacks; that squashing the diffs of a way gives the          *)
(* difference between its ends (SquashedWay) is an induction on the fold.  *)
(*                                                                         *)
(* A bail that leaves the redo stack behind parts it from the document,    *)
(* and the invariant says nothing any more: see forked.                    *)
(***************************************************************************)
EXTENDS HistoryManager, FoldProofs, SequenceTheorems

-----------------------------------------------------------------------------
(* Diffs.                                                                  *)

\* The change e is what leads a record from the value a to b.
Leads(a, b, e) ==
  \/ e = Silent /\ b = a
  \/ a = 0 /\ b # 0 /\ e = Added(b)
  \/ a # 0 /\ b # 0 /\ e = Updated(a, b)
  \/ a # 0 /\ b = 0 /\ e = Removed(a)

\* What squash does to one record.
Squashing(t, e) == squashRemoved(squashUpdated(squashAdded(t, e.added), e.from, e.to), e.removed)

Reversed(e) == [added |-> e.removed, from |-> e.to, to |-> e.from, removed |-> e.added]

LEMMA ChangeForm ==
  /\ Silent = [added |-> 0, from |-> 0, to |-> 0, removed |-> 0]
  /\ \A v \in Value : Added(v) = [added |-> v, from |-> 0, to |-> 0, removed |-> 0]
  /\ \A v \in Value : Removed(v) = [added |-> 0, from |-> 0, to |-> 0, removed |-> v]
  /\ \A v, w \in Value : Updated(v, w) = [added |-> 0, from |-> v, to |-> w, removed |-> 0]
  /\ 0 \in Value /\ Silent \in Change
<1>1. 0 \in Value BY HistoryAssumption DEF Value
<1>2. \A v \in Value : Added(v) = [added |-> v, from |-> 0, to |-> 0, removed |-> 0] BY DEF Silent, Added
<1>3. \A v \in Value : Removed(v) = [added |-> 0, from |-> 0, to |-> 0, removed |-> v] BY DEF Silent, Removed
<1>4. ASSUME NEW v \in Value, NEW w \in Value
      PROVE  Updated(v, w) = [added |-> 0, from |-> v, to |-> w, removed |-> 0]
  <2>1. Updated(v, w) = [[Silent EXCEPT !.from = v] EXCEPT !.to = w] BY DEF Updated
  <2>2. [Silent EXCEPT !.from = v] = [added |-> 0, from |-> v, to |-> 0, removed |-> 0] BY DEF Silent
  <2>3. [[added |-> 0, from |-> v, to |-> 0, removed |-> 0] EXCEPT !.to = w]
          = [added |-> 0, from |-> v, to |-> w, removed |-> 0]
    OBVIOUS
  <2>4. QED BY <2>1, <2>2, <2>3
<1>5. Silent \in Change BY <1>1 DEF Silent, Change
<1>6. QED BY <1>1, <1>2, <1>3, <1>4, <1>5 DEF Silent

LEMMA SquashLeads ==
  ASSUME NEW a \in Value, NEW b \in Value, NEW c \in Value, NEW e, NEW f, Leads(a, b, e), Leads(b, c, f)
  PROVE  Leads(a, c, Squashing(e, f))
<1> DEFINE t == squashAdded(e, f.added)
           u == squashUpdated(t, f.from, f.to)
<1>0. Squashing(e, f) = squashRemoved(u, f.removed)
  BY DEF Squashing
<1>1. CASE f = Silent /\ c = b
  <2>1. t = e BY <1>1, ChangeForm DEF squashAdded
  <2>2. u = t BY <1>1, ChangeForm DEF squashUpdated
  <2>3. Squashing(e, f) = u BY <1>0, <1>1, ChangeForm DEF squashRemoved
  <2>4. QED BY <1>1, <2>1, <2>2, <2>3
<1>2. CASE b = 0 /\ c # 0 /\ f = Added(c)
  <2>1. f.added = c /\ f.from = 0 /\ f.to = 0 /\ f.removed = 0 BY <1>2, ChangeForm
  <2>2. u = t BY <2>1 DEF squashUpdated
  <2>3. Squashing(e, f) = u BY <1>0, <2>1 DEF squashRemoved
  <2>4. CASE e = Silent /\ b = a
    <3>1. t = Added(c) BY <1>2, <2>1, <2>4, ChangeForm DEF squashAdded
    <3>2. QED BY <1>2, <2>2, <2>3, <2>4, <3>1 DEF Leads
  <2>5. CASE a # 0 /\ b = 0 /\ e = Removed(a)
    <3>1. CASE a = c
      <4>1. t = Silent BY <1>2, <2>1, <2>5, <3>1, ChangeForm DEF squashAdded
      <4>2. QED BY <2>2, <2>3, <3>1, <4>1 DEF Leads
    <3>2. CASE a # c
      <4>1. e = [added |-> 0, from |-> 0, to |-> 0, removed |-> a] BY <2>5, ChangeForm
      <4>2. t = [e EXCEPT !.removed = 0, !.from = e.removed, !.to = c]
        BY <1>2, <2>1, <2>5, <3>2, <4>1 DEF squashAdded
      <4>3. t = Updated(a, c) BY <4>1, <4>2, ChangeForm
      <4>4. QED BY <1>2, <2>2, <2>3, <2>5, <4>3 DEF Leads
    <3>3. QED BY <3>1, <3>2
  <2>6. QED BY <1>2, <2>4, <2>5 DEF Leads
<1>3. CASE b # 0 /\ c # 0 /\ f = Updated(b, c)
  <2>1. f.added = 0 /\ f.from = b /\ f.to = c /\ f.removed = 0 BY <1>3, ChangeForm
  <2>2. t = e BY <2>1 DEF squashAdded
  <2>3. Squashing(e, f) = u BY <1>0, <2>1 DEF squashRemoved
  <2>4. CASE e = Silent /\ b = a
    <3>1. u = Updated(b, c) BY <1>3, <2>1, <2>2, <2>4, ChangeForm DEF squashUpdated
    <3>2. QED BY <1>3, <2>3, <2>4, <3>1 DEF Leads
  <2>5. CASE a = 0 /\ b # 0 /\ e = Added(b)
    <3>1. u = Added(c) BY <1>3, <2>1, <2>2, <2>5, ChangeForm DEF squashUpdated
    <3>2. QED BY <1>3, <2>3, <2>5, <3>1 DEF Leads
  <2>6. CASE a # 0 /\ b # 0 /\ e = Updated(a, b)
    <3>1. u = Updated(a, c) BY <1>3, <2>1, <2>2, <2>6, ChangeForm DEF squashUpdated
    <3>2. QED BY <1>3, <2>3, <2>6, <3>1 DEF Leads
  <2>7. QED BY <1>3, <2>4, <2>5, <2>6 DEF Leads
<1>4. CASE b # 0 /\ c = 0 /\ f = Removed(b)
  <2>1. f.added = 0 /\ f.from = 0 /\ f.to = 0 /\ f.removed = b BY <1>4, ChangeForm
  <2>2. u = e BY <2>1 DEF squashAdded, squashUpdated
  <2>3. Squashing(e, f) = squashRemoved(e, b) BY <1>0, <2>1, <2>2
  <2>4. CASE e = Silent /\ b = a
    <3>1. squashRemoved(e, b) = Removed(b) BY <1>4, <2>4, ChangeForm DEF squashRemoved
    <3>2. QED BY <1>4, <2>3, <2>4, <3>1 DEF Leads
  <2>5. CASE a = 0 /\ b # 0 /\ e = Added(b)
    <3>1. squashRemoved(e, b) = Silent BY <1>4, <2>5, ChangeForm DEF squashRemoved
    <3>2. QED BY <1>4, <2>3, <2>5, <3>1 DEF Leads
  <2>6. CASE a # 0 /\ b # 0 /\ e = Updated(a, b)
    <3>1. squashRemoved(e, b) = Removed(a) BY <1>4, <2>6, ChangeForm DEF squashRemoved
    <3>2. QED BY <1>4, <2>3, <2>6, <3>1 DEF Leads
  <2>7. QED BY <1>4, <2>4, <2>5, <2>6 DEF Leads
<1> QED BY <1>1, <1>2, <1>3, <1>4 DEF Leads

LEMMA ReverseLeads ==
  ASSUME NEW a \in Value, NEW b \in Value, NEW e, Leads(a, b, e)
  PROVE  Leads(b, a, Reversed(e))
BY ChangeForm DEF Leads, Reversed

\* Such a change says one thing at most.
LEMMA LeadsType ==
  ASSUME NEW a \in Value, NEW b \in Value, NEW e, Leads(a, b, e)
  PROVE  e \in OneThing
BY DEF Leads, OneThing

LEMMA DiffLeads ==
  ASSUME NEW a \in Value, NEW b \in Value, a # b
  PROVE  Leads(a, b, diff(a, b)) /\ diff(a, b) \in Change /\ diff(a, b) # Silent
<1>1. Leads(a, b, diff(a, b)) BY DEF Leads, diff
<1>2. diff(a, b) \in Change BY ChangeForm DEF Change, diff
<1>3. diff(a, b) # Silent BY ChangeForm DEF diff
<1>4. QED BY <1>1, <1>2, <1>3

LEMMA SquashingType ==
  ASSUME NEW t \in Change, NEW e \in Change
  PROVE  Squashing(t, e) \in Change
<1>1. squashAdded(t, e.added) \in Change BY ChangeForm DEF Change, squashAdded
<1>2. ASSUME NEW u \in Change PROVE squashUpdated(u, e.from, e.to) \in Change
  BY ChangeForm DEF Change, squashUpdated
<1>3. ASSUME NEW u \in Change PROVE squashRemoved(u, e.removed) \in Change
  <2>1. [u EXCEPT !.added = 0] \in Change BY ChangeForm DEF Change
  <2>2. [u EXCEPT !.removed = e.removed] \in Change BY DEF Change
  <2>3. Removed(u.from) \in Change
    <3>1. u.from \in Value BY DEF Change
    <3>2. QED BY <3>1, ChangeForm DEF Change
  <2>4. QED BY <1>3, <2>1, <2>2, <2>3 DEF squashRemoved
<1>4. QED BY <1>1, <1>2, <1>3 DEF Squashing

LEMMA DiffTypes ==
  /\ EmptyDiff \in [Record -> Change]
  /\ \A d, f \in [Record -> Change] : squash(d, f) \in [Record -> Change]
  /\ \A d \in [Record -> Change] : reverseRecordsDiff(d) \in [Record -> Change]
  /\ \A store \in [Record -> Value], d \in [Record -> Change] : applied(store, d) \in [Record -> Value]
<1>1. EmptyDiff \in [Record -> Change] BY ChangeForm DEF EmptyDiff
<1>2. ASSUME NEW d \in [Record -> Change], NEW f \in [Record -> Change] PROVE squash(d, f) \in [Record -> Change]
  BY SquashingType DEF squash, Squashing
<1>3. ASSUME NEW d \in [Record -> Change] PROVE reverseRecordsDiff(d) \in [Record -> Change]
  <2>1. \A r \in Record : d[r] \in Change OBVIOUS
  <2>2. \A r \in Record : Reversed(d[r]) \in Change BY <2>1 DEF Reversed, Change
  <2>3. QED BY <2>2 DEF reverseRecordsDiff, Reversed
<1>4. ASSUME NEW store \in [Record -> Value], NEW d \in [Record -> Change] PROVE applied(store, d) \in [Record -> Value]
  <2>1. \A r \in Record : d[r].to \in Value /\ d[r].added \in Value BY DEF Change
  <2>2. QED BY <2>1, ChangeForm DEF applied
<1>5. QED BY <1>1, <1>2, <1>3, <1>4

LEMMA AppliedLeads ==
  ASSUME NEW store \in [Record -> Value], NEW d, NEW r \in Record, NEW b \in Value, Leads(store[r], b, d[r])
  PROVE  applied(store, d)[r] = b
<1>1. store[r] \in Value OBVIOUS
<1>2. applied(store, d)[r] = IF d[r].removed # 0 THEN 0
                    ELSE IF d[r].to # 0 THEN d[r].to
                    ELSE IF d[r].added # 0 THEN d[r].added
                    ELSE store[r]
  BY DEF applied
<1>3. QED BY <1>1, <1>2, ChangeForm DEF Leads

-----------------------------------------------------------------------------
(* What squashing a sequence of diffs does.                                *)

SquashChain(v, n, ds) ==
  v[0] = EmptyDiff /\ v[n] = squashed(ds) /\ \A i \in 1 .. n : v[i] = squash(v[i - 1], ds[i])

LEMMA SquashFold ==
  ASSUME NEW n \in Nat, NEW ds \in [1 .. n -> [Record -> Change]]
  PROVE  \E v \in [0 .. n -> [Record -> Change]] : SquashChain(v, n, ds)
<1> DEFINE S == 1 .. n
           R == [Record -> Change]
           top(s) == GreatestIn(s)
           F(g) == g = [s \in SUBSET S |-> IF s = {} THEN EmptyDiff ELSE squash(g[s \ {top(s)}], ds[top(s)])]
           step == [i \in S |-> [x \in R |-> squash(x, ds[i])]]
           fold == CHOOSE g : F(g)
           v == [i \in 0 .. n |-> fold[1 .. i]]
<1>0. EmptyDiff \in R /\ \A x \in R, d \in R : squash(x, d) \in R BY DiffTypes
<1> HIDE DEF R
<1>1. /\ \A s \in SUBSET S : s # {} => top(s) \in s
      /\ \A i \in S : top(1 .. i) = i /\ (1 .. i) \ {i} = 1 .. i - 1
  BY GreatestIsIn
<1>2. PICK it \in [SUBSET S -> R] : FoldsDown(it, n, EmptyDiff, step)
  <2>1. step \in [S -> [R -> R]]
    <3>1. ds \in [S -> R] BY DEF R
    <3>2. QED BY <1>0, <3>1
  <2> HIDE DEF step
  <2>2. QED BY <1>0, <2>1, SequenceFold
<1> HIDE DEF top
<1>3. F(it)
  <2>1. \A s \in SUBSET S : s # {} => top(s) \in S /\ s \ {top(s)} \in SUBSET S BY <1>1
  <2>2. \A s \in SUBSET S : it[s] = IF s = {} THEN EmptyDiff ELSE squash(it[s \ {top(s)}], ds[top(s)])
    BY <1>2, <2>1 DEF FoldsDown, top
  <2>3. QED BY <2>2
<1>4. squashed(ds) = fold[S]
  <2>1. DOMAIN ds = S OBVIOUS
  <2>2. QED BY <2>1 DEF squashed, FoldLeft, MapThenFoldSet, top, GreatestIn, Max
<1>5. \A s \in SUBSET S : fold[s] = IF s = {} THEN EmptyDiff ELSE squash(fold[s \ {top(s)}], ds[top(s)])
  <2>1. F(fold)
    <3> HIDE DEF F
    <3>1. QED BY <1>3
  <2> HIDE DEF fold
  <2>2. QED BY <2>1
<1> HIDE DEF fold
<1>6. ASSUME NEW i \in S PROVE v[i] = squash(v[i - 1], ds[i])
  <2>1. 1 .. i \in SUBSET S /\ 1 .. i # {} /\ i - 1 \in 0 .. n /\ i \in 0 .. n
    <3>1. i \in Nat /\ i >= 1 /\ i <= n /\ 1 \in 1 .. i OBVIOUS
    <3>2. 1 .. i # {} BY <3>1
    <3>3. 1 .. i \subseteq 1 .. n BY <3>1
    <3>4. QED BY <3>1, <3>2, <3>3
  <2>2. fold[1 .. i] = squash(fold[1 .. i - 1], ds[i]) BY <1>1, <1>5, <2>1
  <2>3. QED BY <2>1, <2>2
<1>7. v[0] = EmptyDiff
  <2>1. 1 .. 0 = {} /\ 0 \in 0 .. n /\ {} \in SUBSET S OBVIOUS
  <2>2. fold[{}] = EmptyDiff BY <1>5, <2>1
  <2>3. QED BY <2>1, <2>2
<1>8. v[n] = squashed(ds) BY <1>4
<1>9. v \in [0 .. n -> R]
  <2> DEFINE G == {i \in 0 .. n : v[i] \in R}
  <2> HIDE DEF v
  <2>1. 0 \in G BY <1>0, <1>7
  <2>2. \A i \in S : i - 1 \in G => i \in G
    <3>1. \A i \in S : ds[i] \in R BY DEF R
    <3>2. \A i \in S : i \in 0 .. n OBVIOUS
    <3>3. QED BY <1>0, <1>6, <3>1, <3>2
  <2>3. \A i \in 0 .. n : i \in G
    <3> HIDE DEF G
    <3>1. QED BY <2>1, <2>2, CountingUp
  <2>4. QED BY <2>3 DEF v
<1> HIDE DEF v
<1>10. QED BY <1>6, <1>7, <1>8, <1>9 DEF SquashChain, R

\* The diffs lead a record from a to b, one by one.
DiffWay(u, ds, a, b, r) ==
  u[0] = a /\ u[Len(ds)] = b /\ \A i \in 1 .. Len(ds) : Leads(u[i - 1], u[i], ds[i][r])

\* Squashing the diffs of a way gives the difference between its ends.
LEMMA SquashedWay ==
  ASSUME NEW ds \in Seq([Record -> Change]), NEW r \in Record, NEW a \in Value, NEW b \in Value,
         NEW u \in [0 .. Len(ds) -> Value], DiffWay(u, ds, a, b, r)
  PROVE  Leads(a, b, squashed(ds)[r])
<1> DEFINE n == Len(ds)
<1>1. n \in Nat /\ ds \in [1 .. n -> [Record -> Change]] OBVIOUS
<1>2. PICK v \in [0 .. n -> [Record -> Change]] : SquashChain(v, n, ds)
  BY <1>1, SquashFold
<1> DEFINE G == {i \in 0 .. n : Leads(a, u[i], v[i][r])}
<1>3. 0 \in G
  <2>1. v[0][r] = Silent /\ u[0] = a BY <1>2 DEF SquashChain, DiffWay, EmptyDiff
  <2>2. QED BY <1>1, <2>1 DEF Leads
<1>4. ASSUME NEW i \in 1 .. n, i - 1 \in G PROVE i \in G
  <2>1. i \in 0 .. n /\ i - 1 \in 0 .. n BY <1>1
  <2>2. u[i - 1] \in Value /\ u[i] \in Value BY <2>1
  <2>3. Leads(u[i - 1], u[i], ds[i][r]) /\ v[i] = squash(v[i - 1], ds[i])
    BY <1>2 DEF DiffWay, SquashChain
  <2>4. Leads(a, u[i - 1], v[i - 1][r]) BY <1>4
  <2>5. Leads(a, u[i], Squashing(v[i - 1][r], ds[i][r])) BY <2>2, <2>3, <2>4, SquashLeads
  <2>6. v[i][r] = Squashing(v[i - 1][r], ds[i][r]) BY <2>3 DEF squash, Squashing
  <2>7. QED BY <2>1, <2>5, <2>6
<1>5. \A i \in 0 .. n : i \in G
  <2> HIDE DEF G
  <2>1. QED BY <1>1, <1>3, <1>4, CountingUp
<1>6. u[n] = b /\ v[n] = squashed(ds) /\ n \in 0 .. n BY <1>1, <1>2 DEF DiffWay, SquashChain
<1>7. QED BY <1>5, <1>6

LEMMA SquashedType ==
  ASSUME NEW ds \in Seq([Record -> Change])
  PROVE  squashed(ds) \in [Record -> Change]
<1> DEFINE n == Len(ds)
<1>1. n \in Nat /\ ds \in [1 .. n -> [Record -> Change]] OBVIOUS
<1>2. PICK v \in [0 .. n -> [Record -> Change]] : SquashChain(v, n, ds)
  BY <1>1, SquashFold
<1>3. v[n] = squashed(ds) /\ n \in 0 .. n BY <1>1, <1>2 DEF SquashChain
<1>4. QED BY <1>3

-----------------------------------------------------------------------------
(* Sequences.                                                              *)

LEMMA TwoParts ==
  ASSUME NEW E, NEW s \in Seq(E), NEW k \in 0 .. Len(s)
  PROVE  /\ SubSeq(s, 1, k) \in Seq(E) /\ SubSeq(s, k + 1, Len(s)) \in Seq(E)
         /\ s = SubSeq(s, 1, k) \o SubSeq(s, k + 1, Len(s))
         /\ Len(SubSeq(s, 1, k)) = k /\ Len(SubSeq(s, k + 1, Len(s))) = Len(s) - k
<1> DEFINE p == SubSeq(s, 1, k)
           q == SubSeq(s, k + 1, Len(s))
           n == Len(s)
<1>1. n \in Nat /\ k \in Nat /\ k <= n OBVIOUS
<1>2. p \in Seq(E) /\ Len(p) = k /\ \A i \in 1 .. k : p[i] = s[i]
  BY <1>1
<1>3. q \in Seq(E) /\ Len(q) = n - k /\ \A i \in 1 .. n - k : q[i] = s[k + i]
  <2>1. n - k \in Nat BY <1>1
  <2>2. q \in Seq(E) BY <1>1
  <2>3. Len(q) = n - k BY <1>1
  <2>4. \A i \in 1 .. n - k : q[i] = s[k + i] BY <1>1
  <2>5. QED BY <2>2, <2>3, <2>4
<1>4. s = p \o q
  <2> HIDE DEF p, q
  <2>1. p \o q \in Seq(E) /\ Len(p \o q) = n BY <1>1, <1>2, <1>3
  <2>2. ASSUME NEW i \in 1 .. n PROVE (p \o q)[i] = s[i]
    <3>1. CASE i <= k BY <1>1, <1>2, <1>3, <3>1
    <3>2. CASE ~(i <= k)
      <4>1. i - k \in 1 .. n - k /\ k + (i - k) = i BY <1>1, <3>2
      <4>2. (p \o q)[i] = q[i - k] BY <1>1, <1>2, <1>3, <3>2, <4>1
      <4>3. QED BY <1>3, <4>1, <4>2
    <3>3. QED BY <3>1, <3>2
  <2>3. s \in Seq(E) OBVIOUS
  <2> DEFINE t == p \o q
  <2>4. t \in Seq(E) /\ Len(t) = Len(s) /\ \A i \in 1 .. Len(t) : t[i] = s[i] BY <2>1, <2>2
  <2> HIDE DEF t
  <2>5. t = s BY <2>3, <2>4, SeqEqual
  <2>6. QED BY <2>5 DEF t
<1>5. QED BY <1>2, <1>3, <1>4

LEMMA ReverseIs ==
  ASSUME NEW E, NEW s \in Seq(E)
  PROVE  /\ Reverse(s) \in Seq(E) /\ Len(Reverse(s)) = Len(s)
         /\ \A i \in 1 .. Len(s) : Reverse(s)[i] = s[Len(s) - i + 1]
<1>1. Len(s) \in Nat OBVIOUS
<1>2. \A i \in 1 .. Len(s) : Len(s) - i + 1 \in 1 .. Len(s) BY <1>1
<1>3. \A i \in 1 .. Len(s) : s[Len(s) - i + 1] \in E BY <1>2
<1>4. QED BY <1>1, <1>3 DEF Reverse

LEMMA ReverseTwice ==
  ASSUME NEW E, NEW s \in Seq(E)
  PROVE  Reverse(Reverse(s)) = s
<1> DEFINE n == Len(s)
           t == Reverse(s)
<1>1. n \in Nat OBVIOUS
<1>2. t \in Seq(E) /\ Len(t) = n /\ \A i \in 1 .. n : t[i] = s[n - i + 1] BY ReverseIs
<1> HIDE DEF t
<1>3. Reverse(t) \in Seq(E) /\ Len(Reverse(t)) = n /\ \A i \in 1 .. n : Reverse(t)[i] = t[n - i + 1]
  BY <1>2, ReverseIs
<1>4. ASSUME NEW i \in 1 .. n PROVE Reverse(t)[i] = s[i]
  <2>1. n - i + 1 \in 1 .. n /\ n - (n - i + 1) + 1 = i BY <1>1
  <2>2. t[n - i + 1] = s[n - (n - i + 1) + 1] BY <1>2, <2>1
  <2>3. QED BY <1>3, <2>1, <2>2
<1>5. Reverse(t) = s BY <1>3, <1>4
<1>6. QED BY <1>5 DEF t

LEMMA ReverseJoined ==
  ASSUME NEW E, NEW s \in Seq(E), NEW t \in Seq(E)
  PROVE  Reverse(s \o t) = Reverse(t) \o Reverse(s)
<1> DEFINE n == Len(s)
           k == Len(t)
           p == Reverse(s)
           q == Reverse(t)
           st == s \o t
<1>1. n \in Nat /\ k \in Nat OBVIOUS
<1>2. p \in Seq(E) /\ Len(p) = n /\ \A i \in 1 .. n : p[i] = s[n - i + 1] BY ReverseIs
<1>3. q \in Seq(E) /\ Len(q) = k /\ \A i \in 1 .. k : q[i] = t[k - i + 1] BY ReverseIs
<1>4. st \in Seq(E) /\ Len(st) = n + k OBVIOUS
<1>5. \A i \in 1 .. n : st[i] = s[i] OBVIOUS
<1>6. \A i \in 1 .. k : st[n + i] = t[i] OBVIOUS
<1> HIDE DEF p, q, st
<1>7. Reverse(st) \in Seq(E) /\ Len(Reverse(st)) = n + k /\ \A i \in 1 .. n + k : Reverse(st)[i] = st[n + k - i + 1]
  BY <1>4, ReverseIs
<1>8. /\ q \o p \in Seq(E) /\ Len(q \o p) = n + k
      /\ \A i \in 1 .. n + k : (q \o p)[i] = IF i <= k THEN q[i] ELSE p[i - k]
  <2>1. q \in Seq(E) /\ p \in Seq(E) BY <1>2, <1>3
  <2>2. /\ q \o p \in Seq(E) /\ Len(q \o p) = Len(q) + Len(p)
        /\ \A i \in 1 .. Len(q) + Len(p) : (q \o p)[i] = IF i <= Len(q) THEN q[i] ELSE p[i - Len(q)]
    BY <2>1, ConcatProperties
  <2>3. Len(q) + Len(p) = n + k BY <1>1, <1>2, <1>3
  <2>4. QED BY <1>2, <1>3, <2>2, <2>3
<1>9. ASSUME NEW i \in 1 .. n + k PROVE Reverse(st)[i] = (q \o p)[i]
  <2>1. CASE i <= k
    <3>1. i \in 1 .. k /\ k - i + 1 \in 1 .. k /\ n + k - i + 1 = n + (k - i + 1) BY <1>1, <2>1
    <3>2. st[n + k - i + 1] = t[k - i + 1] BY <1>6, <3>1
    <3>3. (q \o p)[i] = q[i] BY <1>8, <2>1
    <3>4. QED BY <1>3, <1>7, <3>1, <3>2, <3>3
  <2>2. CASE ~(i <= k)
    <3>1. i - k \in 1 .. n /\ n - (i - k) + 1 \in 1 .. n /\ n + k - i + 1 = n - (i - k) + 1 BY <1>1, <2>2
    <3>2. st[n + k - i + 1] = s[n - (i - k) + 1] BY <1>5, <3>1
    <3>3. (q \o p)[i] = p[i - k] BY <1>8, <2>2
    <3>4. QED BY <1>2, <1>7, <3>1, <3>2, <3>3
  <2>3. QED BY <2>1, <2>2
<1>10. Reverse(st) = q \o p BY <1>7, <1>8, <1>9
<1>11. QED BY <1>10 DEF p, q, st

-----------------------------------------------------------------------------
(* Ways through a stack.                                                   *)

\* An entry leads record r from a to b; a mark leaves it as it was when the mark
\* was set.  m is what marked remembers.
Steps(e, a, b, r, m) ==
  /\ e.type = "diff" => Leads(a, b, e.diff[r])
  /\ e.type = "stop" => a = b /\ e.id \in DOMAIN m /\ m[e.id][r] = a

Way(u, s, a, b, r, m) ==
  u[0] = a /\ u[Len(s)] = b /\ \A i \in 1 .. Len(s) : Steps(s[i], u[i - 1], u[i], r, m)

From(s, a, b, r, m) == \E u \in [0 .. Len(s) -> Value] : Way(u, s, a, b, r, m)

LEMMA WayNone ==
  ASSUME NEW a \in Value, NEW r, NEW m
  PROVE  From(<<>>, a, a, r, m)
<1> DEFINE u == [i \in 0 .. 0 |-> a]
<1>1. Len(<<>>) = 0 OBVIOUS
<1>2. u \in [0 .. 0 -> Value] /\ u[0] = a OBVIOUS
<1> HIDE DEF u
<1>3. Way(u, <<>>, a, a, r, m) BY <1>1, <1>2 DEF Way
<1>4. QED BY <1>1, <1>2, <1>3 DEF From

LEMMA WayOne ==
  ASSUME NEW e, NEW a \in Value, NEW b \in Value, NEW r, NEW m, Steps(e, a, b, r, m)
  PROVE  From(<<e>>, a, b, r, m)
<1> DEFINE u == [i \in 0 .. 1 |-> IF i = 0 THEN a ELSE b]
<1>1. Len(<<e>>) = 1 /\ <<e>>[1] = e OBVIOUS
<1>2. u \in [0 .. 1 -> Value] /\ u[0] = a /\ u[1] = b OBVIOUS
<1> HIDE DEF u
<1>3. Way(u, <<e>>, a, b, r, m)
  <2>1. \A i \in 1 .. 1 : i = 1 /\ i - 1 = 0 OBVIOUS
  <2>2. Steps(<<e>>[1], u[0], u[1], r, m) BY <1>1, <1>2
  <2>3. QED BY <1>1, <1>2, <2>1, <2>2 DEF Way
<1>4. QED BY <1>1, <1>2, <1>3 DEF From

LEMMA WayJoin ==
  ASSUME NEW E, NEW s \in Seq(E), NEW t \in Seq(E), NEW a, NEW b, NEW c, NEW r, NEW m,
         From(s, a, b, r, m), From(t, b, c, r, m)
  PROVE  From(s \o t, a, c, r, m)
<1> DEFINE n == Len(s)
           k == Len(t)
           st == s \o t
<1>1. n \in Nat /\ k \in Nat OBVIOUS
<1>2. PICK u \in [0 .. n -> Value] : Way(u, s, a, b, r, m) BY DEF From
<1>3. PICK v \in [0 .. k -> Value] : Way(v, t, b, c, r, m) BY DEF From
<1> DEFINE w == [i \in 0 .. n + k |-> IF i <= n THEN u[i] ELSE v[i - n]]
<1>4. Len(st) = n + k /\ (\A i \in 1 .. n : st[i] = s[i]) /\ (\A i \in 1 .. k : st[n + i] = t[i])
  OBVIOUS
<1>5. w \in [0 .. n + k -> Value]
  <2>1. \A i \in 0 .. n + k : i <= n => i \in 0 .. n BY <1>1
  <2>2. \A i \in 0 .. n + k : ~(i <= n) => i - n \in 0 .. k BY <1>1
  <2>3. QED BY <2>1, <2>2
<1>6. \A i \in 0 .. n : w[i] = u[i] BY <1>1
<1>7. \A i \in 0 .. k : w[n + i] = v[i]
  <2>1. u[n] = v[0] BY <1>2, <1>3 DEF Way
  <2>2. SUFFICES ASSUME NEW i \in 0 .. k PROVE w[n + i] = v[i] OBVIOUS
  <2>3. CASE i = 0 BY <1>1, <2>1, <2>3
  <2>4. CASE i # 0 BY <1>1, <2>4
  <2>5. QED BY <2>3, <2>4
<1> HIDE DEF w, st
<1>8. ASSUME NEW i \in 1 .. n + k PROVE Steps(st[i], w[i - 1], w[i], r, m)
  <2>1. CASE i <= n
    <3>1. i \in 1 .. n /\ i - 1 \in 0 .. n /\ i \in 0 .. n BY <1>1, <2>1
    <3>2. Steps(s[i], u[i - 1], u[i], r, m) BY <1>2, <3>1 DEF Way
    <3>3. QED BY <1>4, <1>6, <3>1, <3>2
  <2>2. CASE ~(i <= n)
    <3> DEFINE j == i - n
    <3>1. j \in 1 .. k /\ j - 1 \in 0 .. k /\ j \in 0 .. k /\ n + j = i /\ n + (j - 1) = i - 1 BY <1>1, <2>2
    <3> HIDE DEF j
    <3>2. Steps(t[j], v[j - 1], v[j], r, m) BY <1>3, <3>1 DEF Way
    <3>3. st[n + j] = t[j] /\ w[n + j] = v[j] /\ w[n + (j - 1)] = v[j - 1] BY <1>4, <1>7, <3>1
    <3>4. QED BY <3>1, <3>2, <3>3
  <2>3. QED BY <2>1, <2>2
<1>9. w[0] = a /\ w[n + k] = c
  <2>1. u[0] = a /\ v[k] = c BY <1>2, <1>3 DEF Way
  <2>2. 0 \in 0 .. n /\ k \in 0 .. k BY <1>1
  <2>3. QED BY <1>6, <1>7, <2>1, <2>2
<1>10. Way(w, st, a, c, r, m) BY <1>4, <1>8, <1>9 DEF Way
<1>11. From(st, a, c, r, m) BY <1>4, <1>5, <1>10 DEF From
<1>12. QED BY <1>11 DEF st

LEMMA WaySplit ==
  ASSUME NEW E, NEW s \in Seq(E), NEW t \in Seq(E), NEW a, NEW c, NEW r, NEW m, From(s \o t, a, c, r, m)
  PROVE  \E b \in Value : From(s, a, b, r, m) /\ From(t, b, c, r, m)
<1> DEFINE n == Len(s)
           k == Len(t)
           st == s \o t
<1>1. n \in Nat /\ k \in Nat OBVIOUS
<1>2. Len(st) = n + k /\ (\A i \in 1 .. n : st[i] = s[i]) /\ (\A i \in 1 .. k : st[n + i] = t[i])
  OBVIOUS
<1>3. From(st, a, c, r, m) OBVIOUS
<1> HIDE DEF st
<1>4. PICK w \in [0 .. n + k -> Value] : Way(w, st, a, c, r, m) BY <1>2, <1>3 DEF From
<1> DEFINE u == [i \in 0 .. n |-> w[i]]
           v == [i \in 0 .. k |-> w[n + i]]
           b == w[n]
<1>5. u \in [0 .. n -> Value] /\ b \in Value
  <2>1. \A i \in 0 .. n : i \in 0 .. n + k BY <1>1
  <2>2. n \in 0 .. n BY <1>1
  <2>3. QED BY <2>1, <2>2
<1>6. v \in [0 .. k -> Value]
  <2>1. \A i \in 0 .. k : n + i \in 0 .. n + k BY <1>1
  <2>2. QED BY <2>1
<1>7. \A i \in 0 .. n : u[i] = w[i] OBVIOUS
<1>8. \A i \in 0 .. k : v[i] = w[n + i] OBVIOUS
<1>9. w[0] = a /\ w[n + k] = c /\ \A i \in 1 .. n + k : Steps(st[i], w[i - 1], w[i], r, m)
  BY <1>2, <1>4 DEF Way
<1> HIDE DEF u, v
<1>10. From(s, a, b, r, m)
  <2>1. ASSUME NEW i \in 1 .. n PROVE Steps(s[i], u[i - 1], u[i], r, m)
    <3>1. i \in 1 .. n + k /\ i - 1 \in 0 .. n /\ i \in 0 .. n BY <1>1
    <3>2. QED BY <1>2, <1>7, <1>9, <3>1
  <2>2. u[0] = a /\ u[n] = b
    <3>1. 0 \in 0 .. n /\ n \in 0 .. n BY <1>1
    <3>2. QED BY <1>7, <1>9, <3>1
  <2>3. Way(u, s, a, b, r, m) BY <2>1, <2>2 DEF Way
  <2>4. QED BY <1>5, <2>3 DEF From
<1>11. From(t, b, c, r, m)
  <2>1. ASSUME NEW i \in 1 .. k PROVE Steps(t[i], v[i - 1], v[i], r, m)
    <3>1. n + i \in 1 .. n + k /\ n + i - 1 = n + (i - 1) /\ i - 1 \in 0 .. k /\ i \in 0 .. k BY <1>1
    <3>2. Steps(st[n + i], w[n + i - 1], w[n + i], r, m) BY <1>9, <3>1
    <3>3. st[n + i] = t[i] /\ v[i] = w[n + i] /\ v[i - 1] = w[n + (i - 1)] BY <1>2, <1>8, <3>1
    <3>4. QED BY <3>1, <3>2, <3>3
  <2>2. v[0] = b /\ v[k] = c
    <3>1. 0 \in 0 .. k /\ k \in 0 .. k /\ n + 0 = n BY <1>1
    <3>2. QED BY <1>8, <1>9, <3>1
  <2>3. Way(v, t, b, c, r, m) BY <2>1, <2>2 DEF Way
  <2>4. QED BY <1>6, <2>3 DEF From
<1> HIDE DEF b
<1>12. QED BY <1>5, <1>10, <1>11

\* A way goes on to be one when more marks are set.
LEMMA WayMarks ==
  ASSUME NEW E, NEW s \in Seq(E), NEW a, NEW b, NEW r, NEW m, NEW mm, From(s, a, b, r, m),
         \A i \in DOMAIN m : i \in DOMAIN mm /\ mm[i] = m[i]
  PROVE  From(s, a, b, r, mm)
<1>1. PICK u \in [0 .. Len(s) -> Value] : Way(u, s, a, b, r, m) BY DEF From
<1>2. ASSUME NEW i \in 1 .. Len(s) PROVE Steps(s[i], u[i - 1], u[i], r, mm)
  BY <1>1 DEF Way, Steps
<1>3. Way(u, s, a, b, r, mm) BY <1>1, <1>2 DEF Way
<1>4. QED BY <1>3 DEF From

\* Where a mark stands the record had the value it had when the mark was set.
LEMMA WayAtMark ==
  ASSUME NEW s \in Seq(Entry), NEW a, NEW b, NEW r, NEW m, From(s, a, b, r, m),
         Len(s) >= 1, s[1].type = "stop"
  PROVE  m[s[1].id][r] = a
<1>1. PICK u \in [0 .. Len(s) -> Value] : Way(u, s, a, b, r, m) BY DEF From
<1>2. 1 \in 1 .. Len(s) /\ 1 - 1 = 0 OBVIOUS
<1>3. Steps(s[1], u[0], u[1], r, m) /\ u[0] = a BY <1>1, <1>2 DEF Way
<1>4. QED BY <1>3 DEF Steps

\* Its diffs say one thing at most of the record.
LEMMA WayOneThing ==
  ASSUME NEW s \in Seq(Entry), NEW a, NEW b, NEW r, NEW m, From(s, a, b, r, m),
         NEW i \in 1 .. Len(s), s[i].type = "diff"
  PROVE  s[i].diff[r] \in OneThing
<1>1. PICK u \in [0 .. Len(s) -> Value] : Way(u, s, a, b, r, m) BY DEF From
<1>2. i - 1 \in 0 .. Len(s) /\ i \in 0 .. Len(s) OBVIOUS
<1>3. u[i - 1] \in Value /\ u[i] \in Value BY <1>2
<1>4. Leads(u[i - 1], u[i], s[i].diff[r]) BY <1>1 DEF Way, Steps
<1>5. QED BY <1>3, <1>4, LeadsType

\* The diffs of a stack, and what undone makes of them.
LEMMA DiffsType ==
  ASSUME NEW s \in Seq(Entry)
  PROVE  /\ diffsOf(s) \in Seq([Record -> Change]) /\ Len(diffsOf(s)) = Len(s)
         /\ \A i \in 1 .. Len(s) : diffsOf(s)[i] = IF s[i].type = "diff" THEN s[i].diff ELSE EmptyDiff
<1> DEFINE n == Len(s)
<1>1. n \in Nat /\ DOMAIN s = 1 .. n /\ \A i \in 1 .. n : s[i] \in Entry OBVIOUS
<1>2. \A e \in Entry : (IF e.type = "diff" THEN e.diff ELSE EmptyDiff) \in [Record -> Change]
  BY DiffTypes DEF Entry
<1>3. diffsOf(s) = [i \in 1 .. n |-> IF s[i].type = "diff" THEN s[i].diff ELSE EmptyDiff]
  BY <1>1 DEF diffsOf
<1>4. \A i \in 1 .. n : diffsOf(s)[i] = IF s[i].type = "diff" THEN s[i].diff ELSE EmptyDiff
  BY <1>3
<1>5. \A i \in 1 .. n : diffsOf(s)[i] \in [Record -> Change]
  BY <1>1, <1>2, <1>4
<1> DEFINE d == diffsOf(s)
<1>6. d \in [1 .. n -> [Record -> Change]] BY <1>3, <1>5
<1> HIDE DEF d
<1>7. d \in Seq([Record -> Change]) /\ Len(d) = n
  BY <1>1, <1>6
<1>8. QED BY <1>4, <1>7 DEF d

LEMMA WaySquashed ==
  ASSUME NEW s \in Seq(Entry), NEW a \in Value, NEW b \in Value, NEW r \in Record, NEW m, From(s, a, b, r, m)
  PROVE  Leads(a, b, squashed(diffsOf(s))[r])
<1> DEFINE n == Len(s)
           ds == diffsOf(s)
<1>1. PICK u \in [0 .. n -> Value] : Way(u, s, a, b, r, m) BY DEF From
<1>2. ds \in Seq([Record -> Change]) /\ Len(ds) = n
      /\ \A i \in 1 .. n : ds[i] = IF s[i].type = "diff" THEN s[i].diff ELSE EmptyDiff
  BY DiffsType
<1>3. \A i \in 1 .. n : s[i] \in Entry OBVIOUS
<1> HIDE DEF ds
<1>4. ASSUME NEW i \in 1 .. n PROVE Leads(u[i - 1], u[i], ds[i][r])
  <2>1. Steps(s[i], u[i - 1], u[i], r, m) BY <1>1 DEF Way
  <2>2. CASE s[i].type = "diff" BY <1>2, <2>1, <2>2 DEF Steps
  <2>3. CASE s[i].type # "diff"
    <3>1. s[i].type = "stop" BY <1>3, <2>3 DEF Entry
    <3>2. u[i] = u[i - 1] /\ ds[i][r] = Silent BY <1>2, <2>1, <3>1 DEF Steps, EmptyDiff
    <3>3. QED BY <3>2 DEF Leads
  <2>4. QED BY <2>2, <2>3
<1>5. DiffWay(u, ds, a, b, r) BY <1>1, <1>2, <1>4 DEF DiffWay, Way
<1>6. u \in [0 .. Len(ds) -> Value] BY <1>2
<1>7. Leads(a, b, squashed(ds)[r]) BY <1>2, <1>5, <1>6, SquashedWay
<1>8. QED BY <1>7 DEF ds

\* Popped from its head on and reversed, a stack leads back.
Backwards(s) == LET ds == diffsOf(s) IN [i \in DOMAIN ds |-> reverseRecordsDiff(ds[i])]

LEMMA BackwardsType ==
  ASSUME NEW s \in Seq(Entry)
  PROVE  /\ Backwards(s) \in Seq([Record -> Change]) /\ Len(Backwards(s)) = Len(s)
         /\ \A i \in 1 .. Len(s) : Backwards(s)[i] = reverseRecordsDiff(diffsOf(s)[i])
<1> DEFINE n == Len(s)
           ds == diffsOf(s)
<1>1. ds \in Seq([Record -> Change]) /\ Len(ds) = n BY DiffsType
<1>2. n \in Nat OBVIOUS
<1> HIDE DEF ds
<1>3. DOMAIN ds = 1 .. n /\ \A i \in 1 .. n : ds[i] \in [Record -> Change] BY <1>1
<1>4. \A i \in 1 .. n : reverseRecordsDiff(ds[i]) \in [Record -> Change] BY <1>3, DiffTypes
<1> DEFINE t == [i \in 1 .. n |-> reverseRecordsDiff(ds[i])]
<1>5. t \in [1 .. n -> [Record -> Change]] /\ \A i \in 1 .. n : t[i] = reverseRecordsDiff(ds[i]) BY <1>4
<1>6. Backwards(s) = t BY <1>3 DEF Backwards, ds
<1> HIDE DEF t
<1>7. t \in Seq([Record -> Change]) /\ Len(t) = n BY <1>2, <1>5
<1>8. QED BY <1>5, <1>6, <1>7 DEF ds

LEMMA WayBack ==
  ASSUME NEW s \in Seq(Entry), NEW a \in Value, NEW b \in Value, NEW r \in Record, NEW m, From(s, a, b, r, m)
  PROVE  Leads(b, a, squashed(Backwards(Reverse(s)))[r])
<1> DEFINE n == Len(s)
           p == Reverse(s)
           ds == diffsOf(p)
           bs == Backwards(p)
<1>0. n \in Nat OBVIOUS
<1>1. PICK u \in [0 .. n -> Value] : Way(u, s, a, b, r, m) BY DEF From
<1>2. p \in Seq(Entry) /\ Len(p) = n /\ \A i \in 1 .. n : p[i] = s[n - i + 1] BY ReverseIs
<1> HIDE DEF p
<1>3. ds \in Seq([Record -> Change]) /\ Len(ds) = n
      /\ \A i \in 1 .. n : ds[i] = IF p[i].type = "diff" THEN p[i].diff ELSE EmptyDiff
  BY <1>2, DiffsType
<1>4. bs \in Seq([Record -> Change]) /\ Len(bs) = n /\ \A i \in 1 .. n : bs[i] = reverseRecordsDiff(ds[i])
  BY <1>2, BackwardsType
<1> HIDE DEF ds, bs
<1> DEFINE w == [i \in 0 .. n |-> u[n - i]]
<1>5. w \in [0 .. n -> Value] /\ \A i \in 0 .. n : w[i] = u[n - i]
  <2>1. \A i \in 0 .. n : n - i \in 0 .. n BY <1>0
  <2>2. QED BY <2>1
<1> HIDE DEF w
<1>6. ASSUME NEW i \in 1 .. n PROVE Leads(w[i - 1], w[i], bs[i][r])
  <2> DEFINE j == n - i + 1
  <2>1. j \in 1 .. n /\ j - 1 = n - i /\ n - (i - 1) = j /\ i - 1 \in 0 .. n /\ i \in 0 .. n
        /\ j \in 0 .. n /\ j - 1 \in 0 .. n
    BY <1>0
  <2>2. w[i - 1] = u[j] /\ w[i] = u[j - 1] /\ p[i] = s[j] BY <1>2, <1>5, <2>1
  <2> HIDE DEF j
  <2>3. Steps(s[j], u[j - 1], u[j], r, m) /\ s[j] \in Entry BY <1>1, <2>1 DEF Way
  <2>4. Leads(u[j - 1], u[j], ds[i][r])
    <3>1. CASE s[j].type = "diff" BY <1>3, <2>2, <2>3, <3>1 DEF Steps
    <3>2. CASE s[j].type # "diff"
      <4>1. s[j].type = "stop" BY <2>3, <3>2 DEF Entry
      <4>2. u[j] = u[j - 1] /\ ds[i][r] = Silent BY <1>3, <2>2, <2>3, <4>1 DEF Steps, EmptyDiff
      <4>3. QED BY <4>2 DEF Leads
    <3>3. QED BY <3>1, <3>2
  <2>5. u[j - 1] \in Value /\ u[j] \in Value BY <2>1
  <2>6. Leads(u[j], u[j - 1], Reversed(ds[i][r])) BY <2>4, <2>5, ReverseLeads
  <2>7. bs[i][r] = Reversed(ds[i][r]) BY <1>4 DEF reverseRecordsDiff, Reversed
  <2>8. QED BY <2>2, <2>6, <2>7
<1>7. w[0] = b /\ w[n] = a
  <2>1. 0 \in 0 .. n /\ n \in 0 .. n /\ n - 0 = n /\ n - n = 0 BY <1>0
  <2>2. u[0] = a /\ u[n] = b BY <1>1 DEF Way
  <2>3. QED BY <1>5, <2>1, <2>2
<1>8. DiffWay(w, bs, b, a, r) BY <1>4, <1>6, <1>7 DEF DiffWay
<1>9. w \in [0 .. Len(bs) -> Value] BY <1>4, <1>5
<1>10. Leads(b, a, squashed(bs)[r]) BY <1>4, <1>8, <1>9, SquashedWay
<1>11. QED BY <1>10 DEF bs, p

-----------------------------------------------------------------------------
(* Looking for the last mark or diff.                                      *)

LEMMA GreatestOfSome ==
  ASSUME NEW n \in Nat, NEW S \in SUBSET (1 .. n)
  PROVE  Max(S \cup {0}) \in S \cup {0}
<1> DEFINE T == S \cup {0}
<1>1. T \in SUBSET Int /\ T # {} OBVIOUS
<1>2. IsFiniteSet(T)
  <2>1. IsFiniteSet(0 .. n)
    <3>1. 0 \in Int /\ n \in Int OBVIOUS
    <3>2. QED BY <3>1, FS_Interval
  <2>2. T \subseteq 0 .. n OBVIOUS
  <2>3. QED BY <2>1, <2>2, FS_Subset
<1>3. \E x \in T : \A y \in T : x >= y
  <2> HIDE DEF T
  <2>1. QED BY <1>1, <1>2, GreatestOf
<1>4. QED BY <1>3 DEF Max

LEMMA LastStopIs ==
  ASSUME NEW E, NEW s \in Seq(E), NEW Marks
  PROVE  /\ LastStop(s, Marks) \in 0 .. Len(s)
         /\ LastStop(s, Marks) # 0 =>
              s[LastStop(s, Marks)].type = "stop" /\ s[LastStop(s, Marks)].id \in Marks
<1> DEFINE S == {i \in DOMAIN s : s[i].type = "stop" /\ s[i].id \in Marks}
<1>1. Len(s) \in Nat /\ S \in SUBSET (1 .. Len(s)) OBVIOUS
<1>2. LastStop(s, Marks) = Max(S \cup {0}) BY DEF LastStop
<1>3. Max(S \cup {0}) \in S \cup {0}
  <2> HIDE DEF S
  <2>1. QED BY <1>1, GreatestOfSome
<1>4. QED BY <1>1, <1>2, <1>3

LEMMA LastDiffIs ==
  ASSUME NEW E, NEW s \in Seq(E)
  PROVE  LastDiff(s) \in 0 .. Len(s)
<1> DEFINE S == {i \in DOMAIN s : s[i].type = "diff"}
<1>1. Len(s) \in Nat /\ S \in SUBSET (1 .. Len(s)) OBVIOUS
<1>2. LastDiff(s) = Max(S \cup {0}) BY DEF LastDiff
<1>3. Max(S \cup {0}) \in S \cup {0}
  <2> HIDE DEF S
  <2>1. QED BY <1>1, GreatestOfSome
<1>4. QED BY <1>1, <1>2, <1>3

LEMMA LeftIs ==
  ASSUME NEW E, NEW s \in Seq(E), NEW quiet \in BOOLEAN
  PROVE  left(s, quiet) \in 0 .. Len(s)
<1> DEFINE t == IF quiet THEN SubSeq(s, 1, LastDiff(s)) ELSE s
           stop == LastStop(t, Mark)
<1>1. t \in Seq(E) /\ Len(t) <= Len(s)
  <2>1. LastDiff(s) \in 0 .. Len(s) BY LastDiffIs
  <2>2. SubSeq(s, 1, LastDiff(s)) \in Seq(E) /\ Len(SubSeq(s, 1, LastDiff(s))) = LastDiff(s) BY <2>1, TwoParts
  <2>3. QED BY <2>1, <2>2
<1> HIDE DEF t
<1>2. stop \in 0 .. Len(t) BY <1>1, LastStopIs
<1>3. left(s, quiet) = IF stop = 0 THEN 0 ELSE stop - 1 BY DEF left, t
<1> HIDE DEF stop
<1>4. Len(s) \in Nat /\ Len(t) \in Nat BY <1>1
<1>5. QED BY <1>1, <1>2, <1>3, <1>4

-----------------------------------------------------------------------------
(* The invariant.                                                          *)

Managers ==
  [store : [Record -> Value], undos : Seq(Entry), redos : Seq(Entry), pending : [Record -> Change], isEmpty : BOOLEAN]

WellFormed(x) == x \in Managers /\ (x.isEmpty <=> isRecordsDiffEmpty(x.pending))

\* The undo stack and the pending diff lead record r to what the store holds.
Past(x, r, m) ==
  \E a, b \in Value : From(x.undos, a, b, r, m) /\ Leads(b, x.store[r], x.pending[r])

\* The redo stack leads it from there to the tip.
Future(x, r, m, t) == From(Reverse(x.redos), x.store[r], t[r], r, m)

TypeInv ==
  /\ WellFormed(h)
  /\ state \in States /\ batches \in Seq(States)
  /\ marked \in Seq([Record -> Value]) /\ Len(marked) <= MaxMarks
  /\ tip \in [Record -> Value] /\ forked \in BOOLEAN

HistoryInv ==
  TypeInv /\ (~forked => \A r \in Own : Past(h, r, marked) /\ Future(h, r, marked, tip))

-----------------------------------------------------------------------------
(* The pending diff, as an entry.                                          *)

Top(x) == IF isRecordsDiffEmpty(x.pending) THEN <<>> ELSE <<Diff(x.pending)>>

LEMMA DiffIsEntry ==
  ASSUME NEW d \in [Record -> Change]
  PROVE  Diff(d) \in Entry /\ Diff(d).type = "diff" /\ Diff(d).diff = d
BY DEF Diff, Entry

LEMMA StopIsEntry ==
  ASSUME NEW m \in Mark
  PROVE  Stop(m) \in Entry /\ Stop(m).type = "stop" /\ Stop(m).id = m
BY DEF Stop, Entry

LEMMA ManagerFields ==
  ASSUME NEW x \in Managers
  PROVE  /\ x.store \in [Record -> Value] /\ x.undos \in Seq(Entry) /\ x.redos \in Seq(Entry)
         /\ x.pending \in [Record -> Change] /\ x.isEmpty \in BOOLEAN
BY DEF Managers

LEMMA ManagerOf ==
  ASSUME NEW store \in [Record -> Value], NEW undos \in Seq(Entry), NEW redos \in Seq(Entry),
         NEW pending \in [Record -> Change], NEW isEmpty \in BOOLEAN
  PROVE  [store |-> store, undos |-> undos, redos |-> redos, pending |-> pending, isEmpty |-> isEmpty] \in Managers
BY DEF Managers

LEMMA TopIs ==
  ASSUME NEW x \in Managers
  PROVE  /\ Top(x) \in Seq(Entry) /\ Reverse(Top(x)) = Top(x)
         /\ \A m : \A r \in Record, c \in Value :
              Leads(c, x.store[r], x.pending[r]) => From(Top(x), c, x.store[r], r, m)
<1>1. x.pending \in [Record -> Change] /\ x.store \in [Record -> Value] BY ManagerFields
<1>2. CASE isRecordsDiffEmpty(x.pending)
  <2>1. Top(x) = <<>> BY <1>2 DEF Top
  <2>2. Top(x) \in Seq(Entry) /\ Len(Top(x)) = 0 BY <2>1
  <2>3. Reverse(Top(x)) = Top(x)
    <3>1. Reverse(Top(x)) \in Seq(Entry) /\ Len(Reverse(Top(x))) = 0 BY <2>2, ReverseIs
    <3>2. QED BY <2>1, <3>1
  <2>4. ASSUME NEW r \in Record, NEW c \in Value, NEW m, Leads(c, x.store[r], x.pending[r])
        PROVE  From(Top(x), c, x.store[r], r, m)
    <3>1. x.pending[r] = Silent BY <1>2 DEF isRecordsDiffEmpty, EmptyDiff
    <3>2. x.store[r] = c
      <4>1. x.store[r] \in Value BY <1>1
      <4>2. QED BY <2>4, <3>1, <4>1, ChangeForm DEF Leads
    <3>3. From(<<>>, c, c, r, m) BY WayNone
    <3>4. QED BY <2>1, <3>2, <3>3
  <2>5. QED BY <2>2, <2>3, <2>4
<1>3. CASE ~isRecordsDiffEmpty(x.pending)
  <2> DEFINE e == Diff(x.pending)
  <2>1. Top(x) = <<e>> BY <1>3 DEF Top
  <2>2. e \in Entry /\ e.type = "diff" /\ e.diff = x.pending BY <1>1, DiffIsEntry
  <2> HIDE DEF e
  <2>3. <<e>> \in Seq(Entry) /\ Len(<<e>>) = 1 /\ <<e>>[1] = e BY <2>2
  <2>4. Reverse(<<e>>) = <<e>>
    <3>1. Reverse(<<e>>) \in Seq(Entry) /\ Len(Reverse(<<e>>)) = 1
          /\ \A i \in 1 .. 1 : Reverse(<<e>>)[i] = <<e>>[1 - i + 1]
      BY <2>3, ReverseIs
    <3>2. Reverse(<<e>>)[1] = <<e>>[1]
      <4>1. 1 \in 1 .. 1 /\ 1 - 1 + 1 = 1 OBVIOUS
      <4>2. QED BY <3>1, <4>1
    <3>3. QED BY <2>3, <3>1, <3>2
  <2>5. ASSUME NEW r \in Record, NEW c \in Value, NEW m, Leads(c, x.store[r], x.pending[r])
        PROVE  From(Top(x), c, x.store[r], r, m)
    <3>1. x.store[r] \in Value BY <1>1
    <3>2. Steps(e, c, x.store[r], r, m) BY <2>2, <2>5 DEF Steps
    <3>3. QED BY <2>1, <3>1, <3>2, WayOne
  <2>6. QED BY <2>1, <2>3, <2>4, <2>5
<1>4. QED BY <1>2, <1>3

-----------------------------------------------------------------------------
(* Undoing.                                                                *)

\* What is undone, from the end of the undo stack on.
Popped(x, kept) == Reverse(SubSeq(x.undos, kept + 1, Len(x.undos)))

LEMMA UndoneIs ==
  ASSUME NEW x, NEW kept, NEW push
  PROVE  undone(x, kept, push) =
           [store   |-> applied(x.store, squashed(Backwards(Top(x) \o Popped(x, kept)))),
            undos   |-> SubSeq(x.undos, 1, kept),
            redos   |-> IF push THEN x.redos \o Top(x) \o Popped(x, kept) ELSE x.redos,
            pending |-> EmptyDiff,
            isEmpty |-> TRUE]
BY DEF undone, Backwards, Top, Popped

LEMMA UndoneWellFormed ==
  ASSUME NEW x, WellFormed(x), NEW kept \in 0 .. Len(x.undos), NEW push \in BOOLEAN
  PROVE  WellFormed(undone(x, kept, push))
<1> DEFINE y == undone(x, kept, push)
           p == Popped(x, kept)
           both == Top(x) \o p
<1>1. /\ x.store \in [Record -> Value] /\ x.undos \in Seq(Entry) /\ x.redos \in Seq(Entry)
      /\ x.pending \in [Record -> Change] /\ Top(x) \in Seq(Entry)
  BY ManagerFields, TopIs DEF WellFormed
<1>2. p \in Seq(Entry)
  <2>1. SubSeq(x.undos, kept + 1, Len(x.undos)) \in Seq(Entry) BY <1>1, TwoParts
  <2>2. QED BY <2>1, ReverseIs DEF Popped
<1> HIDE DEF p
<1>3. both \in Seq(Entry) /\ x.redos \o Top(x) \o p \in Seq(Entry)
  <2>1. x.redos \o Top(x) \in Seq(Entry) BY <1>1
  <2>2. QED BY <1>1, <1>2, <2>1
<1>4. SubSeq(x.undos, 1, kept) \in Seq(Entry) BY <1>1, TwoParts
<1>5. applied(x.store, squashed(Backwards(both))) \in [Record -> Value]
  <2> HIDE DEF both
  <2>1. Backwards(both) \in Seq([Record -> Change]) BY <1>3, BackwardsType
  <2>2. squashed(Backwards(both)) \in [Record -> Change] BY <2>1, SquashedType
  <2>3. QED BY <1>1, <2>2, DiffTypes
<1>6. y = [store |-> applied(x.store, squashed(Backwards(both))), undos |-> SubSeq(x.undos, 1, kept),
           redos |-> IF push THEN x.redos \o Top(x) \o p ELSE x.redos, pending |-> EmptyDiff, isEmpty |-> TRUE]
  BY UndoneIs DEF p
<1> HIDE DEF y
<1>7. (IF push THEN x.redos \o Top(x) \o p ELSE x.redos) \in Seq(Entry) BY <1>1, <1>3
<1>8. EmptyDiff \in [Record -> Change] BY DiffTypes
<1> HIDE DEF both
<1> DEFINE s == applied(x.store, squashed(Backwards(both)))
           us == SubSeq(x.undos, 1, kept)
           rs == IF push THEN x.redos \o Top(x) \o p ELSE x.redos
<1>9. y = [store |-> s, undos |-> us, redos |-> rs, pending |-> EmptyDiff, isEmpty |-> TRUE]
      /\ s \in [Record -> Value] /\ us \in Seq(Entry) /\ rs \in Seq(Entry)
  BY <1>4, <1>5, <1>6, <1>7
<1> HIDE DEF s, us, rs
<1>10. y \in Managers BY <1>8, <1>9 DEF Managers
<1>11. y.pending = EmptyDiff /\ y.isEmpty = TRUE BY <1>9
<1>12. WellFormed(y) BY <1>10, <1>11 DEF WellFormed, isRecordsDiffEmpty
<1>13. QED BY <1>12 DEF y

\* Undoing takes a record back to where the rest of the undo stack leads it.
LEMMA UndoneStore ==
  ASSUME NEW x, WellFormed(x), NEW kept \in 0 .. Len(x.undos), NEW push \in BOOLEAN,
         NEW r \in Record, NEW m, NEW b \in Value, NEW c \in Value,
         From(SubSeq(x.undos, kept + 1, Len(x.undos)), b, c, r, m), Leads(c, x.store[r], x.pending[r])
  PROVE  undone(x, kept, push).store[r] = b
<1> DEFINE q == SubSeq(x.undos, kept + 1, Len(x.undos))
           top == Top(x)
           qt == q \o top
<1>1. x.store \in [Record -> Value] /\ x.undos \in Seq(Entry) BY ManagerFields DEF WellFormed
<1>2. x.store[r] \in Value BY <1>1
<1>3. q \in Seq(Entry) BY <1>1, TwoParts
<1>4. top \in Seq(Entry) /\ Reverse(top) = top /\ From(top, c, x.store[r], r, m)
  BY TopIs DEF WellFormed
<1>5. From(q, b, c, r, m) OBVIOUS
<1>6. Popped(x, kept) = Reverse(q) BY DEF Popped
<1>0. undone(x, kept, push).store = applied(x.store, squashed(Backwards(Top(x) \o Popped(x, kept))))
  BY UndoneIs
<1> HIDE DEF q, top
<1>7. From(qt, b, x.store[r], r, m) BY <1>3, <1>4, <1>5, WayJoin
<1>8. Reverse(qt) = top \o Reverse(q) BY <1>3, <1>4, ReverseJoined
<1>9. qt \in Seq(Entry) BY <1>3, <1>4
<1> HIDE DEF qt
<1>10. Leads(x.store[r], b, squashed(Backwards(Reverse(qt)))[r]) BY <1>2, <1>7, <1>9, WayBack
<1>11. undone(x, kept, push).store = applied(x.store, squashed(Backwards(Reverse(qt))))
  BY <1>0, <1>6, <1>8 DEF top
<1>12. applied(x.store, squashed(Backwards(Reverse(qt))))[r] = b BY <1>1, <1>10, AppliedLeads
<1>13. QED BY <1>11, <1>12

\* The past is cut short, and what was cut off is in the future, if it is pushed.
LEMMA UndoneKeeps ==
  ASSUME NEW x, WellFormed(x), NEW kept \in 0 .. Len(x.undos), NEW push \in BOOLEAN,
         NEW r \in Record, NEW m, NEW t, Past(x, r, m)
  PROVE  /\ Past(undone(x, kept, push), r, m)
         /\ push /\ Future(x, r, m, t) => Future(undone(x, kept, push), r, m, t)
<1> DEFINE y == undone(x, kept, push)
           p == SubSeq(x.undos, 1, kept)
           q == SubSeq(x.undos, kept + 1, Len(x.undos))
           top == Top(x)
<1>1. x.store \in [Record -> Value] /\ x.undos \in Seq(Entry) /\ x.redos \in Seq(Entry)
  BY ManagerFields DEF WellFormed
<1>2. PICK a \in Value, c \in Value : From(x.undos, a, c, r, m) /\ Leads(c, x.store[r], x.pending[r])
  BY DEF Past
<1>3. p \in Seq(Entry) /\ q \in Seq(Entry) /\ x.undos = p \o q BY <1>1, TwoParts
<1>4. PICK b \in Value : From(p, a, b, r, m) /\ From(q, b, c, r, m)
  <2>1. From(p \o q, a, c, r, m) BY <1>2, <1>3
  <2> HIDE DEF p, q
  <2>2. QED BY <1>3, <2>1, WaySplit
<1>5. y.store[r] = b BY <1>2, <1>4, UndoneStore
<1>6. y.undos = p /\ y.pending = EmptyDiff BY UndoneIs
<1>7. Past(y, r, m)
  <2>1. Leads(b, y.store[r], y.pending[r]) BY <1>5, <1>6 DEF Leads, EmptyDiff
  <2> HIDE DEF y, p
  <2>2. QED BY <1>4, <1>6, <2>1 DEF Past
<1>8. ASSUME push, Future(x, r, m, t) PROVE Future(y, r, m, t)
  <2>1. y.redos = x.redos \o top \o Reverse(q) BY <1>8, UndoneIs DEF Popped
  <2>2. top \in Seq(Entry) /\ Reverse(top) = top /\ From(top, c, x.store[r], r, m)
    BY <1>2, TopIs DEF WellFormed
  <2> DEFINE rq == Reverse(q)
             rr == Reverse(x.redos)
  <2>3. rq \in Seq(Entry) /\ rr \in Seq(Entry) /\ Reverse(rq) = q
    <3> HIDE DEF q
    <3>1. QED BY <1>1, <1>3, ReverseIs, ReverseTwice
  <2>4. From(q, b, c, r, m) /\ From(rr, x.store[r], t[r], r, m) BY <1>4, <1>8 DEF Future
  <2> HIDE DEF q, top, rq, rr
  <2> DEFINE rt == x.redos \o top
  <2>5. rt \in Seq(Entry) /\ Reverse(rt) = top \o rr
    <3>1. Reverse(rt) = Reverse(top) \o Reverse(x.redos) BY <1>1, <2>2, ReverseJoined
    <3>2. QED BY <1>1, <2>2, <3>1 DEF rr
  <2> HIDE DEF rt
  <2>6. Reverse(rt \o rq) = q \o (top \o rr)
    <3>1. Reverse(rt \o rq) = Reverse(rq) \o Reverse(rt) BY <2>3, <2>5, ReverseJoined
    <3>2. QED BY <2>3, <2>5, <3>1
  <2>7. From(top \o rr, c, t[r], r, m) BY <2>2, <2>3, <2>4, WayJoin
  <2>8. top \o rr \in Seq(Entry) BY <2>2, <2>3
  <2>9. From(q \o (top \o rr), b, t[r], r, m) BY <1>3, <2>4, <2>7, <2>8, WayJoin DEF q
  <2>10. y.redos = rt \o rq BY <2>1 DEF rt, rq
  <2> HIDE DEF y
  <2>11. QED BY <1>5, <2>6, <2>9, <2>10 DEF Future
<1>9. QED BY <1>7, <1>8

-----------------------------------------------------------------------------
(* Flushing, redoing and squashing.                                        *)

LEMMA FlushIs ==
  ASSUME NEW x, WellFormed(x)
  PROVE  flushPendingDiff(x) = [store |-> x.store, undos |-> x.undos \o Top(x), redos |-> x.redos,
                                pending |-> EmptyDiff, isEmpty |-> TRUE]
<1>1. /\ x.undos \in Seq(Entry) /\ x \in Managers
  BY ManagerFields DEF WellFormed
<1>2. x = [store |-> x.store, undos |-> x.undos, redos |-> x.redos, pending |-> x.pending, isEmpty |-> x.isEmpty]
  BY <1>1 DEF Managers
<1>3. CASE x.isEmpty
  <2>1. isRecordsDiffEmpty(x.pending) BY <1>3 DEF WellFormed
  <2>2. Top(x) = <<>> /\ x.pending = EmptyDiff BY <2>1 DEF Top, isRecordsDiffEmpty
  <2>3. x.undos \o Top(x) = x.undos BY <1>1, <2>2
  <2>4. x.isEmpty = TRUE BY <1>1, <1>3 DEF Managers
  <2>5. flushPendingDiff(x) = x BY <1>3 DEF flushPendingDiff
  <2>6. QED BY <1>2, <2>2, <2>3, <2>4, <2>5
<1>4. CASE ~x.isEmpty
  <2>1. ~isRecordsDiffEmpty(x.pending) BY <1>4 DEF WellFormed
  <2> DEFINE e == Diff(x.pending)
  <2>2. Top(x) = <<e>> BY <2>1 DEF Top
  <2>3. flushPendingDiff(x) = [x EXCEPT !.undos = Append(@, e), !.pending = EmptyDiff, !.isEmpty = TRUE]
    BY <1>4 DEF flushPendingDiff
  <2> HIDE DEF e
  <2>4. Append(x.undos, e) = x.undos \o Top(x) BY <1>1, <2>2
  <2>5. flushPendingDiff(x) = [store |-> x.store, undos |-> Append(x.undos, e), redos |-> x.redos,
                               pending |-> EmptyDiff, isEmpty |-> TRUE]
    BY <1>2, <2>3
  <2>6. QED BY <2>4, <2>5
<1>5. QED BY <1>3, <1>4

LEMMA FlushKeeps ==
  ASSUME NEW x, WellFormed(x)
  PROVE  /\ WellFormed(flushPendingDiff(x))
         /\ \A r \in Record : \A m : Past(x, r, m) =>
              \E a \in Value : From(flushPendingDiff(x).undos, a, x.store[r], r, m)
<1> DEFINE y == flushPendingDiff(x)
           us == x.undos \o Top(x)
<1>1. /\ x.store \in [Record -> Value] /\ x.undos \in Seq(Entry) /\ x.redos \in Seq(Entry)
      /\ Top(x) \in Seq(Entry) /\ x \in Managers
  BY ManagerFields, TopIs DEF WellFormed
<1>2. us \in Seq(Entry) BY <1>1
<1>3. y = [store |-> x.store, undos |-> us, redos |-> x.redos, pending |-> EmptyDiff, isEmpty |-> TRUE]
  BY FlushIs
<1> HIDE DEF y
<1>4. WellFormed(y)
  <2> HIDE DEF us
  <2>1. y \in Managers BY <1>1, <1>2, <1>3, DiffTypes DEF Managers
  <2>2. y.pending = EmptyDiff /\ y.isEmpty = TRUE BY <1>3
  <2>3. QED BY <2>1, <2>2 DEF WellFormed, isRecordsDiffEmpty
<1>5. ASSUME NEW r \in Record, NEW m, Past(x, r, m)
      PROVE  \E a \in Value : From(y.undos, a, x.store[r], r, m)
  <2>1. PICK a \in Value, b \in Value : From(x.undos, a, b, r, m) /\ Leads(b, x.store[r], x.pending[r])
    BY <1>5 DEF Past
  <2>2. From(Top(x), b, x.store[r], r, m) BY <1>1, <2>1, TopIs
  <2>3. From(us, a, x.store[r], r, m) BY <1>1, <2>1, <2>2, WayJoin
  <2>4. y.undos = us BY <1>3
  <2>5. QED BY <2>3, <2>4
<1>6. QED BY <1>4, <1>5 DEF y

\* What the store holds is the difference between the ends of an empty diff.
LEMMA PastOfFlushed ==
  ASSUME NEW y, y.pending = EmptyDiff, y.store \in [Record -> Value],
         NEW r \in Record, NEW m, NEW a \in Value, From(y.undos, a, y.store[r], r, m)
  PROVE  Past(y, r, m)
<1>1. y.pending[r] = Silent /\ y.store[r] \in Value BY DEF EmptyDiff
<1>2. Leads(y.store[r], y.store[r], y.pending[r]) BY <1>1 DEF Leads
<1>3. QED BY <1>1, <1>2 DEF Past

LEMMA RedoIs ==
  ASSUME NEW x, WellFormed(x), x.redos # <<>>
  PROVE  LET y == flushPendingDiff(x)
             kept == left(y.redos, TRUE)
             popped == Reverse(SubSeq(y.redos, kept + 1, Len(y.redos)))
         IN  redo(x) = [store |-> applied(x.store, squashed(diffsOf(popped))), undos |-> y.undos \o popped,
                        redos |-> SubSeq(y.redos, 1, kept), pending |-> EmptyDiff, isEmpty |-> TRUE]
<1> DEFINE y == flushPendingDiff(x)
           kept == left(y.redos, TRUE)
           popped == Reverse(SubSeq(y.redos, kept + 1, Len(y.redos)))
           us == x.undos \o Top(x)
<1>1. y = [store |-> x.store, undos |-> us, redos |-> x.redos, pending |-> EmptyDiff, isEmpty |-> TRUE]
  BY FlushIs
<1>2. redo(x) = IF y.redos = <<>> THEN y
      ELSE [y EXCEPT !.store = applied(@, squashed(diffsOf(popped))),
                     !.undos = @ \o popped,
                     !.redos = SubSeq(@, 1, kept)]
  BY DEF redo
<1> HIDE DEF kept, popped, us, y
<1>3. y.redos = x.redos /\ y.store = x.store BY <1>1
<1>4. redo(x) = [y EXCEPT !.store = applied(@, squashed(diffsOf(popped))), !.undos = @ \o popped,
                          !.redos = SubSeq(@, 1, kept)]
  BY <1>2, <1>3
<1>5. redo(x) = [store |-> applied(x.store, squashed(diffsOf(popped))), undos |-> y.undos \o popped,
                 redos |-> SubSeq(y.redos, 1, kept), pending |-> EmptyDiff, isEmpty |-> TRUE]
  BY <1>1, <1>4
<1>6. QED BY <1>5 DEF kept, popped, y

LEMMA RedoKeeps ==
  ASSUME NEW x, WellFormed(x)
  PROVE  /\ WellFormed(redo(x))
         /\ \A r \in Record : \A m, t : t[r] \in Value /\ Past(x, r, m) /\ Future(x, r, m, t) =>
              Past(redo(x), r, m) /\ Future(redo(x), r, m, t)
<1> DEFINE y == flushPendingDiff(x)
           z == redo(x)
<1>1. /\ x.store \in [Record -> Value] /\ x.redos \in Seq(Entry)
  BY ManagerFields DEF WellFormed
<1>2. WellFormed(y) /\ \A r \in Record : \A m : Past(x, r, m) => \E a \in Value : From(y.undos, a, x.store[r], r, m)
  BY FlushKeeps
<1>3. y.store = x.store /\ y.redos = x.redos /\ y.pending = EmptyDiff BY FlushIs
<1>4. CASE x.redos = <<>>
  <2>1. z = y BY <1>3, <1>4 DEF redo
  <2> HIDE DEF y, z
  <2>2. ASSUME NEW r \in Record, NEW m, NEW t, Past(x, r, m), Future(x, r, m, t)
        PROVE  Past(z, r, m) /\ Future(z, r, m, t)
    <3>1. PICK a \in Value : From(y.undos, a, x.store[r], r, m) BY <1>2, <2>2
    <3>2. Past(y, r, m) BY <1>1, <1>3, <3>1, PastOfFlushed
    <3>3. Future(y, r, m, t) BY <1>3, <2>2 DEF Future
    <3>4. QED BY <2>1, <3>2, <3>3
  <2>3. QED BY <1>2, <2>1, <2>2 DEF z
<1>5. CASE x.redos # <<>>
  <2> DEFINE kept == left(y.redos, TRUE)
             p == SubSeq(y.redos, 1, kept)
             q == SubSeq(y.redos, kept + 1, Len(y.redos))
             popped == Reverse(q)
             store == applied(x.store, squashed(diffsOf(popped)))
             us == y.undos \o popped
  <2>1. z = [store |-> store, undos |-> us, redos |-> p, pending |-> EmptyDiff, isEmpty |-> TRUE]
    BY <1>5, RedoIs
  <2>2. y.undos \in Seq(Entry) /\ y.redos \in Seq(Entry) BY <1>2, ManagerFields DEF WellFormed
  <2> HIDE DEF y, z
  <2>3. kept \in 0 .. Len(y.redos) BY <2>2, LeftIs
  <2> HIDE DEF kept
  <2>4. p \in Seq(Entry) /\ q \in Seq(Entry) /\ y.redos = p \o q BY <2>2, <2>3, TwoParts
  <2> HIDE DEF p, q
  <2>5. popped \in Seq(Entry) BY <2>4, ReverseIs
  <2>6. Reverse(y.redos) = popped \o Reverse(p) BY <2>4, ReverseJoined
  <2> HIDE DEF popped
  <2>7. store \in [Record -> Value]
    <3>1. diffsOf(popped) \in Seq([Record -> Change]) BY <2>5, DiffsType
    <3>2. squashed(diffsOf(popped)) \in [Record -> Change] BY <3>1, SquashedType
    <3>3. QED BY <1>1, <3>2, DiffTypes
  <2>8. us \in Seq(Entry) BY <2>2, <2>5
  <2>9. WellFormed(z)
    <3> HIDE DEF store, us
    <3>1. z \in Managers BY <2>1, <2>4, <2>7, <2>8, DiffTypes DEF Managers
    <3>2. z.pending = EmptyDiff /\ z.isEmpty = TRUE BY <2>1
    <3>3. QED BY <3>1, <3>2 DEF WellFormed, isRecordsDiffEmpty
  <2>10. ASSUME NEW r \in Record, NEW m, NEW t, t[r] \in Value, Past(x, r, m), Future(x, r, m, t)
         PROVE  Past(z, r, m) /\ Future(z, r, m, t)
    <3>1. PICK a \in Value : From(y.undos, a, x.store[r], r, m) BY <1>2, <2>10
    <3>2. From(popped \o Reverse(p), x.store[r], t[r], r, m)
      <4>1. From(Reverse(y.redos), x.store[r], t[r], r, m) BY <1>3, <2>10 DEF Future
      <4>2. QED BY <2>6, <4>1
    <3>3. Reverse(p) \in Seq(Entry) BY <2>4, ReverseIs
    <3>4. PICK b \in Value : From(popped, x.store[r], b, r, m) /\ From(Reverse(p), b, t[r], r, m)
      BY <2>5, <3>2, <3>3, WaySplit
    <3>5. store[r] = b
      <4>1. x.store[r] \in Value BY <1>1
      <4>2. Leads(x.store[r], b, squashed(diffsOf(popped))[r]) BY <2>5, <3>4, <4>1, WaySquashed
      <4>3. QED BY <1>1, <4>2, AppliedLeads
    <3>6. From(us, a, b, r, m) BY <2>2, <2>5, <3>1, <3>4, WayJoin
    <3> HIDE DEF store, us
    <3>7. z.store = store /\ z.undos = us /\ z.redos = p /\ z.pending = EmptyDiff BY <2>1
    <3>8. From(z.undos, a, z.store[r], r, m) BY <3>5, <3>6, <3>7
    <3>9. Past(z, r, m)
      <4>1. z.store \in [Record -> Value] /\ z.pending = EmptyDiff BY <2>7, <3>7
      <4>2. QED BY <3>8, <4>1, PastOfFlushed
    <3>10. Future(z, r, m, t) BY <3>4, <3>5, <3>7 DEF Future
    <3>11. QED BY <3>9, <3>10
  <2>11. QED BY <2>9, <2>10 DEF z
<1>6. QED BY <1>4, <1>5

LEMMA SquashToMarkKeeps ==
  ASSUME NEW x, WellFormed(x), NEW i
  PROVE  /\ WellFormed(squashToMark(x, i))
         /\ \A r \in Record : \A m, t : Past(x, r, m) => Past(squashToMark(x, i), r, m)
         /\ squashToMark(x, i).store = x.store /\ squashToMark(x, i).redos = x.redos
<1> DEFINE stop == LastStop(x.undos, {i})
           p == SubSeq(x.undos, 1, stop)
           q == SubSeq(x.undos, stop + 1, Len(x.undos))
           e == Diff(squashed(diffsOf(q)))
           z == squashToMark(x, i)
<1>1. /\ x.store \in [Record -> Value] /\ x.undos \in Seq(Entry) /\ x.redos \in Seq(Entry)
      /\ x.pending \in [Record -> Change] /\ x \in Managers
  BY ManagerFields DEF WellFormed
<1>2. z = IF stop = 0 \/ LastDiff(x.undos) <= stop THEN x ELSE [x EXCEPT !.undos = Append(p, e)]
  BY DEF squashToMark
<1>3. stop \in 0 .. Len(x.undos) BY <1>1, LastStopIs
<1> HIDE DEF z, stop
<1>4. CASE z = x
  BY <1>4 DEF z
<1>5. CASE z = [x EXCEPT !.undos = Append(p, e)]
  <2>1. p \in Seq(Entry) /\ q \in Seq(Entry) /\ x.undos = p \o q BY <1>1, <1>3, TwoParts
  <2> HIDE DEF p, q
  <2> DEFINE d == squashed(diffsOf(q))
  <2>2. d \in [Record -> Change] BY <2>1, DiffsType, SquashedType
  <2>3. e \in Entry /\ e.type = "diff" /\ e.diff = d
    <3> HIDE DEF d
    <3>1. Diff(d) \in Entry /\ Diff(d).type = "diff" /\ Diff(d).diff = d BY <2>2, DiffIsEntry
    <3>2. QED BY <3>1 DEF d
  <2> HIDE DEF e
  <2> DEFINE us == Append(p, e)
  <2>4. us \in Seq(Entry) /\ us = p \o <<e>> /\ <<e>> \in Seq(Entry) BY <2>1, <2>3
  <2> HIDE DEF us
  <2>5. z = [x EXCEPT !.undos = us] BY <1>5 DEF us
  <2>6. z \in Managers /\ z.store = x.store /\ z.redos = x.redos /\ z.undos = us
        /\ z.pending = x.pending /\ z.isEmpty = x.isEmpty
    BY <1>1, <2>4, <2>5 DEF Managers
  <2>7. WellFormed(z) BY <2>6 DEF WellFormed
  <2>8. ASSUME NEW r \in Record, NEW m, Past(x, r, m) PROVE Past(z, r, m)
    <3>1. PICK a \in Value, c \in Value : From(x.undos, a, c, r, m) /\ Leads(c, x.store[r], x.pending[r])
      BY <2>8 DEF Past
    <3>2. PICK b \in Value : From(p, a, b, r, m) /\ From(q, b, c, r, m)
      <4>1. From(p \o q, a, c, r, m) BY <2>1, <3>1
      <4>2. QED BY <2>1, <4>1, WaySplit
    <3>3. Leads(b, c, d[r]) BY <2>1, <3>2, WaySquashed
    <3>4. Steps(e, b, c, r, m) BY <2>3, <3>3 DEF Steps
    <3>5. From(<<e>>, b, c, r, m) BY <3>4, WayOne
    <3>6. From(p \o <<e>>, a, c, r, m) BY <2>1, <2>4, <3>2, <3>5, WayJoin
    <3>7. From(us, a, c, r, m) BY <2>4, <3>6
    <3>8. QED BY <2>6, <3>1, <3>7 DEF Past
  <2>9. QED BY <2>6, <2>7, <2>8 DEF z
<1>6. QED BY <1>2, <1>4, <1>5

-----------------------------------------------------------------------------
(* Changes.                                                                *)

\* The diff of a change to one record.
OneDiff(r, e) == [EmptyDiff EXCEPT ![r] = e]

LEMMA OneDiffIs ==
  ASSUME NEW r \in Record, NEW e \in Change
  PROVE  /\ OneDiff(r, e) \in [Record -> Change]
         /\ OneDiff(r, e)[r] = e /\ \A s \in Record : s # r => OneDiff(r, e)[s] = Silent
BY DiffTypes DEF OneDiff, EmptyDiff

\* An update leaves something pending, whatever was.
LEMMA UpdateIsPending ==
  ASSUME NEW t \in Change, NEW v \in Value, NEW w \in Value, v # 0, w # 0
  PROVE  Squashing(t, Updated(v, w)) # Silent
<1> DEFINE e == Updated(v, w)
<1>1. e.added = 0 /\ e.from = v /\ e.to = w /\ e.removed = 0 BY ChangeForm
<1> HIDE DEF e
<1>2. Squashing(t, e) = squashUpdated(t, v, w) BY <1>1 DEF Squashing, squashAdded, squashRemoved
<1>3. t.from \in Value BY DEF Change
<1>4. squashUpdated(t, v, w).added = w \/ squashUpdated(t, v, w).to = w
  <2>1. CASE t.added # 0 BY <2>1, ChangeForm DEF squashUpdated
  <2>2. CASE t.added = 0 /\ t.to # 0
    <3>1. squashUpdated(t, v, w) = Updated(t.from, w) BY <2>2 DEF squashUpdated
    <3>2. QED BY <1>3, <3>1, ChangeForm
  <2>3. CASE t.added = 0 /\ t.to = 0
    <3>1. squashUpdated(t, v, w) = Updated(v, w) BY <2>3 DEF squashUpdated
    <3>2. QED BY <3>1, ChangeForm
  <2>4. QED BY <2>1, <2>2, <2>3
<1>5. Silent.added = 0 /\ Silent.to = 0 BY ChangeForm
<1>6. QED BY <1>2, <1>4, <1>5 DEF e

LEMMA PendingKeeps ==
  ASSUME NEW x, WellFormed(x), NEW r \in Record, NEW v \in Value, NEW w \in Value, v # w
  PROVE  LET y == pendingAfter(x, OneDiff(r, diff(v, w)))
         IN  /\ WellFormed(y)
             /\ y.store = x.store /\ y.undos = x.undos /\ y.redos = x.redos
             /\ y.pending = squash(x.pending, OneDiff(r, diff(v, w)))
<1> DEFINE d == OneDiff(r, diff(v, w))
           p == squash(x.pending, d)
           coming == \E s \in Record : d[s].added # 0 \/ d[s].removed # 0
           quiet == IF coming THEN isRecordsDiffEmpty(p) ELSE x.isEmpty /\ \A s \in Record : d[s].to = 0
           y == pendingAfter(x, d)
<1>1. x \in Managers /\ x.pending \in [Record -> Change] BY ManagerFields DEF WellFormed
<1>2. diff(v, w) \in Change BY DiffLeads
<1>3. d \in [Record -> Change] /\ d[r] = diff(v, w) /\ \A s \in Record : s # r => d[s] = Silent
  BY <1>2, OneDiffIs
<1> HIDE DEF d
<1>4. p \in [Record -> Change] BY <1>1, <1>3, DiffTypes
<1>5. quiet <=> isRecordsDiffEmpty(p)
  <2>1. CASE v = 0 \/ w = 0
    <3>1. diff(v, w).added # 0 \/ diff(v, w).removed # 0 BY <2>1, ChangeForm DEF diff
    <3>2. coming BY <1>3, <3>1
    <3> HIDE DEF coming, p
    <3>3. QED BY <3>2
  <2>2. CASE v # 0 /\ w # 0
    <3>1. d[r] = Updated(v, w) BY <1>3, <2>2 DEF diff
    <3>2. d[r].added = 0 /\ d[r].removed = 0 /\ d[r].to # 0 BY <2>2, <3>1, ChangeForm
    <3>3. ~coming /\ ~\A s \in Record : d[s].to = 0 BY <1>3, <3>2, ChangeForm
    <3>4. ~quiet
      <4> HIDE DEF coming, p
      <4>1. QED BY <3>3
    <3>5. p[r] # Silent
      <4>1. p[r] = Squashing(x.pending[r], d[r]) BY DEF squash, Squashing
      <4>2. x.pending[r] \in Change BY <1>1
      <4>3. QED BY <2>2, <3>1, <4>1, <4>2, UpdateIsPending
    <3>6. ~isRecordsDiffEmpty(p)
      <4> HIDE DEF p
      <4>1. QED BY <3>5 DEF isRecordsDiffEmpty, EmptyDiff
    <3>7. QED BY <3>4, <3>6
  <2>3. QED BY <2>1, <2>2
<1>6. quiet \in BOOLEAN
  <2>1. isRecordsDiffEmpty(p) \in BOOLEAN BY DEF isRecordsDiffEmpty
  <2>2. (x.isEmpty /\ \A s \in Record : d[s].to = 0) \in BOOLEAN OBVIOUS
  <2> HIDE DEF coming, p
  <2>3. QED BY <2>1, <2>2
<1>7. y = [x EXCEPT !.pending = p, !.isEmpty = quiet] BY DEF pendingAfter
<1> HIDE DEF p, quiet, y
<1>8. y \in Managers /\ y.store = x.store /\ y.undos = x.undos /\ y.redos = x.redos /\ y.pending = p
      /\ y.isEmpty = quiet
  BY <1>1, <1>4, <1>6, <1>7 DEF Managers
<1>9. WellFormed(y) BY <1>5, <1>8 DEF WellFormed
<1>10. QED BY <1>8, <1>9 DEF y, p, d

\* What a change of the user's makes of the manager.
LEMMA PutIs ==
  ASSUME TypeInv, NEW r \in Record, NEW v \in Value, Put(r, v)
  PROVE  /\ WellFormed(h')
         /\ h'.store = [h.store EXCEPT ![r] = v] /\ h'.undos = h.undos
         /\ h'.redos = IF state = "recording" THEN <<>> ELSE h.redos
         /\ h'.pending = IF state = "paused" THEN h.pending ELSE squash(h.pending, OneDiff(r, diff(h.store[r], v)))
<1> DEFINE x == [h EXCEPT !.store[r] = v]
           d == OneDiff(r, diff(h.store[r], v))
           y == IF state = "paused" THEN x ELSE pendingAfter(x, d)
<1>1. h \in Managers /\ h.store \in [Record -> Value] BY ManagerFields DEF TypeInv, WellFormed
<1>2. h.store[r] \in Value /\ h.store[r] # v BY <1>1 DEF Put
<1>3. x \in Managers /\ x.store = [h.store EXCEPT ![r] = v] /\ x.undos = h.undos /\ x.redos = h.redos
      /\ x.pending = h.pending /\ x.isEmpty = h.isEmpty
  BY <1>1 DEF Managers
<1>4. h' = IF state = "recording" THEN [y EXCEPT !.redos = <<>>] ELSE y
  BY DEF Put, recorded, OneDiff
<1> HIDE DEF x
<1>5. WellFormed(x) BY <1>3 DEF WellFormed, TypeInv
<1>6. /\ WellFormed(y) /\ y.store = x.store /\ y.undos = x.undos /\ y.redos = x.redos
      /\ y.pending = IF state = "paused" THEN h.pending ELSE squash(h.pending, d)
  <2>1. CASE state = "paused" BY <1>3, <1>5, <2>1
  <2>2. CASE state # "paused"
    <3>1. y = pendingAfter(x, d) BY <2>2
    <3> HIDE DEF y
    <3>2. WellFormed(y) /\ y.store = x.store /\ y.undos = x.undos /\ y.redos = x.redos
          /\ y.pending = squash(x.pending, d)
      BY <1>2, <1>5, <3>1, PendingKeeps
    <3>3. QED BY <1>3, <2>2, <3>2
  <2>3. QED BY <2>1, <2>2
<1> HIDE DEF y
<1>7. CASE state = "recording"
  <2>1. h' = [y EXCEPT !.redos = <<>>] BY <1>4, <1>7
  <2>2. y \in Managers BY <1>6 DEF WellFormed
  <2>3. h' \in Managers /\ h'.store = y.store /\ h'.undos = y.undos /\ h'.redos = <<>>
        /\ h'.pending = y.pending /\ h'.isEmpty = y.isEmpty
    <3>1. <<>> \in Seq(Entry) OBVIOUS
    <3>2. QED BY <2>1, <2>2, <3>1 DEF Managers
  <2>4. WellFormed(h') BY <1>6, <2>3 DEF WellFormed
  <2>5. QED BY <1>3, <1>6, <1>7, <2>3, <2>4 DEF d
<1>8. CASE state # "recording"
  <2>1. h' = y BY <1>4, <1>8
  <2>2. QED BY <1>3, <1>6, <1>8, <2>1 DEF d
<1>9. QED BY <1>7, <1>8

\* The redo stack is empty: there is no way further than here.
LEMMA FutureOfNone ==
  ASSUME NEW x, x.redos = <<>>, NEW t, NEW r, NEW m, t[r] = x.store[r], x.store[r] \in Value
  PROVE  Future(x, r, m, t)
<1>1. Reverse(<<>>) = <<>>
  <2>1. <<>> \in Seq(Entry) /\ Len(<<>>) = 0 OBVIOUS
  <2>2. Reverse(<<>>) \in Seq(Entry) /\ Len(Reverse(<<>>)) = 0 BY <2>1, ReverseIs
  <2>3. QED BY <2>2
<1>2. From(<<>>, x.store[r], x.store[r], r, m) BY WayNone
<1>3. QED BY <1>1, <1>2 DEF Future

LEMMA PutKeeps ==
  ASSUME HistoryInv, NEW r \in Record, NEW v \in Value, Put(r, v)
  PROVE  HistoryInv'
<1> DEFINE d == OneDiff(r, diff(h.store[r], v))
<1>1. TypeInv /\ UNCHANGED <<state, batches, marked, forked>>
      /\ tip' = IF h'.redos = <<>> THEN h'.store ELSE tip
  BY DEF HistoryInv, Put
<1>2. /\ WellFormed(h')
      /\ h'.store = [h.store EXCEPT ![r] = v] /\ h'.undos = h.undos
      /\ h'.redos = IF state = "recording" THEN <<>> ELSE h.redos
      /\ h'.pending = IF state = "paused" THEN h.pending ELSE squash(h.pending, d)
  BY <1>1, PutIs
<1>3. h.store \in [Record -> Value] /\ h'.store \in [Record -> Value] /\ h.pending \in [Record -> Change]
  BY <1>1, <1>2, ManagerFields DEF TypeInv, WellFormed
<1>4. TypeInv' BY <1>1, <1>2, <1>3 DEF TypeInv
<1>5. h.store[r] \in Value /\ h.store[r] # v BY <1>3 DEF Put
<1>6. Leads(h.store[r], v, diff(h.store[r], v)) /\ diff(h.store[r], v) \in Change BY <1>5, DiffLeads
<1>7. d[r] = diff(h.store[r], v) /\ \A s \in Record : s # r => d[s] = Silent BY <1>6, OneDiffIs
<1> HIDE DEF d
<1>8. ASSUME ~forked, NEW s \in Own PROVE Past(h', s, marked') /\ Future(h', s, marked', tip')
  <2>1. s \in Record BY HistoryAssumption
  <2>2. PICK a \in Value, b \in Value : From(h.undos, a, b, s, marked) /\ Leads(b, h.store[s], h.pending[s])
    BY <1>8 DEF HistoryInv, Past
  <2>3. h.store[s] \in Value /\ h'.store[s] \in Value BY <1>3, <2>1
  <2>4. Leads(b, h'.store[s], h'.pending[s])
    <3>1. CASE state = "paused"
      <4>1. s # r BY <3>1 DEF Put
      <4>2. h'.store[s] = h.store[s] BY <1>2, <1>3, <2>1, <4>1
      <4>3. QED BY <1>2, <2>2, <3>1, <4>2
    <3>2. CASE state # "paused"
      <4>1. h'.pending[s] = Squashing(h.pending[s], d[s]) BY <1>2, <2>1, <3>2 DEF squash, Squashing
      <4>2. Leads(h.store[s], h'.store[s], d[s])
        <5>1. CASE s = r
          <6>1. h'.store[s] = v BY <1>2, <1>3, <2>1, <5>1
          <6>2. QED BY <1>6, <1>7, <5>1, <6>1
        <5>2. CASE s # r
          <6>1. h'.store[s] = h.store[s] BY <1>2, <1>3, <2>1, <5>2
          <6>2. QED BY <1>7, <2>1, <5>2, <6>1 DEF Leads
        <5>3. QED BY <5>1, <5>2
      <4>3. QED BY <2>2, <2>3, <4>1, <4>2, SquashLeads
    <3>3. QED BY <3>1, <3>2
  <2>5. Past(h', s, marked') BY <1>1, <1>2, <2>2, <2>4 DEF Past
  <2>6. Future(h', s, marked', tip')
    <3>1. CASE h'.redos = <<>>
      <4>1. tip'[s] = h'.store[s] BY <1>1, <3>1
      <4>2. QED BY <2>3, <3>1, <4>1, FutureOfNone
    <3>2. CASE h'.redos # <<>>
      <4>1. h'.redos = h.redos /\ state # "recording" /\ tip' = tip BY <1>1, <1>2, <3>2
      <4>2. s # r BY <4>1 DEF Put
      <4>3. h'.store[s] = h.store[s] BY <1>2, <1>3, <2>1, <4>2
      <4>4. Future(h, s, marked, tip) BY <1>8 DEF HistoryInv
      <4>5. QED BY <1>1, <4>1, <4>3, <4>4 DEF Future
    <3>3. QED BY <3>1, <3>2
  <2>7. QED BY <2>5, <2>6
<1>9. QED BY <1>1, <1>4, <1>8 DEF HistoryInv

LEMMA RemotePutKeeps ==
  ASSUME HistoryInv, NEW r \in Record, NEW v \in Value, RemotePut(r, v)
  PROVE  HistoryInv'
<1>1. TypeInv /\ UNCHANGED <<state, batches, marked, forked, tip>> /\ h' = [h EXCEPT !.store[r] = v] /\ r \notin Own
  BY DEF HistoryInv, RemotePut
<1>2. h \in Managers /\ h.store \in [Record -> Value] BY <1>1, ManagerFields DEF TypeInv, WellFormed
<1>3. h' \in Managers /\ h'.store = [h.store EXCEPT ![r] = v] /\ h'.undos = h.undos /\ h'.redos = h.redos
      /\ h'.pending = h.pending /\ h'.isEmpty = h.isEmpty
  BY <1>1, <1>2 DEF Managers
<1>4. TypeInv' BY <1>1, <1>3 DEF TypeInv, WellFormed
<1>5. ASSUME ~forked, NEW s \in Own PROVE Past(h', s, marked') /\ Future(h', s, marked', tip')
  <2>1. s \in Record /\ s # r BY <1>1, HistoryAssumption
  <2>2. h'.store[s] = h.store[s] BY <1>2, <1>3, <2>1
  <2>3. Past(h, s, marked) /\ Future(h, s, marked, tip) BY <1>5 DEF HistoryInv
  <2>4. QED BY <1>1, <1>3, <2>2, <2>3 DEF Past, Future
<1>6. QED BY <1>1, <1>4, <1>5 DEF HistoryInv

-----------------------------------------------------------------------------
(* The steps that the editor asks for.                                     *)

LEMMA MarkKeeps ==
  ASSUME HistoryInv, _mark
  PROVE  HistoryInv'
<1> DEFINE y == flushPendingDiff(h)
           n == Len(marked')
           e == Stop(n)
<1>1. /\ TypeInv /\ UNCHANGED <<state, batches, forked, tip>> /\ Len(marked) < MaxMarks
      /\ marked' = Append(marked, h.store) /\ h' = [y EXCEPT !.undos = Append(@, e)]
  BY DEF HistoryInv, _mark
<1>2. h \in Managers /\ h.store \in [Record -> Value] /\ marked \in Seq([Record -> Value])
  BY <1>1, ManagerFields DEF TypeInv, WellFormed
<1>3. marked' \in Seq([Record -> Value]) /\ n = Len(marked) + 1 /\ marked'[n] = h.store /\ n \in DOMAIN marked'
      /\ n \in Mark
  BY <1>1, <1>2, HistoryAssumption DEF Mark
<1>4. \A i \in DOMAIN marked : i \in DOMAIN marked' /\ marked'[i] = marked[i] BY <1>1, <1>2
<1>5. WellFormed(y)
      /\ \A r \in Record : \A m : Past(h, r, m) => \E a \in Value : From(y.undos, a, h.store[r], r, m)
  BY <1>1, FlushKeeps DEF TypeInv
<1>6. y.store = h.store /\ y.redos = h.redos /\ y.pending = EmptyDiff
  BY <1>1, FlushIs DEF TypeInv
<1>7. y \in Managers /\ y.undos \in Seq(Entry) BY <1>5, ManagerFields DEF WellFormed
<1>8. e \in Entry /\ e.type = "stop" /\ e.id = n BY <1>3, StopIsEntry
<1> HIDE DEF y, e, n
<1> DEFINE us == Append(y.undos, e)
<1>9. us \in Seq(Entry) /\ us = y.undos \o <<e>> /\ <<e>> \in Seq(Entry) BY <1>7, <1>8
<1> HIDE DEF us
<1>10. h' = [y EXCEPT !.undos = us] BY <1>1 DEF us
<1>11. h' \in Managers /\ h'.store = h.store /\ h'.undos = us /\ h'.redos = h.redos /\ h'.pending = y.pending
       /\ h'.isEmpty = y.isEmpty
  BY <1>6, <1>7, <1>9, <1>10 DEF Managers
<1>12. WellFormed(h') BY <1>5, <1>11 DEF WellFormed
<1>13. Len(marked') <= MaxMarks BY <1>1, <1>2, <1>3, HistoryAssumption DEF n
<1>14. TypeInv' BY <1>1, <1>3, <1>12, <1>13 DEF TypeInv
<1>15. ASSUME ~forked, NEW r \in Own PROVE Past(h', r, marked') /\ Future(h', r, marked', tip')
  <2>1. r \in Record /\ Past(h, r, marked) /\ Future(h, r, marked, tip)
    BY <1>15, HistoryAssumption DEF HistoryInv
  <2>2. h.store[r] \in Value BY <1>2, <2>1
  <2>3. PICK a \in Value : From(y.undos, a, h.store[r], r, marked) BY <1>5, <2>1
  <2>4. From(y.undos, a, h.store[r], r, marked') BY <1>4, <1>7, <2>3, WayMarks
  <2>5. Steps(e, h.store[r], h.store[r], r, marked') BY <1>3, <1>8 DEF Steps
  <2>6. From(<<e>>, h.store[r], h.store[r], r, marked') BY <2>2, <2>5, WayOne
  <2>7. From(us, a, h.store[r], r, marked')
    <3>1. From(y.undos \o <<e>>, a, h.store[r], r, marked') BY <1>7, <1>9, <2>4, <2>6, WayJoin
    <3>2. QED BY <1>9, <3>1
  <2>8. Past(h', r, marked')
    <3>1. h'.pending = EmptyDiff /\ h'.store \in [Record -> Value] BY <1>2, <1>6, <1>11
    <3>2. From(h'.undos, a, h'.store[r], r, marked') BY <1>11, <2>7
    <3>3. QED BY <2>1, <3>1, <3>2, PastOfFlushed
  <2>9. Future(h', r, marked', tip')
    <3>1. Reverse(h.redos) \in Seq(Entry)
      <4>1. h.redos \in Seq(Entry) BY <1>2, ManagerFields
      <4>2. QED BY <4>1, ReverseIs
    <3>2. From(Reverse(h.redos), h.store[r], tip[r], r, marked) BY <2>1 DEF Future
    <3>3. From(Reverse(h.redos), h.store[r], tip[r], r, marked') BY <1>4, <3>1, <3>2, WayMarks
    <3>4. QED BY <1>1, <1>11, <3>3 DEF Future
  <2>10. QED BY <2>8, <2>9
<1>16. QED BY <1>1, <1>14, <1>15 DEF HistoryInv

\* What _undo does to the manager whenever it is called.
LEMMA UndoKeeps ==
  ASSUME NEW x, WellFormed(x), NEW push \in BOOLEAN
  PROVE  /\ WellFormed(undo(x, push))
         /\ \A r \in Record : \A m, t : Past(x, r, m) =>
              /\ Past(undo(x, push), r, m)
              /\ push /\ Future(x, r, m, t) => Future(undo(x, push), r, m, t)
         /\ ~push => undo(x, push).redos = x.redos
<1> DEFINE quiet == isRecordsDiffEmpty(x.pending)
           kept == left(x.undos, quiet)
<1>1. quiet \in BOOLEAN BY DEF isRecordsDiffEmpty
<1>2. x.undos \in Seq(Entry) BY ManagerFields DEF WellFormed
<1>3. undo(x, push) = undone(x, kept, push) BY DEF undo
<1> HIDE DEF quiet
<1>4. kept \in 0 .. Len(x.undos) BY <1>1, <1>2, LeftIs
<1> HIDE DEF kept
<1>5. WellFormed(undone(x, kept, push)) BY <1>4, UndoneWellFormed
<1>6. ASSUME NEW r \in Record, NEW m, NEW t, Past(x, r, m)
      PROVE  /\ Past(undone(x, kept, push), r, m)
             /\ push /\ Future(x, r, m, t) => Future(undone(x, kept, push), r, m, t)
  BY <1>4, <1>6, UndoneKeeps
<1>7. ~push => undone(x, kept, push).redos = x.redos BY UndoneIs
<1>8. QED BY <1>3, <1>5, <1>6, <1>7

LEMMA BailToMarkKeeps ==
  ASSUME NEW x, WellFormed(x), NEW i
  PROVE  /\ WellFormed(bailToMark(x, i))
         /\ \A r \in Record : \A m : Past(x, r, m) => Past(bailToMark(x, i), r, m)
         /\ bailToMark(x, i).redos = x.redos
<1> DEFINE stop == LastStop(x.undos, {i})
           y == bailToMark(x, i)
<1>1. x \in Managers /\ x.undos \in Seq(Entry) BY ManagerFields DEF WellFormed
<1>2. stop \in 0 .. Len(x.undos) BY <1>1, LastStopIs
<1>3. y = IF stop = 0 THEN [x EXCEPT !.isEmpty = isRecordsDiffEmpty(x.pending)] ELSE undone(x, stop - 1, FALSE)
  BY DEF bailToMark
<1> HIDE DEF stop, y
<1>4. CASE stop = 0
  <2> DEFINE quiet == isRecordsDiffEmpty(x.pending)
  <2>1. quiet \in BOOLEAN BY DEF isRecordsDiffEmpty
  <2> HIDE DEF quiet
  <2>2. y = [x EXCEPT !.isEmpty = quiet] BY <1>3, <1>4 DEF quiet
  <2>3. y \in Managers /\ y.store = x.store /\ y.undos = x.undos /\ y.redos = x.redos /\ y.pending = x.pending
        /\ y.isEmpty = quiet
    BY <1>1, <2>1, <2>2 DEF Managers
  <2>4. WellFormed(y) BY <2>3 DEF WellFormed, quiet
  <2>5. QED BY <2>3, <2>4 DEF Past, y
<1>5. CASE stop # 0
  <2> DEFINE kept == stop - 1
  <2>1. y = undone(x, kept, FALSE) BY <1>3, <1>5
  <2>2. kept \in 0 .. Len(x.undos)
    <3>1. Len(x.undos) \in Nat BY <1>1
    <3>2. QED BY <1>2, <1>5, <3>1
  <2> HIDE DEF kept
  <2>3. FALSE \in BOOLEAN OBVIOUS
  <2>4. WellFormed(y) BY <2>1, <2>2, <2>3, UndoneWellFormed
  <2>5. ASSUME NEW r \in Record, NEW m, Past(x, r, m) PROVE Past(y, r, m)
    BY <2>1, <2>2, <2>3, <2>5, UndoneKeeps
  <2>6. y.redos = x.redos BY <2>1, UndoneIs
  <2>7. QED BY <2>4, <2>5, <2>6 DEF y
<1>6. QED BY <1>4, <1>5

\* A bail may part the redo stack from the document, and then the invariant is
\* forked; otherwise it keeps what it kept.
LEMMA BailsKeeps ==
  ASSUME HistoryInv, NEW x, WellFormed(x), x.redos = h.redos,
         \A r \in Record : \A m : Past(h, r, m) => Past(x, r, m), Bails(x)
  PROVE  HistoryInv'
<1>1. /\ TypeInv /\ UNCHANGED <<state, batches, marked>> /\ h' = x
      /\ tip' = (IF x.redos = <<>> THEN x.store ELSE tip)
      /\ forked' = (forked \/ (h.redos # <<>> /\ h'.store # h.store))
  BY DEF HistoryInv, Bails
<1>2. x.store \in [Record -> Value] BY ManagerFields DEF WellFormed
<1>3. TypeInv'
  <2>1. tip' \in [Record -> Value] BY <1>1, <1>2 DEF TypeInv
  <2>2. forked' \in BOOLEAN BY <1>1 DEF TypeInv
  <2>3. WellFormed(h') BY <1>1
  <2>4. QED BY <1>1, <2>1, <2>2, <2>3 DEF TypeInv
<1>4. ASSUME ~forked', NEW r \in Own PROVE Past(h', r, marked') /\ Future(h', r, marked', tip')
  <2>1. r \in Record BY HistoryAssumption
  <2>2. ~forked /\ (h.redos = <<>> \/ h'.store = h.store) BY <1>1, <1>4
  <2>3. Past(h, r, marked) /\ Future(h, r, marked, tip) BY <2>2 DEF HistoryInv
  <2>4. Past(h', r, marked') BY <1>1, <2>1, <2>3
  <2>5. Future(h', r, marked', tip')
    <3>1. CASE h'.redos = <<>>
      <4>1. tip'[r] = h'.store[r] /\ h'.store[r] \in Value BY <1>1, <1>2, <2>1, <3>1
      <4>2. QED BY <3>1, <4>1, FutureOfNone
    <3>2. CASE h'.redos # <<>>
      <4>1. h'.store = h.store /\ tip' = tip /\ h'.redos = h.redos BY <1>1, <2>2, <3>2
      <4>2. QED BY <1>1, <2>3, <4>1 DEF Future
    <3>3. QED BY <3>1, <3>2
  <2>6. QED BY <2>4, <2>5
<1>5. QED BY <1>3, <1>4 DEF HistoryInv

\* A manager that remembers nothing has nothing to lead anywhere.
LEMMA NothingRemembered ==
  ASSUME NEW x, NEW store \in [Record -> Value], x = [Empty EXCEPT !.store = store]
  PROVE  /\ WellFormed(x) /\ x.store = store
         /\ \A r \in Record : \A m : Past(x, r, m) /\ Future(x, r, m, store)
<1>1. x = [store |-> store, undos |-> <<>>, redos |-> <<>>, pending |-> EmptyDiff, isEmpty |-> TRUE]
  BY DEF Empty
<1>2. <<>> \in Seq(Entry) OBVIOUS
<1>3. x \in Managers
  <2>1. EmptyDiff \in [Record -> Change] /\ TRUE \in BOOLEAN BY DiffTypes
  <2>2. [store |-> store, undos |-> <<>>, redos |-> <<>>, pending |-> EmptyDiff, isEmpty |-> TRUE] \in Managers
    BY <1>2, <2>1, ManagerOf
  <2>3. QED BY <1>1, <2>2
<1>4. x.store = store /\ x.undos = <<>> /\ x.redos = <<>> /\ x.pending = EmptyDiff /\ x.isEmpty = TRUE
  BY <1>1
<1>5. WellFormed(x) BY <1>3, <1>4 DEF WellFormed, isRecordsDiffEmpty
<1>6. ASSUME NEW r \in Record, NEW m PROVE Past(x, r, m) /\ Future(x, r, m, store)
  <2>1. x.store[r] \in Value /\ store[r] = x.store[r] BY <1>4
  <2>2. From(x.undos, x.store[r], x.store[r], r, m) BY <1>4, <2>1, WayNone
  <2>3. Past(x, r, m) BY <1>4, <2>1, <2>2, PastOfFlushed
  <2>4. Future(x, r, m, store) BY <1>4, <2>1, FutureOfNone
  <2>5. QED BY <2>3, <2>4
<1>7. QED BY <1>4, <1>5, <1>6

LEMMA HistoryInvInit == Init => HistoryInv
<1> SUFFICES ASSUME Init PROVE HistoryInv
  OBVIOUS
<1>1. PICK store \in [Record -> {0, MaxValue}] : h = [Empty EXCEPT !.store = store] BY DEF Init
<1>2. store \in [Record -> Value]
  <2>1. 0 \in Value /\ MaxValue \in Value BY HistoryAssumption DEF Value
  <2>2. QED BY <2>1
<1>3. /\ WellFormed(h) /\ h.store = store
      /\ \A r \in Record : \A m : Past(h, r, m) /\ Future(h, r, m, store)
  BY <1>1, <1>2, NothingRemembered
<1>4. tip = store /\ state \in States /\ batches = <<>> /\ marked = <<>> /\ forked = FALSE
  BY <1>3 DEF Init, States
<1>5. Len(marked) = 0 /\ marked \in Seq([Record -> Value]) /\ batches \in Seq(States) BY <1>4
<1>6. TypeInv
  <2>1. Len(marked) <= MaxMarks BY <1>5, HistoryAssumption
  <2>2. tip \in [Record -> Value] /\ forked \in BOOLEAN BY <1>2, <1>4
  <2>3. QED BY <1>3, <1>4, <1>5, <2>1, <2>2 DEF TypeInv
<1>7. QED BY <1>3, <1>4, <1>6, HistoryAssumption DEF HistoryInv

LEMMA ReplayKeeps ==
  ASSUME HistoryInv, Replay
  PROVE  HistoryInv'
<1>0. /\ TypeInv /\ WellFormed(h) /\ h.store \in [Record -> Value] /\ tip \in [Record -> Value]
  BY ManagerFields DEF HistoryInv, TypeInv, WellFormed
<1> DEFINE Same == UNCHANGED <<state, batches, marked, tip, forked>>
\* A step that keeps the past and the future of every record.
<1>a. ASSUME Same, WellFormed(h'),
             \A r \in Record : Past(h, r, marked) /\ Future(h, r, marked, tip) => Past(h', r, marked) /\ Future(h', r, marked, tip)
      PROVE  HistoryInv'
  <2>1. TypeInv' BY <1>0, <1>a DEF TypeInv
  <2>2. ASSUME ~forked, NEW r \in Own PROVE Past(h', r, marked') /\ Future(h', r, marked', tip')
    <3>1. r \in Record /\ Past(h, r, marked) /\ Future(h, r, marked, tip)
      BY <2>2, HistoryAssumption DEF HistoryInv
    <3>2. QED BY <1>a, <3>1
  <2>3. QED BY <1>a, <2>1, <2>2 DEF HistoryInv
<1>1. CASE Undo
  <2>1. Same /\ h' = undo(h, TRUE) BY <1>1 DEF Undo
  <2>2. /\ WellFormed(undo(h, TRUE))
        /\ \A r \in Record : \A m, t : Past(h, r, m) =>
              /\ Past(undo(h, TRUE), r, m)
              /\ Future(h, r, m, t) => Future(undo(h, TRUE), r, m, t)
    <3>1. TRUE \in BOOLEAN OBVIOUS
    <3>2. QED BY <1>0, <3>1, UndoKeeps
  <2>3. QED BY <1>a, <2>1, <2>2
<1>2. CASE Redo
  <2>1. Same /\ h' = redo(h) BY <1>2 DEF Redo
  <2>2. \A r \in Record : tip[r] \in Value BY <1>0
  <2>3. /\ WellFormed(redo(h))
        /\ \A r \in Record : \A m, t : t[r] \in Value /\ Past(h, r, m) /\ Future(h, r, m, t) =>
              Past(redo(h), r, m) /\ Future(redo(h), r, m, t)
    BY <1>0, RedoKeeps
  <2>4. QED BY <1>a, <2>1, <2>2, <2>3
<1>3. CASE Bail
  <2> DEFINE x == undo(h, FALSE)
  <2>1. WellFormed(x) /\ x.redos = h.redos /\ \A r \in Record : \A m : Past(h, r, m) => Past(x, r, m)
    <3>1. FALSE \in BOOLEAN OBVIOUS
    <3>2. QED BY <1>0, <3>1, UndoKeeps
  <2>2. Bails(x) BY <1>3 DEF Bail
  <2> HIDE DEF x
  <2>3. QED BY <2>1, <2>2, BailsKeeps
<1>4. CASE Clear
  <2>1. /\ h' = [Empty EXCEPT !.store = h.store] /\ tip' = h.store /\ forked' = FALSE
        /\ UNCHANGED <<state, batches, marked>>
    BY <1>4 DEF Clear
  <2>2. /\ WellFormed(h') /\ h'.store = h.store
        /\ \A r \in Record : \A m : Past(h', r, m) /\ Future(h', r, m, h.store)
    BY <1>0, <2>1, NothingRemembered
  <2>3. TypeInv' BY <1>0, <2>1, <2>2 DEF TypeInv
  <2>4. QED BY <2>1, <2>2, <2>3, HistoryAssumption DEF HistoryInv
<1>5. ASSUME NEW i \in DOMAIN marked, BailToMark(i) PROVE HistoryInv'
  <2> DEFINE x == bailToMark(h, i)
  <2>1. WellFormed(x) /\ x.redos = h.redos /\ \A r \in Record : \A m : Past(h, r, m) => Past(x, r, m)
    BY <1>0, BailToMarkKeeps
  <2>2. Bails(x) BY <1>5 DEF BailToMark
  <2> HIDE DEF x
  <2>3. QED BY <2>1, <2>2, BailsKeeps
<1>6. ASSUME NEW i \in DOMAIN marked, SquashToMark(i) PROVE HistoryInv'
  <2>1. Same /\ h' = squashToMark(h, i) BY <1>6 DEF SquashToMark
  <2>2. /\ WellFormed(squashToMark(h, i))
        /\ \A r \in Record : \A m, t : Past(h, r, m) => Past(squashToMark(h, i), r, m)
        /\ squashToMark(h, i).store = h.store /\ squashToMark(h, i).redos = h.redos
    BY <1>0, SquashToMarkKeeps
  <2>3. \A r \in Record : Future(h, r, marked, tip) => Future(h', r, marked, tip)
    BY <2>1, <2>2 DEF Future
  <2>4. QED BY <1>a, <2>1, <2>2, <2>3
<1>7. QED BY <1>1, <1>2, <1>3, <1>4, <1>5, <1>6 DEF Replay

LEMMA BatchKeeps ==
  ASSUME HistoryInv, Batch
  PROVE  HistoryInv'
<1>1. TypeInv /\ UNCHANGED <<h, marked, tip, forked>> BY DEF HistoryInv, Batch, BatchBegins, BatchEnds
<1>2. state' \in States /\ batches' \in Seq(States)
  <2>1. state \in States /\ batches \in Seq(States) BY <1>1 DEF TypeInv
  <2>2. CASE BatchEnds
    <3>1. batches # <<>> /\ state' = Last(batches) /\ batches' = Front(batches) BY <2>2 DEF BatchEnds
    <3>2. Len(batches) \in Nat /\ Len(batches) >= 1 BY <2>1, <3>1
    <3>3. batches[Len(batches)] \in States BY <2>1, <3>2
    <3>4. SubSeq(batches, 1, Len(batches) - 1) \in Seq(States)
      <4>1. Len(batches) - 1 \in 0 .. Len(batches) BY <3>2
      <4>2. QED BY <2>1, <4>1, TwoParts
    <3>5. QED BY <3>1, <3>3, <3>4 DEF Last, Front
  <2>3. ASSUME NEW mode \in States, BatchBegins(mode) PROVE state' \in States /\ batches' \in Seq(States)
    BY <2>1, <2>3 DEF BatchBegins
  <2>4. QED BY <2>2, <2>3 DEF Batch
<1>3. TypeInv' BY <1>1, <1>2 DEF TypeInv
<1>4. QED BY <1>1, <1>3 DEF HistoryInv, Past, Future

LEMMA HistoryInvStep == HistoryInv /\ [Next]_vars => HistoryInv'
<1> SUFFICES ASSUME HistoryInv, [Next]_vars PROVE HistoryInv'
  OBVIOUS
<1>1. CASE UNCHANGED vars BY <1>1 DEF vars, HistoryInv, TypeInv, Past, Future
<1>2. ASSUME NEW r \in Record, NEW v \in Value, Put(r, v) PROVE HistoryInv' BY <1>2, PutKeeps
<1>3. ASSUME NEW r \in Record, NEW v \in Value, RemotePut(r, v) PROVE HistoryInv' BY <1>3, RemotePutKeeps
<1>4. CASE Replay BY <1>4, ReplayKeeps
<1>5. CASE Batch BY <1>5, BatchKeeps
<1>6. CASE _mark BY <1>6, MarkKeeps
<1>7. QED BY <1>1, <1>2, <1>3, <1>4, <1>5, <1>6 DEF Next, Edits

-----------------------------------------------------------------------------
(* What the invariant says.                                                *)

LEMMA InvTypeOK == HistoryInv => TypeOK
<1> SUFFICES ASSUME HistoryInv PROVE TypeOK
  OBVIOUS
<1>1. TypeInv /\ h \in Managers /\ (h.isEmpty <=> isRecordsDiffEmpty(h.pending)) /\ state \in States
      /\ batches \in Seq(States)
  BY DEF HistoryInv, TypeInv, WellFormed
<1>2. /\ h.store \in [Record -> Value] /\ h.undos \in Seq(Entry) /\ h.redos \in Seq(Entry)
      /\ h.pending \in [Record -> Change]
  BY <1>1, ManagerFields
<1> DEFINE Says(s) == \A i \in DOMAIN s, r \in Own : s[i].type = "diff" => s[i].diff[r] \in OneThing
<1>3. ASSUME ~forked PROVE Says(h.undos) /\ Says(h.redos) /\ Says(<<Diff(h.pending)>>)
  <2>1. \A r \in Own : r \in Record /\ Past(h, r, marked) /\ Future(h, r, marked, tip)
    BY <1>3, HistoryAssumption DEF HistoryInv
  <2>2. ASSUME NEW i \in DOMAIN h.undos, NEW r \in Own, h.undos[i].type = "diff"
        PROVE  h.undos[i].diff[r] \in OneThing
    <3>1. PICK a \in Value, b \in Value : From(h.undos, a, b, r, marked) BY <2>1 DEF Past
    <3>2. i \in 1 .. Len(h.undos) BY <1>2
    <3>3. QED BY <1>2, <2>2, <3>1, <3>2, WayOneThing
  <2>3. ASSUME NEW i \in DOMAIN h.redos, NEW r \in Own, h.redos[i].type = "diff"
        PROVE  h.redos[i].diff[r] \in OneThing
    <3> DEFINE n == Len(h.redos)
               p == Reverse(h.redos)
               j == n - i + 1
    <3>1. From(p, h.store[r], tip[r], r, marked) BY <2>1 DEF Future
    <3>2. p \in Seq(Entry) /\ Len(p) = n /\ \A k \in 1 .. n : p[k] = h.redos[n - k + 1] BY <1>2, ReverseIs
    <3> HIDE DEF p
    <3>3. j \in 1 .. n /\ n - j + 1 = i
      <4>1. n \in Nat /\ i \in 1 .. n BY <1>2
      <4>2. QED BY <4>1
    <3> HIDE DEF j
    <3>4. p[j] = h.redos[i] BY <3>2, <3>3
    <3>5. p[j].diff[r] \in OneThing
      <4>1. j \in 1 .. Len(p) /\ p[j].type = "diff" BY <2>3, <3>2, <3>3, <3>4
      <4>2. QED BY <3>1, <3>2, <4>1, WayOneThing
    <3>6. QED BY <3>4, <3>5
  <2>4. ASSUME NEW r \in Own PROVE h.pending[r] \in OneThing
    <3>1. PICK a \in Value, b \in Value : Leads(b, h.store[r], h.pending[r]) BY <2>1 DEF Past
    <3>2. h.store[r] \in Value BY <1>2, <2>1
    <3>3. QED BY <3>1, <3>2, LeadsType
  <2>5. Says(<<Diff(h.pending)>>)
    <3> DEFINE e == Diff(h.pending)
    <3>1. e.diff = h.pending BY <1>2, DiffIsEntry
    <3> HIDE DEF e
    <3>2. DOMAIN <<e>> = {1} /\ <<e>>[1] = e OBVIOUS
    <3>3. Says(<<e>>) BY <2>4, <3>1, <3>2
    <3>4. QED BY <3>3 DEF e
  <2>6. QED BY <2>2, <2>3, <2>5
<1>4. ~forked => \A s \in {h.undos, h.redos, <<Diff(h.pending)>>} : Says(s)
  <2> HIDE DEF Says
  <2>1. QED BY <1>3
<1>5. QED BY <1>1, <1>2, <1>4 DEF TypeOK

LEMMA InvMarksRemember == HistoryInv => MarksRemember
<1> SUFFICES ASSUME HistoryInv, ~forked, NEW i \in DOMAIN marked, LastStop(h.undos, {i}) # 0, NEW r \in Own
             PROVE  bailToMark(h, i).store[r] = marked[i][r]
  BY DEF MarksRemember, SameOwn
<1> DEFINE stop == LastStop(h.undos, {i})
           kept == stop - 1
           p == SubSeq(h.undos, 1, kept)
           q == SubSeq(h.undos, kept + 1, Len(h.undos))
<1>1. WellFormed(h) /\ h.undos \in Seq(Entry) /\ r \in Record /\ Past(h, r, marked)
  BY ManagerFields, HistoryAssumption DEF HistoryInv, TypeInv, WellFormed
<1>2. stop \in 0 .. Len(h.undos) /\ stop # 0 /\ h.undos[stop].type = "stop" /\ h.undos[stop].id = i
  BY <1>1, LastStopIs
<1>3. bailToMark(h, i) = undone(h, kept, FALSE) BY <1>2 DEF bailToMark
<1> HIDE DEF stop
<1>4. Len(h.undos) \in Nat BY <1>1
<1>5. kept \in 0 .. Len(h.undos) /\ kept + 1 = stop /\ Len(h.undos) - kept >= 1 BY <1>2, <1>4
<1> HIDE DEF kept
<1>6. p \in Seq(Entry) /\ q \in Seq(Entry) /\ h.undos = p \o q /\ Len(p) = kept /\ Len(q) = Len(h.undos) - kept
  BY <1>1, <1>5, TwoParts
<1> HIDE DEF p, q
<1>7. q[1] = h.undos[stop]
  <2>1. (p \o q)[kept + 1] = q[1] BY <1>4, <1>5, <1>6
  <2>2. QED BY <1>5, <1>6, <2>1
<1>8. PICK a \in Value, c \in Value : From(h.undos, a, c, r, marked) /\ Leads(c, h.store[r], h.pending[r])
  BY <1>1 DEF Past
<1>9. PICK b \in Value : From(p, a, b, r, marked) /\ From(q, b, c, r, marked)
  <2>1. From(p \o q, a, c, r, marked) BY <1>6, <1>8
  <2>2. QED BY <1>6, <2>1, WaySplit
<1>10. marked[i][r] = b
  <2>1. Len(q) >= 1 /\ q[1].type = "stop" /\ q[1].id = i BY <1>2, <1>5, <1>6, <1>7
  <2>2. marked[q[1].id][r] = b BY <1>6, <1>9, <2>1, WayAtMark
  <2>3. QED BY <2>1, <2>2
<1>11. undone(h, kept, FALSE).store[r] = b
  <2>1. From(SubSeq(h.undos, kept + 1, Len(h.undos)), b, c, r, marked) BY <1>9 DEF q
  <2>2. FALSE \in BOOLEAN OBVIOUS
  <2>3. QED BY <1>1, <1>5, <1>8, <2>1, <2>2, UndoneStore
<1>12. QED BY <1>3, <1>10, <1>11

LEMMA InvRedosReachTip == HistoryInv => RedosReachTip
<1> SUFFICES ASSUME HistoryInv, ~forked, NEW r \in Own
             PROVE  applied(h.store, squashed(diffsOf(Reverse(h.redos))))[r] = tip[r]
  BY DEF RedosReachTip, SameOwn
<1> DEFINE p == Reverse(h.redos)
<1>1. h.store \in [Record -> Value] /\ h.redos \in Seq(Entry) /\ tip \in [Record -> Value] /\ r \in Record
  BY ManagerFields, HistoryAssumption DEF HistoryInv, TypeInv, WellFormed
<1>2. p \in Seq(Entry) BY <1>1, ReverseIs
<1>3. From(p, h.store[r], tip[r], r, marked) BY DEF HistoryInv, Future
<1> HIDE DEF p
<1>4. h.store[r] \in Value /\ tip[r] \in Value BY <1>1
<1>5. Leads(h.store[r], tip[r], squashed(diffsOf(p))[r]) BY <1>1, <1>2, <1>3, <1>4, WaySquashed
<1>6. applied(h.store, squashed(diffsOf(p)))[r] = tip[r] BY <1>1, <1>4, <1>5, AppliedLeads
<1>7. QED BY <1>6 DEF p

\* The diffs on the stacks are the differences of documents: of the one the undo
\* stack starts from, of those at the marks, of the store's and of the tip.
THEOREM HistoryIsAWay == Spec => []HistoryInv
<1>1. QED BY HistoryInvInit, HistoryInvStep, PTL DEF Spec

\* The stacks, the pending diff and the flag beside it are well formed, and until a
\* bail leaves a redo stack behind every diff says one thing at most of a record.
THEOREM HistoryTypes == Spec => []TypeOK
<1>1. QED BY HistoryIsAWay, InvTypeOK, PTL

\* Bailing to a mark gives back what the mark stood for (_undo, bailToMark).
THEOREM MarksAreExact == Spec => []MarksRemember
<1>1. QED BY HistoryIsAWay, InvMarksRemember, PTL

\* Redoing everything gives back what was undone (_undo, redo).
THEOREM RedosAreExact == Spec => []RedosReachTip
<1>1. QED BY HistoryIsAWay, InvRedosReachTip, PTL
=============================================================================
