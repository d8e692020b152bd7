-------------------------- MODULE LocalSyncProofs --------------------------
(***************************************************************************)
(* Proofs about the tabs of one browser, for any number of tabs, records,  *)
(* edits, pages opened and troubles.                                       *)
(*                                                                         *)
(* The inductive invariant has three parts, each proved on top of the one  *)
(* before.                                                                 *)
(*                                                                         *)
(* TypeInv: what a page, the database's queue and the channel look like; a *)
(* page that is persisting has one write in the queue, and no other has.   *)
(*                                                                         *)
(* ShownInv, for every page and every record that was not given up: the    *)
(* page shows the last edit or news of it is under way; the last message   *)
(* under way tells the last edit; what the page has yet to report or to    *)
(* write and nobody has overtaken is the last edit; and a write in flight  *)
(* is of what its page shows.                                              *)
(*                                                                         *)
(* HeldInv: a record that was not given up will be stored as it was last   *)
(* edited once the queue has run, or some page still has it to write.      *)
(***************************************************************************)
EXTENDS LocalSync, FoldProofs, SequenceTheorems

\* Values, changes, messages, transactions and pages after n edits.
Diffs(n) == UNION {[R -> 0 .. n] : R \in SUBSET Record}
Messages(n) == [type : {"announce", "diff"}, version : Nat, changes : Diffs(n)]
Transactions(n) == [tab : Tab \cup {None}, kind : {"read", "snapshot", "changes"}, data : Diffs(n)]
Pages(n) ==
  [phase : Phases, version : Nat, store : [Record -> 0 .. n], unheard : Diffs(n), queue : Diffs(n),
   queued : BOOLEAN, shouldDoFullDBWrite : BOOLEAN, isPersisting : BOOLEAN, timer : BOOLEAN,
   isReloading : BOOLEAN, leaving : BOOLEAN]

\* What a page is like in each of its phases.
PageOK(p) ==
  /\ p.queue # NoChanges => p.queued
  /\ p.phase # "loaded" => p.unheard = NoChanges
  /\ p.phase \in {"closing", "flushing"} => p.isPersisting
  /\ p.phase = "flushing" => p.queue = NoChanges /\ ~p.queued /\ ~p.shouldDoFullDBWrite
  /\ p.phase = "closed" => p = NoTab
  /\ p.phase = "loading" => ~p.isPersisting /\ ~p.timer /\ p.queue = NoChanges

\* A write of t's at i.
WriteAt(q, t, i) == q[i].tab = t /\ q[i].kind # "read"

\* A tab's write is in the database's queue while the tab is persisting, and
\* once; reads are for pages that load.
QueueOK(q, tb) ==
  /\ \A t \in Tab : /\ tb[t].isPersisting <=> (\E i \in DOMAIN q : WriteAt(q, t, i))
                    /\ \A i, j \in DOMAIN q : WriteAt(q, t, i) /\ WriteAt(q, t, j) => i = j
  /\ \A i \in DOMAIN q : q[i].kind = "read" =>
       q[i].data = NoChanges /\ q[i].tab \in Tab /\ tb[q[i].tab].phase = "loading"

\* Messages come to the pages that have made their channel.
InboxOK(box, tb, n) ==
  /\ box = [t \in Tab |-> box[t]]
  /\ \A t \in Tab : /\ box[t] \in Seq(Messages(n))
                    /\ tb[t].phase \notin {"loading", "loaded"} => box[t] = <<>>

TypeInv ==
  /\ tab \in [Tab -> Pages(edits)]
  /\ \A t \in Tab : PageOK(tab[t])
  /\ InboxOK(inbox, tab, edits)
  /\ idb \in Seq(Transactions(edits))
  /\ QueueOK(idb, tab)
  /\ disk \in [Record -> 0 .. edits] /\ latest \in [Record -> 0 .. edits]
  /\ release \in Nat /\ lost \subseteq Record
  /\ edits \in 0 .. MaxEdits /\ opens \in 0 .. MaxOpens /\ troubles \in 0 .. MaxTroubles

-----------------------------------------------------------------------------
(* Changes.                                                                *)

LEMMA DiffIs ==
  ASSUME NEW n
  PROVE  /\ \A c \in Diffs(n) : DOMAIN c \subseteq Record /\ c \in [DOMAIN c -> 0 .. n]
         /\ \A R \in SUBSET Record : \A c \in [R -> 0 .. n] : c \in Diffs(n)
         /\ NoChanges \in Diffs(n) /\ DOMAIN NoChanges = {}
         /\ \A c \in Diffs(n) : DOMAIN c = {} => c = NoChanges
<1>1. \A c \in Diffs(n) : DOMAIN c \subseteq Record /\ c \in [DOMAIN c -> 0 .. n]
  BY DEF Diffs
<1>2. \A R \in SUBSET Record : \A c \in [R -> 0 .. n] : c \in Diffs(n)
  BY DEF Diffs
<1>3. NoChanges \in [{} -> 0 .. n] /\ DOMAIN NoChanges = {}
  BY DEF NoChanges
<1>4. \A c \in Diffs(n) : DOMAIN c = {} => c = NoChanges
  <2>1. SUFFICES ASSUME NEW c \in Diffs(n), DOMAIN c = {} PROVE c = NoChanges
    OBVIOUS
  <2>2. c \in [{} -> 0 .. n] BY <1>1, <2>1
  <2>3. QED BY <1>3, <2>2
<1>5. QED BY <1>1, <1>2, <1>3, <1>4

LEMMA OverIs ==
  ASSUME NEW n, NEW c \in Diffs(n), NEW d \in Diffs(n)
  PROVE  /\ Over(c, d) \in Diffs(n) /\ DOMAIN Over(c, d) = DOMAIN c \cup DOMAIN d
         /\ \A r \in DOMAIN c \cup DOMAIN d : Over(c, d)[r] = IF r \in DOMAIN c THEN c[r] ELSE d[r]
<1>1. DOMAIN c \subseteq Record /\ DOMAIN d \subseteq Record /\ c \in [DOMAIN c -> 0 .. n] /\ d \in [DOMAIN d -> 0 .. n]
  BY DiffIs
<1>2. Over(c, d) \in [DOMAIN c \cup DOMAIN d -> 0 .. n]
  BY <1>1 DEF Over
<1>3. Over(c, d) \in Diffs(n)
  BY <1>1, <1>2, DiffIs
<1>4. QED BY <1>3 DEF Over

\* A document is changes of every record.
LEMMA OverWhole ==
  ASSUME NEW n, NEW c \in Diffs(n), NEW d \in [Record -> 0 .. n]
  PROVE  /\ Over(c, d) \in [Record -> 0 .. n]
         /\ \A r \in Record : Over(c, d)[r] = IF r \in DOMAIN c THEN c[r] ELSE d[r]
<1>1. DOMAIN c \subseteq Record /\ c \in [DOMAIN c -> 0 .. n]
  BY DiffIs
<1>2. DOMAIN c \cup DOMAIN d = Record
  BY <1>1
<1>3. QED BY <1>1, <1>2 DEF Over

LEMMA Grows ==
  ASSUME NEW n \in Nat, NEW m \in Nat, n <= m
  PROVE  /\ Diffs(n) \subseteq Diffs(m) /\ Messages(n) \subseteq Messages(m)
         /\ Transactions(n) \subseteq Transactions(m) /\ Pages(n) \subseteq Pages(m)
<1>1. 0 .. n \subseteq 0 .. m
  OBVIOUS
<1>2. Diffs(n) \subseteq Diffs(m)
  <2>1. SUFFICES ASSUME NEW c \in Diffs(n) PROVE c \in Diffs(m)
    OBVIOUS
  <2>2. DOMAIN c \subseteq Record /\ c \in [DOMAIN c -> 0 .. m]
    BY <1>1, DiffIs
  <2>3. QED BY <2>2, DiffIs
<1>3. [Record -> 0 .. n] \subseteq [Record -> 0 .. m]
  BY <1>1
<1>4. Messages(n) \subseteq Messages(m) BY <1>2 DEF Messages
<1>5. Transactions(n) \subseteq Transactions(m) BY <1>2 DEF Transactions
<1>6. Pages(n) \subseteq Pages(m)
  <2>1. SUFFICES ASSUME NEW p \in Pages(n) PROVE p \in Pages(m) OBVIOUS
  <2> HIDE DEF Diffs
  <2>2. QED BY <1>2, <1>3 DEF Pages
<1>7. QED BY <1>2, <1>4, <1>5, <1>6

-----------------------------------------------------------------------------
(* Sequences.                                                              *)

LEMMA TailAt ==
  ASSUME NEW S, NEW q \in Seq(S), q # <<>>
  PROVE  /\ Head(q) = q[1] /\ q[1] \in S /\ Len(q) \in Nat /\ Len(q) >= 1 /\ 1 \in DOMAIN q
         /\ Tail(q) \in Seq(S) /\ Len(Tail(q)) = Len(q) - 1
         /\ \A i \in DOMAIN Tail(q) : i + 1 \in DOMAIN q /\ Tail(q)[i] = q[i + 1]
         /\ \A i \in DOMAIN q : i # 1 => i - 1 \in DOMAIN Tail(q) /\ Tail(q)[i - 1] = q[i]
<1>1. Len(q) \in Nat /\ Len(q) >= 1 OBVIOUS
<1>2. Head(q) = q[1] /\ q[1] \in S BY <1>1
<1>3. /\ Tail(q) \in Seq(S) /\ Len(Tail(q)) = Len(q) - 1
      /\ \A i \in 1 .. Len(Tail(q)) : Tail(q)[i] = q[i + 1]
  BY <1>1, <1>2, HeadTailProperties
<1>4. DOMAIN q = 1 .. Len(q) /\ DOMAIN Tail(q) = 1 .. Len(q) - 1
  BY <1>3
<1>5. QED BY <1>1, <1>2, <1>3, <1>4

LEMMA AppendAt ==
  ASSUME NEW S, NEW q \in Seq(S), NEW w \in S
  PROVE  /\ Append(q, w) \in Seq(S) /\ q \o <<w>> = Append(q, w)
         /\ Len(q) \in Nat /\ Len(q) + 1 \in DOMAIN Append(q, w) /\ Append(q, w)[Len(q) + 1] = w
         /\ \A i \in DOMAIN q : i \in DOMAIN Append(q, w) /\ Append(q, w)[i] = q[i] /\ i <= Len(q)
         /\ \A i \in DOMAIN Append(q, w) : i \in Nat /\ (i \in DOMAIN q \/ i = Len(q) + 1)
<1>1. /\ Append(q, w) \in Seq(S) /\ Len(Append(q, w)) = Len(q) + 1 /\ Len(q) \in Nat
      /\ \A i \in 1 .. Len(q) : Append(q, w)[i] = q[i]
      /\ Append(q, w)[Len(q) + 1] = w
  BY AppendProperties
<1>2. q \o <<w>> = Append(q, w)
  OBVIOUS
<1>3. DOMAIN q = 1 .. Len(q) /\ DOMAIN Append(q, w) = 1 .. Len(q) + 1
  BY <1>1
<1>4. QED BY <1>1, <1>2, <1>3

-----------------------------------------------------------------------------
(* What is stored once a queue has run, as a function of the disk.         *)

Holding(r, q) == {i \in DOMAIN q : r \in DOMAIN q[i].data}
StoredOn(d, r, q) == IF Holding(r, q) = {} THEN d[r] ELSE q[Max(Holding(r, q))].data[r]

\* i is the last transaction that holds r.
LastOf(r, q, i) == i \in DOMAIN q /\ r \in DOMAIN q[i].data /\ \A j \in DOMAIN q : j > i => r \notin DOMAIN q[j].data

LEMMA StoredIs ==
  ASSUME NEW S, NEW q \in Seq(S), NEW d, NEW r
  PROVE  /\ \A i : LastOf(r, q, i) => StoredOn(d, r, q) = q[i].data[r]
         /\ (\A i \in DOMAIN q : r \notin DOMAIN q[i].data) => StoredOn(d, r, q) = d[r]
         /\ (\E i \in DOMAIN q : r \in DOMAIN q[i].data) => \E i \in DOMAIN q : LastOf(r, q, i)
<1> DEFINE H == Holding(r, q)
<1>1. Len(q) \in Nat /\ DOMAIN q = 1 .. Len(q)
  OBVIOUS
<1>2. H \subseteq 1 .. Len(q) /\ H \in SUBSET Int /\ IsFiniteSet(H)
  <2>1. H \subseteq 1 .. Len(q) BY <1>1 DEF Holding
  <2>2. 1 \in Int /\ Len(q) \in Int BY <1>1
  <2>3. IsFiniteSet(1 .. Len(q)) BY <2>2, FS_Interval
  <2>4. QED BY <1>1, <2>1, <2>3, FS_Subset
<1>3. ASSUME NEW i, LastOf(r, q, i) PROVE StoredOn(d, r, q) = q[i].data[r]
  <2>1. i \in H /\ \A j \in H : i >= j
    BY <1>1, <1>3 DEF LastOf, Holding
  <2>2. \A x \in H : x >= i => x = i
    BY <1>2, <2>1
  <2>3. Max(H) = i
    <3>1. \A x \in H : (\A y \in H : x >= y) => x = i BY <2>1, <2>2
    <3>2. QED BY <2>1, <3>1 DEF Max
  <2>4. QED BY <2>1, <2>3 DEF StoredOn
<1>4. ASSUME \A i \in DOMAIN q : r \notin DOMAIN q[i].data PROVE StoredOn(d, r, q) = d[r]
  BY <1>4 DEF StoredOn, Holding
<1>5. ASSUME \E i \in DOMAIN q : r \in DOMAIN q[i].data PROVE \E i \in DOMAIN q : LastOf(r, q, i)
  <2>1. H # {} BY <1>5 DEF Holding
  <2>2. PICK x \in H : \A y \in H : x >= y BY <1>2, <2>1, GreatestOf
  <2>3. \A j \in DOMAIN q : j > x => j \notin H BY <1>1, <1>2, <2>2
  <2>4. LastOf(r, q, x) BY <1>2, <2>3 DEF LastOf, Holding
  <2>5. QED BY <2>4 DEF LastOf
<1>6. QED BY <1>3, <1>4, <1>5

LEMMA StoredAppend ==
  ASSUME NEW S, NEW q \in Seq(S), NEW w \in S, NEW d, NEW r
  PROVE  StoredOn(d, r, Append(q, w)) = IF r \in DOMAIN w.data THEN w.data[r] ELSE StoredOn(d, r, q)
<1> DEFINE a == Append(q, w)
<1>1. a \in Seq(S) /\ Len(q) \in Nat BY AppendAt
<1>2. CASE r \in DOMAIN w.data
  <2>1. LastOf(r, a, Len(q) + 1)
    BY <1>1, <1>2, AppendAt DEF LastOf
  <2> HIDE DEF a
  <2>2. StoredOn(d, r, a) = a[Len(q) + 1].data[r] BY <1>1, <2>1, StoredIs
  <2>3. QED BY <1>2, <2>2, AppendAt DEF a
<1>3. CASE r \notin DOMAIN w.data
  <2>1. CASE \A i \in DOMAIN q : r \notin DOMAIN q[i].data
    <3>1. \A i \in DOMAIN a : r \notin DOMAIN a[i].data
      BY <1>3, <2>1, AppendAt
    <3> HIDE DEF a
    <3>2. StoredOn(d, r, a) = d[r] /\ StoredOn(d, r, q) = d[r]
      BY <1>1, <2>1, <3>1, StoredIs
    <3>3. QED BY <1>3, <3>2 DEF a
  <2>2. CASE \E i \in DOMAIN q : r \in DOMAIN q[i].data
    <3>1. PICK i \in DOMAIN q : LastOf(r, q, i) BY <2>2, StoredIs
    <3>2. LastOf(r, a, i) /\ a[i] = q[i]
      BY <1>3, <3>1, AppendAt DEF LastOf
    <3> HIDE DEF a
    <3>3. StoredOn(d, r, a) = a[i].data[r] /\ StoredOn(d, r, q) = q[i].data[r]
      BY <1>1, <3>1, <3>2, StoredIs
    <3>4. QED BY <1>3, <3>2, <3>3 DEF a
  <2>3. QED BY <2>1, <2>2
<1>4. QED BY <1>2, <1>3

\* A transaction that is dropped, and one that lands.
LEMMA StoredTail ==
  ASSUME NEW S, NEW q \in Seq(S), q # <<>>, NEW d, NEW r
  PROVE  /\ r \in DOMAIN Head(q).data => StoredOn(d, r, Tail(q)) = StoredOn(d, r, q) \/ StoredOn(d, r, q) = Head(q).data[r]
         /\ r \notin DOMAIN Head(q).data => StoredOn(d, r, Tail(q)) = StoredOn(d, r, q)
         /\ \A e : e[r] = (IF r \in DOMAIN Head(q).data THEN Head(q).data[r] ELSE d[r])
                     => StoredOn(e, r, Tail(q)) = StoredOn(d, r, q)
<1> DEFINE a == Tail(q)
<1>1. a \in Seq(S) BY TailAt
<1>2. CASE \A i \in DOMAIN a : r \notin DOMAIN a[i].data
  <2>1. \A i \in DOMAIN q : i # 1 => r \notin DOMAIN q[i].data
    BY <1>2, TailAt
  <2>2. \A e : StoredOn(e, r, a) = e[r]
    <3> HIDE DEF a
    <3>1. QED BY <1>1, <1>2, StoredIs
  <2>3. CASE r \in DOMAIN Head(q).data
    <3>1. LastOf(r, q, 1)
      BY <2>1, <2>3, TailAt DEF LastOf
    <3>2. StoredOn(d, r, q) = Head(q).data[r]
      BY <3>1, StoredIs, TailAt
    <3>3. QED BY <2>2, <2>3, <3>2
  <2>4. CASE r \notin DOMAIN Head(q).data
    <3>1. \A i \in DOMAIN q : r \notin DOMAIN q[i].data
      BY <2>1, <2>4, TailAt
    <3>2. StoredOn(d, r, q) = d[r]
      BY <3>1, StoredIs
    <3>3. QED BY <2>2, <2>4, <3>2
  <2>5. QED BY <2>3, <2>4
<1>3. CASE \E i \in DOMAIN a : r \in DOMAIN a[i].data
  <2>1. PICK i \in DOMAIN a : LastOf(r, a, i)
    <3> HIDE DEF a
    <3>1. QED BY <1>1, <1>3, StoredIs
  <2>2. i + 1 \in DOMAIN q /\ a[i] = q[i + 1]
    BY <2>1, TailAt
  <2>3. \A j \in DOMAIN q : j > i + 1 => r \notin DOMAIN q[j].data
    <3>1. SUFFICES ASSUME NEW j \in DOMAIN q, j > i + 1 PROVE r \notin DOMAIN q[j].data
      OBVIOUS
    <3>2. i \in Nat /\ j \in Nat BY <1>1
    <3>3. j # 1 /\ j - 1 > i BY <3>1, <3>2
    <3>4. j - 1 \in DOMAIN a /\ a[j - 1] = q[j] BY <3>3, TailAt
    <3>5. QED BY <2>1, <3>3, <3>4 DEF LastOf
  <2>4. LastOf(r, q, i + 1) BY <2>1, <2>2, <2>3 DEF LastOf
  <2>5. StoredOn(d, r, q) = a[i].data[r] BY <2>2, <2>4, StoredIs
  <2>6. \A e : StoredOn(e, r, a) = a[i].data[r]
    <3> HIDE DEF a
    <3>1. QED BY <1>1, <2>1, StoredIs
  <2>7. QED BY <2>5, <2>6
<1>4. QED BY <1>2, <1>3

\* Transactions whose data change by nothing else than that some of those that are
\* not the last to hold r hold it no more, or that all are kept.
LEMMA StoredKept ==
  ASSUME NEW S, NEW q \in Seq(S), NEW a \in Seq(S), DOMAIN a = DOMAIN q, NEW d, NEW r,
         \A i \in DOMAIN q : a[i].data = q[i].data \/ (r \notin DOMAIN a[i].data /\ ~LastOf(r, q, i))
  PROVE  StoredOn(d, r, a) = StoredOn(d, r, q)
<1>1. CASE \A i \in DOMAIN q : r \notin DOMAIN q[i].data
  <2>1. \A i \in DOMAIN a : r \notin DOMAIN a[i].data BY <1>1
  <2>2. QED BY <1>1, <2>1, StoredIs
<1>2. CASE \E i \in DOMAIN q : r \in DOMAIN q[i].data
  <2>1. PICK i \in DOMAIN q : LastOf(r, q, i) BY <1>2, StoredIs
  <2>2. a[i].data = q[i].data BY <2>1
  <2>3. LastOf(r, a, i) BY <2>1, <2>2 DEF LastOf
  <2>4. QED BY <2>1, <2>2, <2>3, StoredIs
<1>3. QED BY <1>1, <1>2

-----------------------------------------------------------------------------
(* Pages.                                                                  *)

LEMMA NoTabIs ==
  ASSUME NEW n \in Nat
  PROVE  /\ NoTab \in Pages(n) /\ PageOK(NoTab)
         /\ NoTab.phase = "closed" /\ NoTab.version = 0 /\ NoTab.unheard = NoChanges /\ NoTab.queue = NoChanges
         /\ ~NoTab.isPersisting /\ ~NoTab.isReloading /\ ~NoTab.timer
<1>1. Empty \in [Record -> 0 .. n] BY DEF Empty
<1>2. QED BY <1>1, DiffIs DEF NoTab, Pages, PageOK, Phases

\* What p becomes keeps what the other tabs can tell of p.
SameFace(p, s) ==
  /\ s.version = p.version /\ s.store = p.store /\ s.unheard = p.unheard
  /\ s.isReloading = p.isReloading

\* What p becomes keeps what it has yet to write.
SameWork(p, s) ==
  /\ s.shouldDoFullDBWrite = p.shouldDoFullDBWrite
  /\ s.queue = p.queue /\ s.queued = p.queued

\* What p becomes has nothing to write.
NoWork(s) == ~s.shouldDoFullDBWrite /\ s.queue = NoChanges /\ ~s.queued

LEMMA PersistIs ==
  ASSUME NEW n \in Nat, NEW p \in Pages(n)
  PROVE  /\ persistIfNeeded(p) \in Pages(n) /\ SameFace(p, persistIfNeeded(p))
         /\ persistIfNeeded(p).phase = p.phase /\ ~persistIfNeeded(p).timer
         /\ Persists(p) => persistIfNeeded(p).isPersisting /\ NoWork(persistIfNeeded(p))
         /\ ~Persists(p) => SameWork(p, persistIfNeeded(p)) /\ persistIfNeeded(p).isPersisting = p.isPersisting
         /\ PageOK(p) /\ p.phase \in {"loaded", "closing", "flushing"} => PageOK(persistIfNeeded(p))
<1> DEFINE s == persistIfNeeded(p)
<1>1. NoChanges \in Diffs(n) BY DiffIs
<1>2. s \in Pages(n)
  BY <1>1 DEF persistIfNeeded, Pages
<1>3. /\ SameFace(p, s) /\ s.phase = p.phase /\ ~s.timer
      /\ Persists(p) => s.isPersisting /\ NoWork(s)
      /\ ~Persists(p) => SameWork(p, s) /\ s.isPersisting = p.isPersisting
  BY DEF persistIfNeeded, Pages, SameFace, SameWork, NoWork
<1>4. ASSUME PageOK(p), p.phase \in {"loaded", "closing", "flushing"} PROVE PageOK(s)
  <2> HIDE DEF s
  <2>1. QED BY <1>3, <1>4 DEF PageOK, SameFace, SameWork, NoWork
<1>5. QED BY <1>2, <1>3, <1>4

\* The end of a write.
Ended(p, s) ==
  /\ SameFace(p, s) /\ s.phase = p.phase /\ s.queue = p.queue /\ s.queued = p.queued
  /\ ~s.isPersisting /\ (p.shouldDoFullDBWrite => s.shouldDoFullDBWrite)

LEMMA EndedIs ==
  ASSUME NEW n \in Nat, NEW p \in Pages(n)
  PROVE  /\ persisted(p) \in Pages(n) /\ Ended(p, persisted(p))
         /\ persisted(p).shouldDoFullDBWrite = p.shouldDoFullDBWrite
         /\ failed(p) \in Pages(n) /\ Ended(p, failed(p)) /\ failed(p).shouldDoFullDBWrite
<1>1. persisted(p) \in Pages(n) /\ Ended(p, persisted(p)) /\ persisted(p).shouldDoFullDBWrite = p.shouldDoFullDBWrite
  BY DEF persisted, Pages, Ended, SameFace
<1>2. failed(p) \in Pages(n) /\ Ended(p, failed(p)) /\ failed(p).shouldDoFullDBWrite
  BY DEF failed, persisted, Pages, Ended, SameFace
<1>3. QED BY <1>1, <1>2

\* What flushAndDispose makes of a page p that has nothing unheard.
Flushed(p, s) ==
  \/ p.isPersisting /\ s.isPersisting /\ s.phase = "closing" /\ SameFace(p, s) /\ SameWork(p, s)
  \/ Persists(p) /\ s.isPersisting /\ s.phase = "flushing" /\ SameFace(p, s) /\ NoWork(s)
  \/ ~p.isPersisting /\ ~Persists(p) /\ s = NoTab

LEMMA FlushIs ==
  ASSUME NEW n \in Nat, NEW p \in Pages(n), p.unheard = NoChanges, p.queue # NoChanges => p.queued
  PROVE  /\ flushAndDispose(p) \in Pages(n) /\ Flushed(p, flushAndDispose(p)) /\ PageOK(flushAndDispose(p))
         /\ flushAndDispose(p).isPersisting <=> p.isPersisting \/ Persists(p)
<1> DEFINE s == flushAndDispose(p)
           o == persistIfNeeded(p)
<1>1. CASE p.isPersisting
  <2>1. s = [p EXCEPT !.phase = "closing"] BY <1>1 DEF flushAndDispose
  <2>2. s \in Pages(n) BY <2>1 DEF Pages, Phases
  <2>3. Flushed(p, s) /\ s.isPersisting /\ s.phase = "closing" /\ SameFace(p, s) /\ SameWork(p, s)
    BY <1>1, <2>1 DEF Pages, SameFace, SameWork, Flushed
  <2> HIDE DEF s
  <2>4. PageOK(s) BY <2>3 DEF PageOK, SameFace, SameWork
  <2>5. QED BY <1>1, <2>2, <2>3, <2>4 DEF s
<1>2. CASE ~p.isPersisting /\ Persists(p)
  <2>1. s = [o EXCEPT !.phase = "flushing"] BY <1>2 DEF flushAndDispose
  <2>2. o \in Pages(n) /\ SameFace(p, o) /\ o.isPersisting /\ NoWork(o)
    BY <1>2, PersistIs
  <2> HIDE DEF o
  <2>3. s \in Pages(n) BY <2>1, <2>2 DEF Pages, Phases
  <2>4. Flushed(p, s) /\ s.isPersisting /\ s.phase = "flushing" /\ SameFace(p, s) /\ NoWork(s)
    BY <1>2, <2>1, <2>2 DEF Pages, SameFace, NoWork, Flushed
  <2> HIDE DEF s
  <2>5. PageOK(s) BY <2>4 DEF PageOK, SameFace, NoWork
  <2>6. QED BY <1>2, <2>3, <2>4, <2>5 DEF s
<1>3. CASE ~p.isPersisting /\ ~Persists(p)
  <2>1. s = NoTab BY <1>3 DEF flushAndDispose
  <2>2. QED BY <1>3, <2>1, NoTabIs DEF Flushed
<1>4. QED BY <1>1, <1>2, <1>3

LEMMA HeardIs ==
  ASSUME NEW n \in Nat, NEW p \in Pages(n)
  PROVE  /\ heard(p) \in Pages(n) /\ heard(p).unheard = NoChanges
         /\ heard(p).phase = p.phase /\ heard(p).version = p.version /\ heard(p).store = p.store
         /\ heard(p).isReloading = p.isReloading /\ heard(p).isPersisting = p.isPersisting
         /\ heard(p).shouldDoFullDBWrite = p.shouldDoFullDBWrite
         /\ heard(p).queue = Over(p.unheard, p.queue)
         /\ PageOK(p) /\ heard(p).queue # NoChanges => heard(p).queued
         /\ PageOK(p) /\ p.phase = "loaded" => PageOK(heard(p))
<1> DEFINE s == heard(p)
<1>1. p.unheard \in Diffs(n) /\ p.queue \in Diffs(n) BY DEF Pages
<1>2. Over(p.unheard, p.queue) \in Diffs(n) /\ DOMAIN Over(p.unheard, p.queue) = DOMAIN p.unheard \cup DOMAIN p.queue
  <2>1. \A c, d \in Diffs(n) : Over(c, d) \in Diffs(n) /\ DOMAIN Over(c, d) = DOMAIN c \cup DOMAIN d
    BY OverIs
  <2> HIDE DEF Diffs
  <2>2. QED BY <1>1, <2>1
<1>3. NoChanges \in Diffs(n) BY DiffIs
<1>4. s \in Pages(n)
  BY <1>2, <1>3 DEF heard, Pages
<1>5. /\ s.unheard = NoChanges
      /\ s.phase = p.phase /\ s.version = p.version /\ s.store = p.store
      /\ s.isReloading = p.isReloading /\ s.isPersisting = p.isPersisting
      /\ s.shouldDoFullDBWrite = p.shouldDoFullDBWrite
      /\ s.queue = Over(p.unheard, p.queue)
      /\ s.queued = (p.queued \/ p.unheard # NoChanges)
  BY DEF heard, Pages
<1> HIDE DEF s
<1>6. ASSUME PageOK(p), s.queue # NoChanges PROVE s.queued
  <2>1. CASE p.unheard # NoChanges BY <1>5, <2>1
  <2>2. CASE p.unheard = NoChanges
    <3>1. DOMAIN s.queue # {} BY <1>2, <1>5, <1>6, DiffIs
    <3>2. DOMAIN p.queue # {} BY <1>2, <1>5, <2>2, <3>1, DiffIs
    <3>3. p.queue # NoChanges BY <3>2, DiffIs
    <3>4. QED BY <1>5, <1>6, <3>3 DEF PageOK
  <2>3. QED BY <2>1, <2>2
<1>7. ASSUME PageOK(p), p.phase = "loaded" PROVE PageOK(s)
  BY <1>5, <1>6, <1>7 DEF PageOK
<1>8. QED BY <1>4, <1>5, <1>6, <1>7 DEF s

LEMMA HeardQueue ==
  ASSUME NEW n \in Nat, NEW p \in Pages(n)
  PROVE  /\ DOMAIN heard(p).queue = DOMAIN p.unheard \cup DOMAIN p.queue
         /\ \A x \in DOMAIN heard(p).queue :
              heard(p).queue[x] = IF x \in DOMAIN p.unheard THEN p.unheard[x] ELSE p.queue[x]
<1> DEFINE q == Over(p.unheard, p.queue)
<1>1. /\ DOMAIN q = DOMAIN p.unheard \cup DOMAIN p.queue
      /\ \A x \in DOMAIN q : q[x] = IF x \in DOMAIN p.unheard THEN p.unheard[x] ELSE p.queue[x]
  BY DEF Over
<1>2. heard(p).queue = q BY HeardIs
<1> HIDE DEF q
<1>3. QED BY <1>1, <1>2

\* The write that p starts, if it starts one.
Written(t, p, w) ==
  /\ w.tab = t /\ w.kind # "read"
  /\ w.data = IF p.shouldDoFullDBWrite THEN p.store ELSE p.queue

LEMMA WritesIs ==
  ASSUME NEW n \in Nat, NEW t \in Tab, NEW p \in Pages(n)
  PROVE  /\ ~Persists(p) => writes(t, p) = <<>>
         /\ Persists(p) => \E w \in Transactions(n) : Written(t, p, w) /\ writes(t, p) = <<w>>
         /\ Persists(p) => ~p.isPersisting /\ ~p.isReloading /\ (p.shouldDoFullDBWrite \/ p.queued)
<1>1. ~Persists(p) => writes(t, p) = <<>> BY DEF writes
<1>2. ASSUME Persists(p), p.shouldDoFullDBWrite
      PROVE  \E w \in Transactions(n) : Written(t, p, w) /\ writes(t, p) = <<w>>
  <2> DEFINE w == [tab |-> t, kind |-> "snapshot", data |-> p.store]
  <2>1. p.store \in Diffs(n)
    <3>1. p.store \in [Record -> 0 .. n] BY DEF Pages
    <3>2. QED BY <3>1, DiffIs
  <2>2. w \in Transactions(n) BY <2>1 DEF Transactions
  <2>3. Written(t, p, w) BY <1>2 DEF Written
  <2>4. writes(t, p) = <<w>> BY <1>2 DEF writes
  <2>5. QED BY <2>2, <2>3, <2>4
<1>3. ASSUME Persists(p), ~p.shouldDoFullDBWrite
      PROVE  \E w \in Transactions(n) : Written(t, p, w) /\ writes(t, p) = <<w>>
  <2> DEFINE w == [tab |-> t, kind |-> "changes", data |-> p.queue]
  <2>1. p.queue \in Diffs(n) BY DEF Pages
  <2>2. w \in Transactions(n) BY <2>1 DEF Transactions
  <2>3. Written(t, p, w) BY <1>3 DEF Written
  <2>4. writes(t, p) = <<w>> BY <1>3 DEF writes
  <2>5. QED BY <2>2, <2>3, <2>4
<1>4. QED BY <1>1, <1>2, <1>3 DEF Persists

-----------------------------------------------------------------------------
(* The database's queue, and the pages it belongs to.                      *)

\* A tab changes and starts no write and ends none.
LEMMA QueueSame ==
  ASSUME NEW n, NEW q \in Seq(Transactions(n)), NEW tb \in [Tab -> Pages(n)], QueueOK(q, tb),
         NEW t \in Tab, NEW s, s.isPersisting = tb[t].isPersisting,
         \/ tb[t].phase # "loading" \/ s.phase = "loading"
         \/ \A i \in DOMAIN q : ~(q[i].kind = "read" /\ q[i].tab = t)
  PROVE  QueueOK(q, [tb EXCEPT ![t] = s])
<1> DEFINE b == [tb EXCEPT ![t] = s]
<1>1. b[t] = s /\ \A u \in Tab \ {t} : b[u] = tb[u]
  OBVIOUS
<1> HIDE DEF b
<1>2. ASSUME NEW u \in Tab
      PROVE  /\ b[u].isPersisting <=> (\E i \in DOMAIN q : WriteAt(q, u, i))
             /\ \A i, j \in DOMAIN q : WriteAt(q, u, i) /\ WriteAt(q, u, j) => i = j
  <2>1. b[u].isPersisting = tb[u].isPersisting BY <1>1
  <2>2. QED BY <2>1 DEF QueueOK
<1>3. ASSUME NEW i \in DOMAIN q, q[i].kind = "read"
      PROVE  q[i].data = NoChanges /\ q[i].tab \in Tab /\ b[q[i].tab].phase = "loading"
  <2>1. q[i].data = NoChanges /\ q[i].tab \in Tab /\ tb[q[i].tab].phase = "loading" BY <1>3 DEF QueueOK
  <2>2. b[q[i].tab].phase = "loading" BY <1>1, <1>3, <2>1
  <2>3. QED BY <2>1, <2>2
<1>4. QED BY <1>2, <1>3 DEF QueueOK, b

\* A tab starts a write.
LEMMA QueueAppend ==
  ASSUME NEW n, NEW q \in Seq(Transactions(n)), NEW tb \in [Tab -> Pages(n)], QueueOK(q, tb),
         NEW t \in Tab, ~tb[t].isPersisting, tb[t].phase # "loading",
         NEW s, s.isPersisting = TRUE,
         NEW w \in Transactions(n), w.tab = t, w.kind # "read"
  PROVE  Append(q, w) \in Seq(Transactions(n)) /\ QueueOK(Append(q, w), [tb EXCEPT ![t] = s])
<1> DEFINE b == [tb EXCEPT ![t] = s]
           a == Append(q, w)
<1>1. b[t] = s /\ \A u \in Tab \ {t} : b[u] = tb[u]
  OBVIOUS
<1>2. /\ a \in Seq(Transactions(n))
      /\ Len(q) \in Nat /\ Len(q) + 1 \in DOMAIN a /\ a[Len(q) + 1] = w
      /\ \A i \in DOMAIN q : i \in DOMAIN a /\ a[i] = q[i] /\ i <= Len(q)
      /\ \A i \in DOMAIN a : i \in Nat /\ (i \in DOMAIN q \/ i = Len(q) + 1)
  BY AppendAt
<1> HIDE DEF b, a
<1>3. ASSUME NEW u \in Tab
      PROVE  /\ b[u].isPersisting <=> (\E i \in DOMAIN a : WriteAt(a, u, i))
             /\ \A i, j \in DOMAIN a : WriteAt(a, u, i) /\ WriteAt(a, u, j) => i = j
  <2>1. CASE u = t
    <3>1. \A i \in DOMAIN q : ~WriteAt(q, t, i) BY DEF QueueOK
    <3>2. \A i \in DOMAIN a : WriteAt(a, t, i) <=> i = Len(q) + 1
      BY <1>2, <3>1 DEF WriteAt
    <3>3. QED BY <1>1, <1>2, <2>1, <3>2
  <2>2. CASE u # t
    <3>1. \A i \in DOMAIN a : WriteAt(a, u, i) <=> i \in DOMAIN q /\ WriteAt(q, u, i)
      BY <1>2, <2>2 DEF WriteAt
    <3>2. \A i, j \in DOMAIN q : WriteAt(q, u, i) /\ WriteAt(q, u, j) => i = j
      BY DEF QueueOK
    <3>3. b[u].isPersisting <=> (\E i \in DOMAIN q : WriteAt(q, u, i))
      BY <1>1, <2>2 DEF QueueOK
    <3>4. QED BY <1>2, <3>1, <3>2, <3>3
  <2>3. QED BY <2>1, <2>2
<1>4. ASSUME NEW i \in DOMAIN a, a[i].kind = "read"
      PROVE  a[i].data = NoChanges /\ a[i].tab \in Tab /\ b[a[i].tab].phase = "loading"
  <2>1. i \in DOMAIN q /\ a[i] = q[i] BY <1>2, <1>4
  <2>2. q[i].data = NoChanges /\ q[i].tab \in Tab /\ tb[q[i].tab].phase = "loading" BY <1>4, <2>1 DEF QueueOK
  <2>3. QED BY <1>1, <2>1, <2>2
<1>5. QED BY <1>2, <1>3, <1>4 DEF QueueOK, b, a

\* The first transaction leaves the queue.
LEMMA QueueTail ==
  ASSUME NEW n, NEW q \in Seq(Transactions(n)), q # <<>>, NEW tb \in [Tab -> Pages(n)], QueueOK(q, tb)
  PROVE  /\ Tail(q) \in Seq(Transactions(n)) /\ Head(q) \in Transactions(n)
         /\ Head(q).kind = "read" \/ Head(q).tab = None => QueueOK(Tail(q), tb)
         /\ Head(q).kind = "read" => Head(q).tab \in Tab /\ tb[Head(q).tab].phase = "loading"
         /\ \A t \in Tab : Head(q).kind # "read" /\ Head(q).tab = t =>
              /\ tb[t].isPersisting /\ \A i \in DOMAIN Tail(q) : ~WriteAt(Tail(q), t, i)
              /\ \A s : s.isPersisting = FALSE /\ tb[t].phase # "loading" => QueueOK(Tail(q), [tb EXCEPT ![t] = s])
<1> DEFINE a == Tail(q)
<1>1. /\ Head(q) = q[1] /\ q[1] \in Transactions(n) /\ 1 \in DOMAIN q
      /\ a \in Seq(Transactions(n))
      /\ \A i \in DOMAIN a : i + 1 \in DOMAIN q /\ a[i] = q[i + 1]
      /\ \A i \in DOMAIN q : i # 1 => i - 1 \in DOMAIN a /\ a[i - 1] = q[i]
  BY TailAt
<1>n. \A i \in DOMAIN a : i \in Nat /\ i # 0
  BY <1>1
<1>m. \A i \in DOMAIN q : i \in Nat
  OBVIOUS
<1> HIDE DEF a
<1>2. ASSUME NEW u \in Tab, Head(q).kind = "read" \/ Head(q).tab # u
      PROVE  /\ tb[u].isPersisting <=> (\E i \in DOMAIN a : WriteAt(a, u, i))
             /\ \A i, j \in DOMAIN a : WriteAt(a, u, i) /\ WriteAt(a, u, j) => i = j
  <2>1. ~WriteAt(q, u, 1) BY <1>1, <1>2 DEF WriteAt
  <2>2. \A i \in DOMAIN a : WriteAt(a, u, i) <=> WriteAt(q, u, i + 1) BY <1>1 DEF WriteAt
  <2>3. \A i \in DOMAIN q : WriteAt(q, u, i) => i - 1 \in DOMAIN a /\ WriteAt(a, u, i - 1)
    BY <1>1, <2>1 DEF WriteAt
  <2>4. tb[u].isPersisting <=> (\E i \in DOMAIN q : WriteAt(q, u, i)) BY DEF QueueOK
  <2>5. \A i, j \in DOMAIN q : WriteAt(q, u, i) /\ WriteAt(q, u, j) => i = j BY DEF QueueOK
  <2>6. (\E i \in DOMAIN q : WriteAt(q, u, i)) <=> (\E i \in DOMAIN a : WriteAt(a, u, i)) BY <1>1, <2>2, <2>3
  <2>7. \A i, j \in DOMAIN a : WriteAt(a, u, i) /\ WriteAt(a, u, j) => i + 1 = j + 1 BY <1>1, <2>2, <2>5
  <2>8. QED BY <1>n, <2>4, <2>6, <2>7
<1>3. \A i \in DOMAIN a : a[i].kind = "read" => a[i].data = NoChanges /\ a[i].tab \in Tab /\ tb[a[i].tab].phase = "loading"
  BY <1>1 DEF QueueOK
<1>4. ASSUME Head(q).kind = "read" \/ Head(q).tab = None PROVE QueueOK(a, tb)
  <2>1. \A u \in Tab : Head(q).kind = "read" \/ Head(q).tab # u BY <1>4, LocalAssumption
  <2>2. QED BY <1>2, <1>3, <2>1 DEF QueueOK
<1>5. ASSUME NEW t \in Tab, Head(q).kind # "read", Head(q).tab = t
      PROVE  tb[t].isPersisting /\ \A i \in DOMAIN a : ~WriteAt(a, t, i)
  <2>1. WriteAt(q, t, 1) BY <1>1, <1>5 DEF WriteAt
  <2>2. tb[t].isPersisting BY <1>1, <2>1 DEF QueueOK
  <2>3. \A i \in DOMAIN a : WriteAt(a, t, i) => WriteAt(q, t, i + 1) BY <1>1 DEF WriteAt
  <2>4. \A i \in DOMAIN a : WriteAt(a, t, i) => i + 1 = 1 BY <1>1, <2>1, <2>3 DEF QueueOK
  <2>5. QED BY <1>n, <2>2, <2>4
<1>6. ASSUME NEW t \in Tab, Head(q).kind # "read", Head(q).tab = t, NEW s, s.isPersisting = FALSE, tb[t].phase # "loading"
      PROVE  QueueOK(a, [tb EXCEPT ![t] = s])
  <2> DEFINE b == [tb EXCEPT ![t] = s]
  <2>1. b[t] = s /\ \A u \in Tab \ {t} : b[u] = tb[u] OBVIOUS
  <2> HIDE DEF b
  <2>2. \A i \in DOMAIN a : ~WriteAt(a, t, i) BY <1>5, <1>6
  <2>3. ASSUME NEW u \in Tab
        PROVE  /\ b[u].isPersisting <=> (\E i \in DOMAIN a : WriteAt(a, u, i))
               /\ \A i, j \in DOMAIN a : WriteAt(a, u, i) /\ WriteAt(a, u, j) => i = j
    <3>1. CASE u = t BY <1>6, <2>1, <2>2, <3>1
    <3>2. CASE u # t BY <1>2, <1>6, <2>1, <3>2
    <3>3. QED BY <3>1, <3>2
  <2>4. \A i \in DOMAIN a : a[i].kind = "read" => a[i].data = NoChanges /\ a[i].tab \in Tab /\ b[a[i].tab].phase = "loading"
    BY <1>3, <1>6, <2>1
  <2>5. QED BY <2>3, <2>4 DEF QueueOK, b
<1>7. Head(q).kind = "read" => Head(q).tab \in Tab /\ tb[Head(q).tab].phase = "loading"
  BY <1>1 DEF QueueOK
<1>8. QED BY <1>1, <1>4, <1>5, <1>6, <1>7 DEF a

\* A tab does what persistIfNeeded or flushAndDispose makes of p.
LEMMA QueueWrites ==
  ASSUME NEW n \in Nat, NEW q \in Seq(Transactions(n)), NEW tb \in [Tab -> Pages(n)], QueueOK(q, tb),
         NEW t \in Tab, tb[t].phase # "loading", NEW p \in Pages(n), p.isPersisting = tb[t].isPersisting,
         NEW s \in Pages(n), s.isPersisting <=> p.isPersisting \/ Persists(p)
  PROVE  q \o writes(t, p) \in Seq(Transactions(n)) /\ QueueOK(q \o writes(t, p), [tb EXCEPT ![t] = s])
<1>0. s.isPersisting \in BOOLEAN /\ p.isPersisting \in BOOLEAN
  BY DEF Pages
<1>1. CASE Persists(p)
  <2>1. PICK w \in Transactions(n) : Written(t, p, w) /\ writes(t, p) = <<w>> BY <1>1, WritesIs
  <2>2. q \o writes(t, p) = Append(q, w) BY <2>1
  <2>3. ~tb[t].isPersisting /\ s.isPersisting = TRUE BY <1>0, <1>1, WritesIs
  <2>4. w.tab = t /\ w.kind # "read" BY <2>1 DEF Written
  <2>5. w \in Transactions(n) BY <2>1
  <2>6. Append(q, w) \in Seq(Transactions(n)) /\ QueueOK(Append(q, w), [tb EXCEPT ![t] = s])
    BY <2>3, <2>4, <2>5, QueueAppend
  <2>7. QED BY <2>2, <2>6
<1>2. CASE ~Persists(p)
  <2>1. q \o writes(t, p) = q BY <1>2, WritesIs
  <2>2. s.isPersisting = tb[t].isPersisting BY <1>0, <1>2
  <2>3. QED BY <2>1, <2>2, QueueSame
<1>3. QED BY <1>1, <1>2

\* A page opens and asks to read.
LEMMA QueueOpens ==
  ASSUME NEW n, NEW q \in Seq(Transactions(n)), NEW tb \in [Tab -> Pages(n)], QueueOK(q, tb),
         NEW t \in Tab, tb[t].isPersisting = FALSE, NEW s, s.isPersisting = FALSE, s.phase = "loading"
  PROVE  Append(q, reading(t)) \in Seq(Transactions(n)) /\ QueueOK(Append(q, reading(t)), [tb EXCEPT ![t] = s])
<1> DEFINE b == [tb EXCEPT ![t] = s]
           w == reading(t)
           a == Append(q, w)
<1>1. b[t] = s /\ \A u \in Tab \ {t} : b[u] = tb[u]
  OBVIOUS
<1>2. w \in Transactions(n) /\ w.kind = "read" /\ w.data = NoChanges /\ w.tab = t
  <2>1. NoChanges \in Diffs(n) BY DiffIs
  <2>2. QED BY <2>1 DEF reading, Transactions
<1> HIDE DEF b, w
<1>3. /\ a \in Seq(Transactions(n))
      /\ Len(q) \in Nat /\ Len(q) + 1 \in DOMAIN a /\ a[Len(q) + 1] = w
      /\ \A i \in DOMAIN q : i \in DOMAIN a /\ a[i] = q[i] /\ i <= Len(q)
      /\ \A i \in DOMAIN a : i \in Nat /\ (i \in DOMAIN q \/ i = Len(q) + 1)
  BY <1>2, AppendAt
<1> HIDE DEF a
<1>4. ASSUME NEW u \in Tab
      PROVE  /\ b[u].isPersisting <=> (\E i \in DOMAIN a : WriteAt(a, u, i))
             /\ \A i, j \in DOMAIN a : WriteAt(a, u, i) /\ WriteAt(a, u, j) => i = j
  <2>1. \A i \in DOMAIN a : WriteAt(a, u, i) <=> i \in DOMAIN q /\ WriteAt(q, u, i)
    BY <1>2, <1>3 DEF WriteAt
  <2>2. b[u].isPersisting = tb[u].isPersisting BY <1>1
  <2>3. tb[u].isPersisting <=> (\E i \in DOMAIN q : WriteAt(q, u, i)) BY DEF QueueOK
  <2>4. \A i, j \in DOMAIN q : WriteAt(q, u, i) /\ WriteAt(q, u, j) => i = j BY DEF QueueOK
  <2>5. QED BY <1>3, <2>1, <2>2, <2>3, <2>4
<1>5. ASSUME NEW i \in DOMAIN a, a[i].kind = "read"
      PROVE  a[i].data = NoChanges /\ a[i].tab \in Tab /\ b[a[i].tab].phase = "loading"
  <2>1. CASE i = Len(q) + 1 BY <1>1, <1>2, <1>3, <2>1
  <2>2. CASE i \in DOMAIN q
    <3>1. a[i] = q[i] BY <1>3, <2>2
    <3>2. q[i].data = NoChanges /\ q[i].tab \in Tab /\ tb[q[i].tab].phase = "loading" BY <1>5, <2>2, <3>1 DEF QueueOK
    <3>3. QED BY <1>1, <3>1, <3>2
  <2>3. QED BY <1>3, <2>1, <2>2
<1>6. QED BY <1>3, <1>4, <1>5 DEF QueueOK, a, b, w

\* A page is gone.
LEMMA QueueOrphaned ==
  ASSUME NEW n, NEW q \in Seq(Transactions(n)), NEW tb \in [Tab -> Pages(n)], QueueOK(q, tb),
         NEW t \in Tab, NEW l \in BOOLEAN
  PROVE  /\ orphaned(t, q, l) \in Seq(Transactions(n)) /\ DOMAIN orphaned(t, q, l) = DOMAIN q
         /\ \A i \in DOMAIN q :
              /\ q[i].tab # t => orphaned(t, q, l)[i] = q[i]
              /\ q[i].tab = t => /\ orphaned(t, q, l)[i].tab = None
                                 /\ orphaned(t, q, l)[i].data = IF l THEN q[i].data ELSE NoChanges
         /\ QueueOK(orphaned(t, q, l), [tb EXCEPT ![t] = NoTab])
<1> DEFINE b == [tb EXCEPT ![t] = NoTab]
           a == orphaned(t, q, l)
<1>1. b[t] = NoTab /\ NoTab.isPersisting = FALSE /\ \A u \in Tab \ {t} : b[u] = tb[u]
  BY DEF NoTab
<1>2. Len(q) \in Nat /\ DOMAIN q = 1 .. Len(q) /\ \A i \in DOMAIN q : q[i] \in Transactions(n)
  OBVIOUS
<1>3. DOMAIN a = DOMAIN q /\ \A i \in DOMAIN q :
        /\ q[i].tab # t => a[i] = q[i]
        /\ q[i].tab = t => a[i] = [tab |-> None, kind |-> "changes", data |-> IF l THEN q[i].data ELSE NoChanges]
  BY DEF orphaned
<1> HIDE DEF a, b
<1>4. \A i \in DOMAIN q : a[i] \in Transactions(n)
  <2>1. SUFFICES ASSUME NEW i \in DOMAIN q PROVE a[i] \in Transactions(n)
    OBVIOUS
  <2>2. NoChanges \in Diffs(n) BY DiffIs
  <2>3. q[i].data \in Diffs(n) BY <1>2 DEF Transactions
  <2>4. QED BY <1>2, <1>3, <2>2, <2>3 DEF Transactions
<1>5. a \in Seq(Transactions(n))
  <2>1. a = [i \in 1 .. Len(q) |-> a[i]]
    <3>1. a = [i \in DOMAIN q |-> a[i]] BY DEF a, orphaned
    <3>2. QED BY <1>2, <3>1
  <2>2. a \in [1 .. Len(q) -> Transactions(n)] BY <1>2, <1>4, <2>1
  <2>3. QED BY <1>2, <2>2
<1>6. \A i \in DOMAIN q : q[i].tab = t => a[i].tab = None /\ a[i].kind = "changes" /\ a[i].data = IF l THEN q[i].data ELSE NoChanges
  BY <1>3
<1>7. ASSUME NEW u \in Tab
      PROVE  /\ b[u].isPersisting <=> (\E i \in DOMAIN a : WriteAt(a, u, i))
             /\ \A i, j \in DOMAIN a : WriteAt(a, u, i) /\ WriteAt(a, u, j) => i = j
  <2>1. CASE u = t
    <3>1. \A i \in DOMAIN a : ~WriteAt(a, t, i) BY <1>3, <1>6, LocalAssumption DEF WriteAt
    <3>2. QED BY <1>1, <2>1, <3>1
  <2>2. CASE u # t
    <3>1. \A i \in DOMAIN a : WriteAt(a, u, i) <=> WriteAt(q, u, i)
      BY <1>3, <1>6, <2>2, LocalAssumption DEF WriteAt
    <3>2. QED BY <1>1, <1>3, <2>2, <3>1 DEF QueueOK
  <2>3. QED BY <2>1, <2>2
<1>8. ASSUME NEW i \in DOMAIN a, a[i].kind = "read"
      PROVE  a[i].data = NoChanges /\ a[i].tab \in Tab /\ b[a[i].tab].phase = "loading"
  <2>1. q[i].tab # t /\ a[i] = q[i] BY <1>3, <1>6, <1>8
  <2>2. q[i].data = NoChanges /\ q[i].tab \in Tab /\ tb[q[i].tab].phase = "loading" BY <1>3, <1>8, <2>1 DEF QueueOK
  <2>3. QED BY <1>1, <2>1, <2>2
<1>9. QED BY <1>3, <1>5, <1>6, <1>7, <1>8 DEF QueueOK, a, b

-----------------------------------------------------------------------------
(* Messages.                                                               *)

LEMMA MessageIs ==
  ASSUME NEW n, NEW v \in Nat
  PROVE  /\ announce(v) \in Messages(n) /\ announce(v).version = v /\ announce(v).changes = NoChanges
         /\ \A c \in Diffs(n) : diff(v, c) \in Messages(n) /\ diff(v, c).version = v /\ diff(v, c).changes = c
<1>1. NoChanges \in Diffs(n) BY DiffIs
<1>2. QED BY <1>1 DEF announce, diff, Messages

\* Every other tab that has made its channel has one more message.
LEMMA PostedIs ==
  ASSUME NEW t \in Tab, NEW m
  PROVE  \A u \in Tab : posted(t, m)[u] = IF u # t /\ tab[u].phase \in {"loading", "loaded"}
                                          THEN Append(inbox[u], m) ELSE inbox[u]
  BY DEF posted

LEMMA PageIs ==
  ASSUME TypeInv, NEW t \in Tab
  PROVE  /\ tab[t] \in Pages(edits) /\ PageOK(tab[t]) /\ edits \in Nat
         /\ tab[t].phase \in Phases /\ tab[t].version \in Nat /\ tab[t].store \in [Record -> 0 .. edits]
         /\ tab[t].unheard \in Diffs(edits) /\ tab[t].queue \in Diffs(edits)
         /\ tab[t].isPersisting \in BOOLEAN /\ inbox[t] \in Seq(Messages(edits))
<1>1. tab[t] \in Pages(edits) /\ PageOK(tab[t]) /\ edits \in Nat /\ inbox[t] \in Seq(Messages(edits))
  BY LocalAssumption DEF TypeInv, InboxOK
<1>2. QED BY <1>1 DEF Pages

\* A page of t's takes the place of the one it had.
LEMMA TabsStep ==
  ASSUME TypeInv, NEW t \in Tab, NEW s \in Pages(edits), PageOK(s)
  PROVE  /\ [tab EXCEPT ![t] = s] \in [Tab -> Pages(edits)]
         /\ \A u \in Tab : PageOK([tab EXCEPT ![t] = s][u])
         /\ [tab EXCEPT ![t] = s][t] = s /\ \A u \in Tab \ {t} : [tab EXCEPT ![t] = s][u] = tab[u]
<1>1. tab \in [Tab -> Pages(edits)] BY DEF TypeInv
<1>2. \A u \in Tab : PageOK(tab[u]) BY DEF TypeInv
<1> HIDE DEF Pages
<1>3. QED BY <1>1, <1>2

\* Messages when t's page is s.
LEMMA InboxStep ==
  ASSUME TypeInv, NEW t \in Tab, NEW s, NEW box, box = [u \in Tab |-> box[u]],
         box[t] \in Seq(Messages(edits)), s.phase \notin {"loading", "loaded"} => box[t] = <<>>,
         \A u \in Tab \ {t} : \/ box[u] = inbox[u]
                              \/ \E m \in Messages(edits) : box[u] = Append(inbox[u], m) /\ tab[u].phase \in {"loading", "loaded"}
  PROVE  InboxOK(box, [tab EXCEPT ![t] = s], edits)
<1> DEFINE b == [tab EXCEPT ![t] = s]
<1>1. b[t] = s /\ \A u \in Tab \ {t} : b[u] = tab[u]
  BY DEF TypeInv
<1> HIDE DEF b
<1>2. ASSUME NEW u \in Tab
      PROVE  box[u] \in Seq(Messages(edits)) /\ (b[u].phase \notin {"loading", "loaded"} => box[u] = <<>>)
  <2>1. CASE u = t BY <1>1, <2>1
  <2>2. inbox[u] \in Seq(Messages(edits)) /\ (tab[u].phase \notin {"loading", "loaded"} => inbox[u] = <<>>)
    BY DEF TypeInv, InboxOK
  <2>3. CASE u # t /\ box[u] = inbox[u] BY <1>1, <2>2, <2>3
  <2>4. CASE u # t /\ \E m \in Messages(edits) : box[u] = Append(inbox[u], m) /\ tab[u].phase \in {"loading", "loaded"}
    <3>1. PICK m \in Messages(edits) : box[u] = Append(inbox[u], m) /\ tab[u].phase \in {"loading", "loaded"} BY <2>4
    <3>2. Append(inbox[u], m) \in Seq(Messages(edits)) BY <2>2
    <3>3. QED BY <1>1, <2>4, <3>1, <3>2
  <2>5. QED BY <2>1, <2>3, <2>4
<1>3. QED BY <1>2 DEF InboxOK, b

\* t's page ends a write, well or not.
LEMMA FinishesIs ==
  ASSUME TypeInv, NEW t \in Tab, idb # <<>>, Head(idb).kind # "read", Head(idb).tab = t,
         NEW p \in Pages(edits), Ended(tab[t], p), finishes(t, p)
  PROVE  /\ tab' = [tab EXCEPT ![t] = finished(p)] /\ finished(p) \in Pages(edits) /\ PageOK(finished(p))
         /\ idb' \in Seq(Transactions(edits)) /\ QueueOK(idb', tab')
         /\ tab[t].isPersisting /\ tab[t].phase \in {"loaded", "closing", "flushing"}
         /\ tab[t].phase = "loaded" => finished(p) = p /\ idb' = Tail(idb)
         /\ tab[t].phase = "closing" => /\ Flushed(p, finished(p)) /\ finished(p).phase \in {"flushing", "closed"}
                                        /\ idb' = Tail(idb) \o writes(t, p)
         /\ tab[t].phase = "flushing" => finished(p) = NoTab /\ idb' = Tail(idb)
<1>1. tab[t] \in Pages(edits) /\ PageOK(tab[t]) /\ edits \in Nat /\ tab[t].phase \in Phases
  BY PageIs
<1>2. idb \in Seq(Transactions(edits)) /\ QueueOK(idb, tab) /\ tab \in [Tab -> Pages(edits)]
  BY DEF TypeInv
<1>3. tab[t].isPersisting /\ Tail(idb) \in Seq(Transactions(edits))
  BY <1>2, QueueTail
<1>4. tab[t].phase \in {"loaded", "closing", "flushing"}
  BY <1>1, <1>3 DEF PageOK, Phases, NoTab
<1>5. p.phase = tab[t].phase /\ ~p.isPersisting /\ p.isPersisting = FALSE /\ p.unheard = tab[t].unheard /\ p.queue = tab[t].queue /\ p.queued = tab[t].queued
  BY DEF Ended, SameFace, Pages
<1>6. tab' = [tab EXCEPT ![t] = finished(p)]
  BY DEF finishes
<1>7. \A s : s.isPersisting = FALSE => QueueOK(Tail(idb), [tab EXCEPT ![t] = s])
  BY <1>2, <1>4, QueueTail
<1>t. Tail(idb) \o <<>> = Tail(idb)
  BY <1>3
<1>8. CASE tab[t].phase = "loaded"
  <2>1. finished(p) = p BY <1>5, <1>8 DEF finished
  <2>2. idb' = Tail(idb) BY <1>5, <1>8, <1>t DEF finishes
  <2>3. PageOK(p) BY <1>1, <1>5, <1>8 DEF PageOK
  <2>4. QED BY <1>3, <1>5, <1>6, <1>7, <1>8, <2>1, <2>2, <2>3
<1>9. CASE tab[t].phase = "flushing"
  <2>1. finished(p) = NoTab BY <1>5, <1>9 DEF finished
  <2>2. idb' = Tail(idb) BY <1>5, <1>9, <1>t DEF finishes
  <2>3. NoTab \in Pages(edits) /\ PageOK(NoTab) /\ NoTab.isPersisting = FALSE BY <1>1, NoTabIs DEF NoTab
  <2>4. QED BY <1>3, <1>6, <1>7, <1>9, <2>1, <2>2, <2>3
<1>10. CASE tab[t].phase = "closing"
  <2>1. finished(p) = flushAndDispose(p) BY <1>5, <1>10 DEF finished
  <2>2. idb' = Tail(idb) \o writes(t, p) BY <1>5, <1>10 DEF finishes
  <2>3. p.unheard = NoChanges /\ (p.queue # NoChanges => p.queued) BY <1>1, <1>5, <1>10 DEF PageOK
  <2>4. /\ finished(p) \in Pages(edits) /\ Flushed(p, finished(p)) /\ PageOK(finished(p))
        /\ finished(p).isPersisting <=> p.isPersisting \/ Persists(p)
    BY <1>1, <2>1, <2>3, FlushIs
  <2> DEFINE b == [tab EXCEPT ![t] = p]
  <2>5. QueueOK(Tail(idb), b) /\ b \in [Tab -> Pages(edits)] /\ b[t] = p
    <3>1. b \in [Tab -> Pages(edits)] /\ b[t] = p
      <4> HIDE DEF Pages
      <4>1. QED BY <1>2
    <3>2. QED BY <1>5, <1>7, <3>1
  <2>6. [b EXCEPT ![t] = finished(p)] = [tab EXCEPT ![t] = finished(p)]
    BY <1>2
  <2> HIDE DEF b
  <2>7. finished(p) \in Pages(edits) BY <2>4
  <2>8. b[t].phase # "loading" /\ p.isPersisting = b[t].isPersisting BY <1>5, <1>10, <2>5
  <2>9. Tail(idb) \o writes(t, p) \in Seq(Transactions(edits)) /\ QueueOK(Tail(idb) \o writes(t, p), [b EXCEPT ![t] = finished(p)])
    BY <1>1, <1>3, <2>4, <2>5, <2>7, <2>8, QueueWrites
  <2>10. finished(p).phase \in {"flushing", "closed"} BY <1>5, <2>4, NoTabIs, <1>1 DEF Flushed
  <2>11. QED BY <1>3, <1>6, <1>10, <2>2, <2>4, <2>6, <2>7, <2>9, <2>10
<1>11. QED BY <1>4, <1>8, <1>9, <1>10

\* t's page becomes s and no other message comes than to t.
LEMMA TypesStep ==
  ASSUME TypeInv, NEW t \in Tab, NEW s \in Pages(edits), PageOK(s), tab' = [tab EXCEPT ![t] = s],
         InboxOK(inbox', tab', edits), idb' \in Seq(Transactions(edits)), QueueOK(idb', tab'),
         disk' \in [Record -> 0 .. edits], UNCHANGED <<release, edits, latest>>, lost' \subseteq Record,
         opens' \in 0 .. MaxOpens, troubles' \in 0 .. MaxTroubles
  PROVE  TypeInv'
<1>1. tab' \in [Tab -> Pages(edits)] /\ \A u \in Tab : PageOK(tab'[u])
  BY TabsStep
<1>2. QED BY <1>1 DEF TypeInv

LEMMA BoundsIs ==
  ASSUME TypeInv
  PROVE  /\ disk \in [Record -> 0 .. edits] /\ latest \in [Record -> 0 .. edits]
         /\ opens \in 0 .. MaxOpens /\ troubles \in 0 .. MaxTroubles /\ release \in Nat /\ lost \subseteq Record
         /\ edits \in 0 .. MaxEdits /\ edits \in Nat
         /\ idb \in Seq(Transactions(edits)) /\ QueueOK(idb, tab) /\ tab \in [Tab -> Pages(edits)]
         /\ InboxOK(inbox, tab, edits)
  BY LocalAssumption DEF TypeInv

\* A page that is open becomes another one, and nothing else happens to messages
\* or to the database.
LEMMA InboxKept ==
  ASSUME TypeInv, NEW t \in Tab, NEW s, s.phase \in {"loading", "loaded"} \/ inbox[t] = <<>>
  PROVE  InboxOK(inbox, [tab EXCEPT ![t] = s], edits)
<1>1. inbox = [u \in Tab |-> inbox[u]] /\ inbox[t] \in Seq(Messages(edits)) BY DEF TypeInv, InboxOK
<1>2. QED BY <1>1, InboxStep

LEMMA InboxHeard ==
  ASSUME TypeInv, NEW t \in Tab, NEW s, s.phase \in {"loading", "loaded"} \/ Tail(inbox[t]) = <<>>, inbox[t] # <<>>
  PROVE  InboxOK([inbox EXCEPT ![t] = Tail(@)], [tab EXCEPT ![t] = s], edits)
<1> DEFINE box == [inbox EXCEPT ![t] = Tail(@)]
<1>1. inbox = [u \in Tab |-> inbox[u]] /\ inbox[t] \in Seq(Messages(edits)) BY DEF TypeInv, InboxOK
<1>2. box = [u \in Tab |-> box[u]] /\ box[t] = Tail(inbox[t]) /\ \A u \in Tab \ {t} : box[u] = inbox[u] BY <1>1
<1>3. box[t] \in Seq(Messages(edits)) BY <1>1, <1>2
<1> HIDE DEF box
<1>4. s.phase \notin {"loading", "loaded"} => box[t] = <<>> BY <1>2
<1>5. InboxOK(box, [tab EXCEPT ![t] = s], edits) BY <1>2, <1>3, <1>4, InboxStep
<1>6. QED BY <1>5 DEF box

LEMMA InboxPosted ==
  ASSUME TypeInv, NEW t \in Tab, NEW s, s.phase \in {"loading", "loaded"} \/ inbox[t] = <<>>, NEW m \in Messages(edits)
  PROVE  InboxOK(posted(t, m), [tab EXCEPT ![t] = s], edits)
<1> DEFINE box == posted(t, m)
<1>1. inbox[t] \in Seq(Messages(edits)) BY DEF TypeInv, InboxOK
<1>2. box = [u \in Tab |-> box[u]] BY DEF posted
<1>3. \A u \in Tab : box[u] = IF u # t /\ tab[u].phase \in {"loading", "loaded"} THEN Append(inbox[u], m) ELSE inbox[u]
  BY PostedIs
<1> HIDE DEF box
<1>4. box[t] \in Seq(Messages(edits)) /\ (s.phase \notin {"loading", "loaded"} => box[t] = <<>>) BY <1>1, <1>3
<1>5. \A u \in Tab \ {t} : \/ box[u] = inbox[u]
                           \/ \E x \in Messages(edits) : box[u] = Append(inbox[u], x) /\ tab[u].phase \in {"loading", "loaded"}
  BY <1>3
<1>6. InboxOK(box, [tab EXCEPT ![t] = s], edits) BY <1>2, <1>4, <1>5, InboxStep
<1>7. QED BY <1>6 DEF box

LEMMA CommitsTypes ==
  ASSUME TypeInv, Commits
  PROVE  TypeInv'
<1>1. idb # <<>> /\ Head(idb).kind # "read" /\ disk' = Over(Head(idb).data, disk)
      /\ UNCHANGED <<inbox, release, edits, opens, troubles, latest, lost>>
  BY DEF Commits, bounds, ghosts
<1>2. idb \in Seq(Transactions(edits)) /\ QueueOK(idb, tab) /\ tab \in [Tab -> Pages(edits)] /\ disk \in [Record -> 0 .. edits]
      /\ opens \in 0 .. MaxOpens /\ troubles \in 0 .. MaxTroubles /\ lost \subseteq Record
  BY BoundsIs
<1>3. Head(idb) \in Transactions(edits) BY <1>1, <1>2, QueueTail
<1>4. disk' \in [Record -> 0 .. edits]
  <2>1. Head(idb).data \in Diffs(edits) /\ Head(idb).tab \in Tab \cup {None} BY <1>3 DEF Transactions
  <2>2. \A c \in Diffs(edits) : \A d \in [Record -> 0 .. edits] : Over(c, d) \in [Record -> 0 .. edits] BY OverWhole
  <2> HIDE DEF Diffs
  <2>3. QED BY <1>1, <1>2, <2>1, <2>2
<1>5. CASE Head(idb).tab = None
  <2>1. idb' = Tail(idb) /\ UNCHANGED tab BY <1>5 DEF Commits
  <2>2. idb' \in Seq(Transactions(edits)) /\ QueueOK(idb', tab') BY <1>1, <1>2, <1>5, <2>1, QueueTail
  <2>3. QED BY <1>1, <1>4, <2>1, <2>2 DEF TypeInv
<1>6. CASE Head(idb).tab # None
  <2>1. Head(idb).tab \in Tab BY <1>3, <1>6 DEF Transactions
  <2>2. PICK t \in Tab : Head(idb).tab = t BY <2>1
  <2> DEFINE p == persisted(tab[t])
             s == finished(p)
  <2>3. finishes(t, p) BY <1>6, <2>2 DEF Commits
  <2>4. tab[t] \in Pages(edits) /\ edits \in Nat BY PageIs
  <2>5. p \in Pages(edits) /\ Ended(tab[t], p) BY <2>4, EndedIs
  <2>6. /\ tab' = [tab EXCEPT ![t] = s] /\ s \in Pages(edits) /\ PageOK(s)
        /\ idb' \in Seq(Transactions(edits)) /\ QueueOK(idb', tab')
        /\ tab[t].phase \in {"loaded", "closing", "flushing"}
        /\ tab[t].phase = "loaded" => s = p
    BY <1>1, <2>2, <2>3, <2>5, FinishesIs
  <2>7. s.phase \in {"loading", "loaded"} \/ inbox[t] = <<>>
    BY <2>5, <2>6 DEF Ended, TypeInv, InboxOK
  <2> HIDE DEF s, p
  <2>8. InboxOK(inbox', tab', edits) BY <1>1, <2>6, <2>7, InboxKept
  <2>9. s \in Pages(edits) /\ PageOK(s) /\ tab' = [tab EXCEPT ![t] = s] BY <2>6
  <2>10. QED BY <1>1, <1>2, <1>4, <2>6, <2>8, <2>9, TypesStep
<1>7. QED BY <1>5, <1>6

LEMMA FailsTypes ==
  ASSUME TypeInv, Fails
  PROVE  TypeInv'
<1>1. PICK t \in Tab : Head(idb).tab = t /\ finishes(t, failed(tab[t]))
                       /\ lost' = IF tab[t].phase = "flushing" \/ tab[t].isReloading THEN lost \cup GivenUp(t, idb') ELSE lost
  BY DEF Fails
<1>2. /\ idb # <<>> /\ Head(idb).kind # "read" /\ troubles < MaxTroubles /\ troubles' = troubles + 1
      /\ UNCHANGED <<inbox, disk, release, edits, opens, latest>>
  BY DEF Fails
<1>3. disk \in [Record -> 0 .. edits] /\ opens \in 0 .. MaxOpens /\ troubles \in 0 .. MaxTroubles /\ lost \subseteq Record
  BY BoundsIs
<1> DEFINE p == failed(tab[t])
           s == finished(p)
<1>4. tab[t] \in Pages(edits) /\ edits \in Nat BY PageIs
<1>5. p \in Pages(edits) /\ Ended(tab[t], p) BY <1>4, EndedIs
<1>6. /\ tab' = [tab EXCEPT ![t] = s] /\ s \in Pages(edits) /\ PageOK(s)
      /\ idb' \in Seq(Transactions(edits)) /\ QueueOK(idb', tab')
      /\ tab[t].phase \in {"loaded", "closing", "flushing"}
      /\ tab[t].phase = "loaded" => s = p
  BY <1>1, <1>2, <1>5, FinishesIs
<1>7. s.phase \in {"loading", "loaded"} \/ inbox[t] = <<>>
  BY <1>5, <1>6 DEF Ended, TypeInv, InboxOK
<1>8. lost' \subseteq Record BY <1>1, <1>3 DEF GivenUp
<1>9. troubles' \in 0 .. MaxTroubles BY <1>2, <1>3, LocalAssumption
<1> HIDE DEF s, p
<1>10. InboxOK(inbox', tab', edits) BY <1>2, <1>6, <1>7, InboxKept
<1>11. s \in Pages(edits) /\ PageOK(s) /\ tab' = [tab EXCEPT ![t] = s] BY <1>6
<1>12. QED BY <1>2, <1>3, <1>6, <1>8, <1>9, <1>10, <1>11, TypesStep

LEMMA OpenTypes ==
  ASSUME TypeInv, NEW t \in Tab, Open(t)
  PROVE  TypeInv'
<1> DEFINE s == [NoTab EXCEPT !.phase = "loading", !.version = release]
<1>1. /\ tab[t].phase = "closed" /\ opens < MaxOpens /\ opens' = opens + 1
      /\ tab' = [tab EXCEPT ![t] = s] /\ idb' = Append(idb, reading(t))
      /\ UNCHANGED <<inbox, disk, release, edits, troubles, latest, lost>>
  BY DEF Open, IsOpen, ghosts
<1>2. /\ tab[t] \in Pages(edits) /\ PageOK(tab[t]) /\ edits \in Nat
      /\ idb \in Seq(Transactions(edits)) /\ QueueOK(idb, tab) /\ tab \in [Tab -> Pages(edits)]
      /\ disk \in [Record -> 0 .. edits] /\ release \in Nat /\ lost \subseteq Record
      /\ opens \in 0 .. MaxOpens /\ troubles \in 0 .. MaxTroubles
  BY PageIs, BoundsIs
<1>3. s \in Pages(edits) /\ s.phase = "loading" /\ s.isPersisting = FALSE /\ PageOK(s)
  <2>1. NoTab \in Pages(edits) BY <1>2, NoTabIs
  <2>2. s \in Pages(edits) BY <1>2, <2>1 DEF Pages, Phases
  <2>3. QED BY <2>2 DEF NoTab, PageOK
<1>4. tab[t].isPersisting = FALSE BY <1>1, <1>2 DEF PageOK, NoTab
<1> HIDE DEF s
<1>5. idb' \in Seq(Transactions(edits)) /\ QueueOK(idb', tab')
  BY <1>1, <1>2, <1>3, <1>4, QueueOpens
<1>6. InboxOK(inbox', tab', edits) BY <1>1, <1>3, InboxKept
<1>7. opens' \in 0 .. MaxOpens BY <1>1, <1>2, LocalAssumption
<1>8. s \in Pages(edits) BY <1>3
<1>9. QED BY <1>1, <1>2, <1>3, <1>5, <1>6, <1>7, <1>8, TypesStep

LEMMA ReadsTypes ==
  ASSUME TypeInv, Reads
  PROVE  TypeInv'
<1> DEFINE t == Head(idb).tab
           s == [tab[t] EXCEPT !.store = disk]
<1>1. /\ idb # <<>> /\ Head(idb).kind = "read" /\ idb' = Tail(idb)
      /\ tab' = [tab EXCEPT ![t].store = disk]
      /\ UNCHANGED <<inbox, disk, release, edits, opens, troubles, latest, lost>>
  BY DEF Reads, bounds, ghosts
<1>2. /\ idb \in Seq(Transactions(edits)) /\ QueueOK(idb, tab) /\ tab \in [Tab -> Pages(edits)]
      /\ disk \in [Record -> 0 .. edits] /\ lost \subseteq Record
      /\ opens \in 0 .. MaxOpens /\ troubles \in 0 .. MaxTroubles
  BY BoundsIs
<1>3. t \in Tab /\ tab[t].phase = "loading" /\ Tail(idb) \in Seq(Transactions(edits)) /\ QueueOK(Tail(idb), tab)
  BY <1>1, <1>2, QueueTail
<1>4. tab[t] \in Pages(edits) /\ PageOK(tab[t]) BY <1>3, PageIs
<1>5. s \in Pages(edits) /\ s.phase = "loading" /\ s.isPersisting = tab[t].isPersisting /\ PageOK(s)
  <2>1. s \in Pages(edits) /\ s.phase = "loading" BY <1>2, <1>3, <1>4 DEF Pages
  <2>2. QED BY <1>3, <1>4, <2>1 DEF PageOK, Pages
<1>6. tab' = [tab EXCEPT ![t] = s]
  BY <1>1
<1> HIDE DEF s, t
<1>t. t \in Tab BY <1>3
<1>7. QueueOK(Tail(idb), [tab EXCEPT ![t] = s])
  <2>1. Tail(idb) \in Seq(Transactions(edits)) /\ QueueOK(Tail(idb), tab) BY <1>3
  <2>2. tab \in [Tab -> Pages(edits)] BY <1>2
  <2>3. s.isPersisting = tab[t].isPersisting /\ s.phase = "loading" BY <1>5
  <2>4. QED BY <1>t, <2>1, <2>2, <2>3, QueueSame
<1>8. InboxOK(inbox', tab', edits) 
  <2>1. s.phase = "loading" BY <1>5
  <2>2. InboxOK(inbox, [tab EXCEPT ![t] = s], edits) BY <1>t, <2>1, InboxKept
  <2>3. QED BY <1>1, <1>6, <2>2
<1>9. t \in Tab /\ s \in Pages(edits) BY <1>3, <1>5
<1>10. QED BY <1>1, <1>2, <1>3, <1>5, <1>6, <1>7, <1>8, <1>9, TypesStep

LEMMA LoadsTypes ==
  ASSUME TypeInv, NEW t \in Tab, Loads(t)
  PROVE  TypeInv'
<1> DEFINE s == [tab[t] EXCEPT !.phase = "loaded"]
           m == announce(tab[t].version)
<1>1. /\ tab[t].phase = "loading" /\ \A i \in DOMAIN idb : idb[i] # reading(t)
      /\ tab' = [tab EXCEPT ![t] = s] /\ inbox' = posted(t, m) /\ lost' = lost \cup Missed(t)
      /\ UNCHANGED <<disk, idb, release, edits, opens, troubles, latest>>
  BY DEF Loads, bounds
<1>2. /\ idb \in Seq(Transactions(edits)) /\ QueueOK(idb, tab) /\ tab \in [Tab -> Pages(edits)]
      /\ disk \in [Record -> 0 .. edits] /\ lost \subseteq Record
      /\ opens \in 0 .. MaxOpens /\ troubles \in 0 .. MaxTroubles
      /\ tab[t] \in Pages(edits) /\ PageOK(tab[t]) /\ tab[t].version \in Nat
  BY BoundsIs, PageIs
<1>3. s \in Pages(edits) /\ s.phase = "loaded" /\ s.isPersisting = tab[t].isPersisting /\ PageOK(s)
  <2>1. s \in Pages(edits) BY <1>2 DEF Pages, Phases
  <2>2. QED BY <1>1, <1>2, <2>1 DEF PageOK, Pages
<1> HIDE DEF s
<1>4. \A i \in DOMAIN idb : ~(idb[i].kind = "read" /\ idb[i].tab = t)
  <2>1. SUFFICES ASSUME NEW i \in DOMAIN idb, idb[i].kind = "read", idb[i].tab = t PROVE idb[i] = reading(t)
    BY <1>1
  <2>2. idb[i] \in Transactions(edits) BY <1>2
  <2>3. idb[i].data = NoChanges BY <1>2, <2>1 DEF QueueOK
  <2>4. QED BY <2>1, <2>2, <2>3 DEF Transactions, reading
<1>5. QueueOK(idb', tab') BY <1>1, <1>2, <1>3, <1>4, QueueSame
<1>6. m \in Messages(edits) BY <1>2, MessageIs
<1> HIDE DEF m
<1>7. InboxOK(inbox', tab', edits) BY <1>1, <1>3, <1>6, InboxPosted
<1>8. s \in Pages(edits) BY <1>3
<1>9. lost' \subseteq Record BY <1>1, <1>2 DEF Missed
<1>10. QED BY <1>1, <1>2, <1>3, <1>5, <1>7, <1>8, <1>9, TypesStep

\* What an edit makes of the editor's page.
LEMMA EditIs ==
  ASSUME TypeInv, NEW t \in Tab, NEW r \in Record, Edit(t, r)
  PROVE  \E s \in Pages(edits') :
           /\ tab' = [tab EXCEPT ![t] = s] /\ PageOK(s) /\ s.phase = "loaded" /\ s.version = tab[t].version
           /\ s.store = [tab[t].store EXCEPT ![r] = edits'] 
           /\ DOMAIN s.unheard = DOMAIN tab[t].unheard \cup {r} /\ s.unheard[r] = edits'
           /\ \A x \in DOMAIN tab[t].unheard : x # r => s.unheard[x] = tab[t].unheard[x]
           /\ SameWork(tab[t], s) /\ s.isPersisting = tab[t].isPersisting /\ s.isReloading = tab[t].isReloading
<1> DEFINE c == [x \in {r} |-> edits']
           u == Over(c, tab[t].unheard)
           s == [tab[t] EXCEPT !.store = [@ EXCEPT ![r] = edits'], !.unheard = u]
<1>1. /\ tab[t].phase = "loaded" /\ edits' = edits + 1
      /\ tab' = [tab EXCEPT ![t].store[r] = edits', ![t].unheard = Over(c, @)]
  BY DEF Edit
<1>2. tab[t] \in Pages(edits) /\ PageOK(tab[t]) /\ edits \in Nat /\ tab \in [Tab -> Pages(edits)]
  BY PageIs, BoundsIs
<1>3. tab[t] \in Pages(edits') /\ edits' \in Nat
  BY <1>1, <1>2, Grows
<1>4. tab[t].store \in [Record -> 0 .. edits'] /\ tab[t].unheard \in Diffs(edits')
  BY <1>3 DEF Pages
<1>5. c \in Diffs(edits') /\ DOMAIN c = {r}
  <2>1. c \in [{r} -> 0 .. edits'] BY <1>3
  <2>2. QED BY <2>1, DiffIs
<1>6. /\ u \in Diffs(edits') /\ DOMAIN u = {r} \cup DOMAIN tab[t].unheard
      /\ \A x \in DOMAIN u : u[x] = IF x \in DOMAIN c THEN c[x] ELSE tab[t].unheard[x]
  <2>1. \A d \in Diffs(edits') : /\ Over(c, d) \in Diffs(edits') /\ DOMAIN Over(c, d) = DOMAIN c \cup DOMAIN d
                                 /\ \A x \in DOMAIN c \cup DOMAIN d : Over(c, d)[x] = IF x \in DOMAIN c THEN c[x] ELSE d[x]
    BY <1>5, OverIs
  <2> HIDE DEF Diffs, c
  <2>2. QED BY <1>4, <1>5, <2>1
<1>7. [tab[t].store EXCEPT ![r] = edits'] \in [Record -> 0 .. edits']
  BY <1>3, <1>4
<1>8. s \in Pages(edits')
  BY <1>3, <1>6, <1>7 DEF Pages
<1>9. tab' = [tab EXCEPT ![t] = s]
  <2> HIDE DEF c
  <2>1. QED BY <1>1, <1>2 DEF Pages
<1>10. /\ s.phase = "loaded" /\ s.version = tab[t].version
       /\ s.store = [tab[t].store EXCEPT ![r] = edits'] /\ s.unheard = u
       /\ SameWork(tab[t], s) /\ s.isPersisting = tab[t].isPersisting /\ s.isReloading = tab[t].isReloading
  <2> HIDE DEF u
  <2>1. QED BY <1>1, <1>3 DEF Pages, SameWork
<1>11. PageOK(s)
  <2> HIDE DEF s
  <2>1. QED BY <1>2, <1>10 DEF PageOK, SameWork
<1>12. u[r] = edits' /\ \A x \in DOMAIN tab[t].unheard : x # r => u[x] = tab[t].unheard[x]
  BY <1>5, <1>6
<1>13. QED BY <1>6, <1>8, <1>9, <1>10, <1>11, <1>12

LEMMA EditTypes ==
  ASSUME TypeInv, NEW t \in Tab, NEW r \in Record, Edit(t, r)
  PROVE  TypeInv'
<1>1. /\ tab[t].phase = "loaded" /\ edits < MaxEdits /\ edits' = edits + 1
      /\ latest' = [latest EXCEPT ![r] = edits']
      /\ lost' \subseteq lost \cup {r}
      /\ UNCHANGED <<inbox, disk, idb, release, opens, troubles>>
  BY DEF Edit
<1>2. /\ idb \in Seq(Transactions(edits)) /\ QueueOK(idb, tab) /\ tab \in [Tab -> Pages(edits)]
      /\ disk \in [Record -> 0 .. edits] /\ latest \in [Record -> 0 .. edits] /\ lost \subseteq Record /\ release \in Nat
      /\ opens \in 0 .. MaxOpens /\ troubles \in 0 .. MaxTroubles
      /\ edits \in Nat /\ edits \in 0 .. MaxEdits
      /\ \A u \in Tab : PageOK(tab[u])
      /\ inbox = [u \in Tab |-> inbox[u]]
      /\ \A u \in Tab : inbox[u] \in Seq(Messages(edits)) /\ (tab[u].phase \notin {"loading", "loaded"} => inbox[u] = <<>>)
  BY BoundsIs DEF TypeInv, InboxOK
<1>3. edits' \in Nat /\ edits <= edits' /\ edits' \in 0 .. MaxEdits /\ 0 .. edits \subseteq 0 .. edits'
  BY <1>1, <1>2, LocalAssumption
<1>4. /\ Messages(edits) \subseteq Messages(edits') /\ Transactions(edits) \subseteq Transactions(edits')
      /\ Pages(edits) \subseteq Pages(edits')
  BY <1>2, <1>3, Grows
<1>5. PICK s \in Pages(edits') : /\ tab' = [tab EXCEPT ![t] = s] /\ PageOK(s) /\ s.phase = "loaded"
                                 /\ s.isPersisting = tab[t].isPersisting
  BY EditIs
<1>6. tab' \in [Tab -> Pages(edits')] /\ \A u \in Tab : PageOK(tab'[u])
  <2>1. s \in Pages(edits') BY <1>5
  <2> HIDE DEF Pages
  <2>2. tab' \in [Tab -> Pages(edits')] BY <1>2, <1>4, <1>5, <2>1
  <2>3. QED BY <1>2, <1>5, <2>2
<1>7. idb' \in Seq(Transactions(edits'))
  BY <1>1, <1>2, <1>4
<1>8. QueueOK(idb', tab')
  BY <1>1, <1>2, <1>5, QueueSame
<1>9. InboxOK(inbox', tab', edits')
  <2>1. \A u \in Tab : inbox[u] \in Seq(Messages(edits')) BY <1>2, <1>4
  <2>2. \A u \in Tab : tab'[u].phase = tab[u].phase BY <1>1, <1>2, <1>5
  <2>3. QED BY <1>1, <1>2, <2>1, <2>2 DEF InboxOK
<1>10. disk' \in [Record -> 0 .. edits'] /\ latest' \in [Record -> 0 .. edits'] /\ lost' \subseteq Record
  BY <1>1, <1>2, <1>3
<1>11. QED BY <1>1, <1>2, <1>3, <1>6, <1>7, <1>8, <1>9, <1>10 DEF TypeInv

LEMMA ReportTypes ==
  ASSUME TypeInv, NEW t \in Tab, Report(t)
  PROVE  TypeInv'
<1> DEFINE s == heard(tab[t])
           m == diff(tab[t].version, tab[t].unheard)
<1>1. /\ tab[t].phase = "loaded" /\ tab' = [tab EXCEPT ![t] = s] /\ inbox' = posted(t, m)
      /\ UNCHANGED <<disk, idb, release, edits, opens, troubles, latest, lost>>
  BY DEF Report, bounds, ghosts
<1>2. /\ idb \in Seq(Transactions(edits)) /\ QueueOK(idb, tab) /\ tab \in [Tab -> Pages(edits)]
      /\ disk \in [Record -> 0 .. edits] /\ lost \subseteq Record
      /\ opens \in 0 .. MaxOpens /\ troubles \in 0 .. MaxTroubles
      /\ tab[t] \in Pages(edits) /\ PageOK(tab[t]) /\ tab[t].version \in Nat /\ tab[t].unheard \in Diffs(edits) /\ edits \in Nat
  BY BoundsIs, PageIs
<1>3. s \in Pages(edits) /\ s.phase = "loaded" /\ s.isPersisting = tab[t].isPersisting /\ PageOK(s)
  BY <1>1, <1>2, HeardIs
<1>4. m \in Messages(edits) BY <1>2, MessageIs
<1> HIDE DEF s, m
<1>5. QueueOK(idb', tab') BY <1>1, <1>2, <1>3, QueueSame
<1>6. InboxOK(inbox', tab', edits) BY <1>1, <1>3, <1>4, InboxPosted
<1>7. s \in Pages(edits) BY <1>3
<1>8. QED BY <1>1, <1>2, <1>3, <1>5, <1>6, <1>7, TypesStep

LEMMA SessionChangesTypes ==
  ASSUME TypeInv, NEW t \in Tab, SessionChanges(t)
  PROVE  TypeInv'
<1> DEFINE s == [tab[t] EXCEPT !.queued = TRUE, !.timer = TRUE]
<1>1. /\ tab[t].phase = "loaded" /\ tab' = [tab EXCEPT ![t].queued = TRUE, ![t].timer = TRUE]
      /\ UNCHANGED <<inbox, disk, idb, release, edits, opens, troubles, latest, lost>>
  BY DEF SessionChanges, bounds, ghosts
<1>2. /\ idb \in Seq(Transactions(edits)) /\ QueueOK(idb, tab) /\ tab \in [Tab -> Pages(edits)]
      /\ disk \in [Record -> 0 .. edits] /\ lost \subseteq Record
      /\ opens \in 0 .. MaxOpens /\ troubles \in 0 .. MaxTroubles
      /\ tab[t] \in Pages(edits) /\ PageOK(tab[t])
  BY BoundsIs, PageIs
<1>3. tab' = [tab EXCEPT ![t] = s] BY <1>1, <1>2 DEF Pages
<1>4. s \in Pages(edits) /\ s.phase = "loaded" /\ s.isPersisting = tab[t].isPersisting /\ PageOK(s)
  <2>1. s \in Pages(edits) BY <1>2 DEF Pages
  <2>2. QED BY <1>1, <1>2, <2>1 DEF PageOK, Pages
<1> HIDE DEF s
<1>5. QueueOK(idb', tab')
  <2>1. s.isPersisting = tab[t].isPersisting /\ tab[t].phase # "loading" BY <1>1, <1>4
  <2>2. QueueOK(idb, [tab EXCEPT ![t] = s]) BY <1>2, <2>1, QueueSame
  <2>3. QED BY <1>1, <1>3, <2>2
<1>6. InboxOK(inbox', tab', edits) BY <1>1, <1>3, <1>4, InboxKept
<1>7. s \in Pages(edits) BY <1>4
<1>8. QED BY <1>1, <1>2, <1>3, <1>4, <1>5, <1>6, <1>7, TypesStep

LEMMA IgnoresTypes ==
  ASSUME TypeInv, NEW t \in Tab, Ignores(t)
  PROVE  TypeInv'
<1>1. /\ inbox[t] # <<>> /\ inbox' = [inbox EXCEPT ![t] = Tail(@)]
      /\ UNCHANGED <<tab, disk, idb, release, edits, opens, troubles, latest, lost>>
  BY DEF Ignores, bounds, ghosts
<1>2. tab[t].phase \in {"loading", "loaded"} BY <1>1 DEF TypeInv, InboxOK
<1>3. InboxOK(inbox', [tab EXCEPT ![t] = tab[t]], edits) BY <1>1, <1>2, InboxHeard
<1>4. [tab EXCEPT ![t] = tab[t]] = tab BY BoundsIs
<1>5. QED BY <1>1, <1>3, <1>4 DEF TypeInv

\* A tab that listens hears a message and starts no write.
LEMMA HearsTypes ==
  ASSUME TypeInv, NEW t \in Tab, tab[t].phase = "loaded", inbox[t] # <<>>,
         NEW s \in Pages(edits), PageOK(s), s.phase = "loaded", s.isPersisting = tab[t].isPersisting,
         tab' = [tab EXCEPT ![t] = s], inbox' = [inbox EXCEPT ![t] = Tail(@)],
         UNCHANGED <<disk, idb, release, bounds, latest>>, lost' \subseteq Record
  PROVE  TypeInv'
<1>1. /\ idb \in Seq(Transactions(edits)) /\ QueueOK(idb, tab) /\ tab \in [Tab -> Pages(edits)]
      /\ disk \in [Record -> 0 .. edits]
      /\ opens \in 0 .. MaxOpens /\ troubles \in 0 .. MaxTroubles
  BY BoundsIs
<1>2. QueueOK(idb', tab') BY <1>1, QueueSame
<1>3. InboxOK(inbox', tab', edits) BY InboxHeard
<1>4. UNCHANGED <<disk, idb, release, edits, opens, troubles, latest>> BY DEF bounds
<1>5. QED BY <1>1, <1>2, <1>3, <1>4, TypesStep

LEMMA HearsNewerTypes ==
  ASSUME TypeInv, NEW t \in Tab, HearsNewer(t)
  PROVE  TypeInv'
<1> DEFINE s == [tab[t] EXCEPT !.isReloading = TRUE, !.leaving = TRUE]
<1>1. /\ tab[t].phase = "loaded" /\ inbox[t] # <<>>
      /\ tab' = [tab EXCEPT ![t].isReloading = TRUE, ![t].leaving = TRUE]
      /\ inbox' = [inbox EXCEPT ![t] = Tail(@)]
      /\ lost' = lost \cup GivenUp(t, idb)
      /\ UNCHANGED <<disk, idb, release, bounds, latest>>
  BY DEF HearsNewer
<1>2. /\ tab[t] \in Pages(edits) /\ PageOK(tab[t]) /\ lost \subseteq Record /\ tab \in [Tab -> Pages(edits)]
  BY BoundsIs, PageIs
<1>3. tab' = [tab EXCEPT ![t] = s] BY <1>1, <1>2 DEF Pages
<1>4. s \in Pages(edits) /\ s.phase = "loaded" /\ s.isPersisting = tab[t].isPersisting /\ PageOK(s)
  <2>1. s \in Pages(edits) BY <1>2 DEF Pages
  <2>2. QED BY <1>1, <1>2, <2>1 DEF PageOK, Pages
<1>5. lost' \subseteq Record BY <1>1, <1>2 DEF GivenUp
<1> HIDE DEF s
<1>6. s \in Pages(edits) BY <1>4
<1>7. QED BY <1>1, <1>3, <1>4, <1>5, <1>6, HearsTypes

\* What a diff makes of the page that hears it.
LEMMA HearsSameIs ==
  ASSUME TypeInv, NEW t \in Tab, HearsSame(t)
  PROVE  \E s \in Pages(edits) :
           /\ tab' = [tab EXCEPT ![t] = s] /\ PageOK(s) /\ s.phase = "loaded" /\ s.version = tab[t].version
           /\ \A r \in Record : s.store[r] = IF r \in DOMAIN Head(inbox[t]).changes THEN Head(inbox[t]).changes[r]
                                             ELSE tab[t].store[r]
           /\ s.unheard = tab[t].unheard /\ s.isReloading = tab[t].isReloading
           /\ SameWork(tab[t], s) /\ s.isPersisting = tab[t].isPersisting
<1> DEFINE c == Head(inbox[t]).changes
           e == Over(c, tab[t].store)
           s == [tab[t] EXCEPT !.store = e]
<1>1. tab[t].phase = "loaded" /\ inbox[t] # <<>> /\ tab' = [tab EXCEPT ![t].store = Over(c, @)]
  BY DEF HearsSame
<1>2. /\ tab[t] \in Pages(edits) /\ PageOK(tab[t]) /\ inbox[t] \in Seq(Messages(edits))
      /\ tab[t].store \in [Record -> 0 .. edits] /\ tab \in [Tab -> Pages(edits)]
  BY PageIs, BoundsIs
<1>3. c \in Diffs(edits)
  <2>1. Head(inbox[t]) \in Messages(edits) BY <1>1, <1>2, TailAt
  <2>2. QED BY <2>1 DEF Messages
<1>4. e \in [Record -> 0 .. edits] /\ \A r \in Record : e[r] = IF r \in DOMAIN c THEN c[r] ELSE tab[t].store[r]
  <2>1. \A b \in Diffs(edits) : \A d \in [Record -> 0 .. edits] :
           /\ Over(b, d) \in [Record -> 0 .. edits]
           /\ \A r \in Record : Over(b, d)[r] = IF r \in DOMAIN b THEN b[r] ELSE d[r]
    BY OverWhole
  <2> HIDE DEF Diffs, c
  <2>2. QED BY <1>2, <1>3, <2>1
<1>5. tab' = [tab EXCEPT ![t] = s]
  <2> HIDE DEF c
  <2>1. QED BY <1>1, <1>2
<1> HIDE DEF c, e
<1>6. s \in Pages(edits) BY <1>2, <1>4 DEF Pages
<1>7. /\ s.phase = "loaded" /\ s.version = tab[t].version /\ s.store = e
      /\ s.unheard = tab[t].unheard /\ s.isReloading = tab[t].isReloading
      /\ SameWork(tab[t], s) /\ s.isPersisting = tab[t].isPersisting
  BY <1>1, <1>2 DEF Pages, SameWork
<1> HIDE DEF s
<1>8. PageOK(s) BY <1>2, <1>7 DEF PageOK, SameWork
<1>9. QED BY <1>4, <1>5, <1>6, <1>7, <1>8 DEF c

LEMMA HearsSameTypes ==
  ASSUME TypeInv, NEW t \in Tab, HearsSame(t)
  PROVE  TypeInv'
<1>1. /\ tab[t].phase = "loaded" /\ inbox[t] # <<>> /\ inbox' = [inbox EXCEPT ![t] = Tail(@)]
      /\ UNCHANGED <<disk, idb, release, bounds, latest, lost>>
  BY DEF HearsSame, ghosts
<1>2. PICK s \in Pages(edits) : /\ tab' = [tab EXCEPT ![t] = s] /\ PageOK(s) /\ s.phase = "loaded"
                                /\ s.isPersisting = tab[t].isPersisting
  BY HearsSameIs
<1>3. lost' \subseteq Record BY <1>1, BoundsIs
<1>4. s \in Pages(edits) BY <1>2
<1>5. QED BY <1>1, <1>2, <1>3, <1>4, HearsTypes

\* A tab whose page is p but for what it has to write does persistIfNeeded.
LEMMA WritesStep ==
  ASSUME TypeInv, NEW t \in Tab, tab[t].phase # "loading", NEW p \in Pages(edits), p.isPersisting = tab[t].isPersisting,
         NEW s \in Pages(edits), s.isPersisting <=> p.isPersisting \/ Persists(p),
         tab' = [tab EXCEPT ![t] = s], idb' = idb \o writes(t, p)
  PROVE  idb' \in Seq(Transactions(edits)) /\ QueueOK(idb', tab')
<1>1. edits \in Nat /\ idb \in Seq(Transactions(edits)) /\ tab \in [Tab -> Pages(edits)] /\ QueueOK(idb, tab)
  BY BoundsIs
<1>2. QED BY <1>1, QueueWrites

\* What persistIfNeeded makes of a page that is to write everything, or not.
LEMMA PersistStep ==
  ASSUME TypeInv, NEW t \in Tab, tab[t].phase \notin {"closed", "loading"}, NEW p \in Pages(edits), PageOK(p),
         p.isPersisting = tab[t].isPersisting, p.phase = tab[t].phase,
         tab' = [tab EXCEPT ![t] = persistIfNeeded(p)], idb' = idb \o writes(t, p)
  PROVE  /\ persistIfNeeded(p) \in Pages(edits) /\ PageOK(persistIfNeeded(p))
         /\ persistIfNeeded(p).phase = tab[t].phase
         /\ idb' \in Seq(Transactions(edits)) /\ QueueOK(idb', tab')
<1> DEFINE s == persistIfNeeded(p)
<1>1. edits \in Nat /\ tab[t].phase \in Phases /\ p.isPersisting \in BOOLEAN BY PageIs DEF Pages
<1>2. p.phase \in {"loaded", "closing", "flushing"} BY <1>1 DEF Phases
<1>3. /\ s \in Pages(edits) /\ PageOK(s) /\ s.phase = tab[t].phase
      /\ Persists(p) => s.isPersisting
      /\ ~Persists(p) => s.isPersisting = p.isPersisting
  BY <1>1, <1>2, PersistIs
<1> HIDE DEF s
<1>4. s.isPersisting <=> p.isPersisting \/ Persists(p) BY <1>1, <1>3 DEF Persists
<1>5. tab' = [tab EXCEPT ![t] = s] BY DEF s
<1>6. s \in Pages(edits) /\ tab[t].phase # "loading" BY <1>3
<1>7. idb' \in Seq(Transactions(edits)) /\ QueueOK(idb', tab') BY <1>4, <1>5, <1>6, WritesStep
<1>8. QED BY <1>3, <1>7 DEF s

LEMMA HearsOlderTypes ==
  ASSUME TypeInv, NEW t \in Tab, HearsOlder(t)
  PROVE  TypeInv'
<1> DEFINE p == [tab[t] EXCEPT !.shouldDoFullDBWrite = TRUE]
           s == persistIfNeeded(p)
           m == announce(tab[t].version)
           box == posted(t, m)
<1>1. /\ tab[t].phase = "loaded" /\ inbox[t] # <<>>
      /\ tab' = [tab EXCEPT ![t] = s] /\ idb' = idb \o writes(t, p)
      /\ inbox' = [box EXCEPT ![t] = Tail(@)]
      /\ lost' = lost \cup DOMAIN Head(inbox[t]).changes \cup UnderWay(t)
      /\ UNCHANGED <<disk, release, edits, opens, troubles, latest>>
  BY DEF HearsOlder, bounds
<1>2. /\ tab[t] \in Pages(edits) /\ PageOK(tab[t]) /\ lost \subseteq Record /\ tab \in [Tab -> Pages(edits)]
      /\ disk \in [Record -> 0 .. edits]
      /\ opens \in 0 .. MaxOpens /\ troubles \in 0 .. MaxTroubles
      /\ tab[t].version \in Nat /\ inbox[t] \in Seq(Messages(edits))
  BY BoundsIs, PageIs
<1>3. p \in Pages(edits) /\ p.phase = tab[t].phase /\ p.isPersisting = tab[t].isPersisting /\ PageOK(p)
  <2>1. p \in Pages(edits) BY <1>2 DEF Pages
  <2>2. QED BY <1>1, <1>2, <2>1 DEF PageOK, Pages
<1> HIDE DEF p
<1>4. s \in Pages(edits) /\ PageOK(s) /\ s.phase = "loaded" /\ idb' \in Seq(Transactions(edits)) /\ QueueOK(idb', tab')
  <2>1. p \in Pages(edits) BY <1>3
  <2>2. QED BY <1>1, <1>3, <2>1, PersistStep
<1>5. m \in Messages(edits) BY <1>2, MessageIs
<1>6. \A u \in Tab : box[u] = IF u # t /\ tab[u].phase \in {"loading", "loaded"} THEN Append(inbox[u], m) ELSE inbox[u]
  BY PostedIs
<1>7. box = [u \in Tab |-> box[u]] BY DEF posted
<1> HIDE DEF s, m, box
<1>8. InboxOK(inbox', tab', edits)
  <2>1. inbox' = [u \in Tab |-> inbox'[u]] /\ inbox'[t] = Tail(inbox[t]) /\ \A u \in Tab \ {t} : inbox'[u] = box[u]
    BY <1>1, <1>6, <1>7
  <2>2. inbox'[t] \in Seq(Messages(edits)) BY <1>1, <1>2, <2>1, TailAt
  <2>3. \A u \in Tab \ {t} : \/ inbox'[u] = inbox[u]
                             \/ \E x \in Messages(edits) : inbox'[u] = Append(inbox[u], x) /\ tab[u].phase \in {"loading", "loaded"}
    BY <1>5, <1>6, <2>1
  <2>4. s.phase \notin {"loading", "loaded"} => inbox'[t] = <<>> BY <1>4
  <2>5. InboxOK(inbox', [tab EXCEPT ![t] = s], edits) BY <2>1, <2>2, <2>3, <2>4, InboxStep
  <2>6. QED BY <1>1, <2>5
<1>9. lost' \subseteq Record
  <2>1. Head(inbox[t]) \in Messages(edits) BY <1>1, <1>2, TailAt
  <2>2. Head(inbox[t]).changes \in Diffs(edits) BY <2>1 DEF Messages
  <2>3. DOMAIN Head(inbox[t]).changes \subseteq Record BY <2>2, DiffIs
  <2>4. QED BY <1>1, <1>2, <2>3 DEF UnderWay
<1>10. s \in Pages(edits) BY <1>4
<1>11. QED BY <1>1, <1>2, <1>4, <1>8, <1>9, <1>10, TypesStep

\* A tab persists.
LEMMA PersistsTypes ==
  ASSUME TypeInv, NEW t \in Tab, tab[t].phase \notin {"closed", "loading"},
         tab' = [tab EXCEPT ![t] = persistIfNeeded(@)], idb' = idb \o writes(t, tab[t]),
         UNCHANGED <<inbox, disk, release, bounds, ghosts>>
  PROVE  TypeInv'
<1> DEFINE s == persistIfNeeded(tab[t])
<1>1. /\ tab[t] \in Pages(edits) /\ PageOK(tab[t]) /\ tab \in [Tab -> Pages(edits)] /\ lost \subseteq Record
      /\ disk \in [Record -> 0 .. edits]
      /\ opens \in 0 .. MaxOpens /\ troubles \in 0 .. MaxTroubles
  BY BoundsIs, PageIs
<1>2. tab' = [tab EXCEPT ![t] = s] OBVIOUS
<1>3. s \in Pages(edits) /\ PageOK(s) /\ s.phase = tab[t].phase /\ idb' \in Seq(Transactions(edits)) /\ QueueOK(idb', tab')
  <2>1. tab[t] \in Pages(edits) BY <1>1
  <2>2. QED BY <1>1, <1>2, <2>1, PersistStep
<1> HIDE DEF s
<1>4. s.phase \in {"loading", "loaded"} \/ inbox[t] = <<>> BY <1>3 DEF TypeInv, InboxOK
<1>5. UNCHANGED <<inbox, disk, release, edits, opens, troubles, latest, lost>> BY DEF bounds, ghosts
<1>6. InboxOK(inbox', tab', edits)
  <2>1. InboxOK(inbox, [tab EXCEPT ![t] = s], edits) BY <1>4, InboxKept
  <2>2. QED BY <1>2, <1>5, <2>1
<1>7. s \in Pages(edits) BY <1>3
<1>8. QED BY <1>1, <1>2, <1>3, <1>5, <1>6, <1>7, TypesStep

LEMMA PersistTimerTypes ==
  ASSUME TypeInv, NEW t \in Tab, PersistTimer(t)
  PROVE  TypeInv'
<1>1. tab[t].timer /\ PageOK(tab[t]) BY PageIs DEF PersistTimer
<1>2. tab[t].phase \notin {"closed", "loading"} BY <1>1 DEF PageOK, NoTab
<1>3. QED BY <1>2, PersistsTypes DEF PersistTimer

LEMMA HideTypes ==
  ASSUME TypeInv, NEW t \in Tab, Hide(t)
  PROVE  TypeInv'
<1>1. tab[t].phase \notin {"closed", "loading"} BY DEF Hide
<1>2. QED BY <1>1, PersistsTypes DEF Hide

\* What close() makes of a page.
LEMMA CloseIs ==
  ASSUME TypeInv, NEW t \in Tab, Close(t)
  PROVE  /\ heard(tab[t]) \in Pages(edits) /\ PageOK(heard(tab[t]))
         /\ Flushed(heard(tab[t]), flushAndDispose(heard(tab[t])))
         /\ flushAndDispose(heard(tab[t])) \in Pages(edits) /\ PageOK(flushAndDispose(heard(tab[t])))
         /\ flushAndDispose(heard(tab[t])).phase \in {"closing", "flushing", "closed"}
         /\ tab' = [tab EXCEPT ![t] = flushAndDispose(heard(tab[t]))]
         /\ idb' \in Seq(Transactions(edits)) /\ QueueOK(idb', tab')
<1> DEFINE p == heard(tab[t])
           s == flushAndDispose(p)
<1>1. tab[t] \in Pages(edits) /\ PageOK(tab[t]) /\ edits \in Nat BY PageIs
<1>2. tab[t].phase = "loaded" /\ tab' = [tab EXCEPT ![t] = s] /\ idb' = idb \o writes(t, p) BY DEF Close
<1>3. p \in Pages(edits) /\ PageOK(p) /\ p.unheard = NoChanges /\ p.isPersisting = tab[t].isPersisting
  BY <1>1, <1>2, HeardIs
<1> HIDE DEF p
<1>4. p \in Pages(edits) BY <1>3
<1>5. p.unheard = NoChanges /\ (p.queue # NoChanges => p.queued) BY <1>3 DEF PageOK
<1>6. /\ s \in Pages(edits) /\ Flushed(p, s) /\ PageOK(s)
      /\ s.isPersisting <=> p.isPersisting \/ Persists(p)
  BY <1>1, <1>4, <1>5, FlushIs
<1> HIDE DEF s
<1>7. s \in Pages(edits) BY <1>6
<1>8. idb' \in Seq(Transactions(edits)) /\ QueueOK(idb', tab') BY <1>2, <1>3, <1>4, <1>6, <1>7, WritesStep
<1>9. s.phase \in {"closing", "flushing", "closed"} BY <1>1, <1>6, NoTabIs DEF Flushed
<1>10. QED BY <1>2, <1>3, <1>6, <1>8, <1>9 DEF p, s

LEMMA CloseTypes ==
  ASSUME TypeInv, NEW t \in Tab, Close(t)
  PROVE  TypeInv'
<1> DEFINE s == flushAndDispose(heard(tab[t]))
           m == diff(tab[t].version, tab[t].unheard)
<1>1. /\ s \in Pages(edits) /\ PageOK(s) /\ tab' = [tab EXCEPT ![t] = s]
      /\ idb' \in Seq(Transactions(edits)) /\ QueueOK(idb', tab')
  BY CloseIs
<1>2. /\ inbox[t] = <<>>
      /\ inbox' = IF tab[t].unheard = NoChanges THEN inbox ELSE posted(t, m)
      /\ UNCHANGED <<disk, release, edits, opens, troubles, latest, lost>>
  BY DEF Close, UpToDate, bounds, ghosts
<1>3. /\ lost \subseteq Record /\ disk \in [Record -> 0 .. edits]
      /\ opens \in 0 .. MaxOpens /\ troubles \in 0 .. MaxTroubles
      /\ tab[t].version \in Nat /\ tab[t].unheard \in Diffs(edits)
  BY BoundsIs, PageIs
<1>4. m \in Messages(edits) BY <1>3, MessageIs
<1> HIDE DEF s, m
<1>5. InboxOK(inbox', tab', edits)
  <2>1. InboxOK(inbox, [tab EXCEPT ![t] = s], edits) BY <1>2, InboxKept
  <2>2. InboxOK(posted(t, m), [tab EXCEPT ![t] = s], edits) BY <1>2, <1>4, InboxPosted
  <2>3. QED BY <1>1, <1>2, <2>1, <2>2
<1>6. s \in Pages(edits) BY <1>1
<1>7. QED BY <1>1, <1>2, <1>3, <1>5, <1>6, TypesStep

\* A page that is gone has no messages.
LEMMA GoneTypes ==
  ASSUME TypeInv, NEW t \in Tab, tab' = [tab EXCEPT ![t] = NoTab], inbox' = [inbox EXCEPT ![t] = <<>>],
         idb' \in Seq(Transactions(edits)), QueueOK(idb', tab'),
         UNCHANGED <<disk, release, edits, opens, latest>>, lost' \subseteq Record, troubles' \in 0 .. MaxTroubles
  PROVE  TypeInv'
<1>1. /\ NoTab \in Pages(edits) /\ PageOK(NoTab)
      /\ disk \in [Record -> 0 .. edits] /\ opens \in 0 .. MaxOpens
  BY BoundsIs, NoTabIs
<1>2. InboxOK(inbox', tab', edits)
  <2>1. inbox = [u \in Tab |-> inbox[u]] BY DEF TypeInv, InboxOK
  <2>2. inbox' = [u \in Tab |-> inbox'[u]] /\ inbox'[t] = <<>> /\ \A u \in Tab \ {t} : inbox'[u] = inbox[u] BY <2>1
  <2>3. inbox'[t] \in Seq(Messages(edits))
    <3>1. \A S : <<>> \in Seq(S) OBVIOUS
    <3>2. QED BY <2>2, <3>1
  <2>4. InboxOK(inbox', [tab EXCEPT ![t] = NoTab], edits) BY <2>2, <2>3, InboxStep
  <2>5. QED BY <2>4
<1>3. QED BY <1>1, <1>2, TypesStep

LEMMA CloseUnloadedTypes ==
  ASSUME TypeInv, NEW t \in Tab, CloseUnloaded(t)
  PROVE  TypeInv'
<1>1. /\ tab' = [tab EXCEPT ![t] = NoTab] /\ inbox' = [inbox EXCEPT ![t] = <<>>] /\ idb' = orphaned(t, idb, FALSE)
      /\ UNCHANGED <<disk, release, edits, opens, troubles, latest, lost>>
  BY DEF CloseUnloaded, bounds, ghosts
<1>2. /\ idb \in Seq(Transactions(edits)) /\ tab \in [Tab -> Pages(edits)] /\ QueueOK(idb, tab)
      /\ lost \subseteq Record /\ troubles \in 0 .. MaxTroubles
  BY BoundsIs
<1>3. idb' \in Seq(Transactions(edits)) /\ QueueOK(idb', tab')
  <2>1. /\ orphaned(t, idb, FALSE) \in Seq(Transactions(edits))
        /\ QueueOK(orphaned(t, idb, FALSE), [tab EXCEPT ![t] = NoTab])
    BY <1>2, QueueOrphaned
  <2>2. QED BY <1>1, <2>1
<1>4. QED BY <1>1, <1>2, <1>3, GoneTypes

\* The queue that an unloaded page leaves.
LEMMA UnloadIs ==
  ASSUME TypeInv, NEW t \in Tab, Unload(t)
  PROVE  \E q \in Seq(Transactions(edits)), l \in BOOLEAN :
           /\ q = IF tab[t].phase = "loading" THEN idb ELSE idb \o writes(t, tab[t])
           /\ idb' = orphaned(t, q, l) /\ \E tb \in [Tab -> Pages(edits)] : QueueOK(q, tb) /\ [tb EXCEPT ![t] = NoTab] = [tab EXCEPT ![t] = NoTab]
<1> DEFINE q == IF tab[t].phase = "loading" THEN idb ELSE idb \o writes(t, tab[t])
<1>1. die(t, q) /\ tab[t].phase # "closed" BY DEF Unload, IsOpen
<1>2. PICK l \in BOOLEAN : idb' = orphaned(t, q, l) BY <1>1 DEF die
<1>3. /\ idb \in Seq(Transactions(edits)) /\ tab \in [Tab -> Pages(edits)] /\ QueueOK(idb, tab) /\ edits \in Nat
      /\ tab[t] \in Pages(edits) /\ PageOK(tab[t]) /\ tab[t].isPersisting \in BOOLEAN /\ tab[t].phase \in Phases
  BY BoundsIs, PageIs
<1>4. q \in Seq(Transactions(edits)) /\ \E tb \in [Tab -> Pages(edits)] : QueueOK(q, tb) /\ [tb EXCEPT ![t] = NoTab] = [tab EXCEPT ![t] = NoTab]
  <2>1. CASE tab[t].phase = "loading" BY <1>3, <2>1
  <2>2. CASE tab[t].phase # "loading"
    <3> DEFINE s == persistIfNeeded(tab[t])
               tb == [tab EXCEPT ![t] = s]
    <3>1. /\ s \in Pages(edits)
          /\ Persists(tab[t]) => s.isPersisting
          /\ ~Persists(tab[t]) => s.isPersisting = tab[t].isPersisting
      BY <1>3, PersistIs
    <3> HIDE DEF s
    <3>2. s.isPersisting <=> tab[t].isPersisting \/ Persists(tab[t]) BY <1>3, <3>1 DEF Persists
    <3>3. s \in Pages(edits) /\ tab[t] \in Pages(edits) BY <1>3, <3>1
    <3>4. idb \o writes(t, tab[t]) \in Seq(Transactions(edits)) /\ QueueOK(idb \o writes(t, tab[t]), tb)
      BY <1>3, <2>2, <3>2, <3>3, QueueWrites
    <3>5. tb \in [Tab -> Pages(edits)] /\ [tb EXCEPT ![t] = NoTab] = [tab EXCEPT ![t] = NoTab]
      <4> HIDE DEF Pages
      <4>1. QED BY <1>3, <3>3
    <3> HIDE DEF tb
    <3>6. QED BY <2>2, <3>4, <3>5
  <2>3. QED BY <2>1, <2>2
<1> HIDE DEF q
<1>5. QED BY <1>2, <1>4 DEF q

LEMMA UnloadTypes ==
  ASSUME TypeInv, NEW t \in Tab, Unload(t)
  PROVE  TypeInv'
<1>1. /\ tab' = [tab EXCEPT ![t] = NoTab] /\ inbox' = [inbox EXCEPT ![t] = <<>>]
      /\ lost' = lost \cup GivenUp(t, idb') \cup DOMAIN tab[t].unheard
      /\ UNCHANGED <<disk, release, edits, opens, latest>>
  BY DEF Unload, die
<1>2. troubles' \in 0 .. MaxTroubles
  BY BoundsIs, LocalAssumption DEF Unload
<1>3. idb' \in Seq(Transactions(edits)) /\ QueueOK(idb', tab')
  <2>1. PICK q \in Seq(Transactions(edits)), l \in BOOLEAN, tb \in [Tab -> Pages(edits)] :
          idb' = orphaned(t, q, l) /\ QueueOK(q, tb) /\ [tb EXCEPT ![t] = NoTab] = [tab EXCEPT ![t] = NoTab]
    BY UnloadIs
  <2>2. q \in Seq(Transactions(edits)) /\ l \in BOOLEAN /\ tb \in [Tab -> Pages(edits)] BY <2>1
  <2>3. QueueOK(q, tb) BY <2>1
  <2>4. orphaned(t, q, l) \in Seq(Transactions(edits)) /\ QueueOK(orphaned(t, q, l), [tb EXCEPT ![t] = NoTab])
    BY <2>2, <2>3, QueueOrphaned
  <2>5. QED BY <1>1, <2>1, <2>4
<1>4. lost' \subseteq Record
  <2>1. tab[t].unheard \in Diffs(edits) /\ lost \subseteq Record BY PageIs, BoundsIs
  <2>2. DOMAIN tab[t].unheard \subseteq Record BY <2>1, DiffIs
  <2>3. QED BY <1>1, <2>1, <2>2 DEF GivenUp
<1>5. QED BY <1>1, <1>2, <1>3, <1>4, GoneTypes

LEMMA ReleaseTypes ==
  ASSUME TypeInv, Release
  PROVE  TypeInv'
<1>1. /\ troubles < MaxTroubles /\ troubles' = troubles + 1 /\ release' = release + 1
      /\ UNCHANGED <<tab, inbox, disk, idb, edits, opens, latest, lost>>
  BY DEF Release, ghosts
<1>2. release' \in Nat /\ troubles' \in 0 .. MaxTroubles BY <1>1, BoundsIs, LocalAssumption
<1>3. QED BY <1>1, <1>2 DEF TypeInv

LEMMA InitTypes == Init => TypeInv
<1> SUFFICES ASSUME Init PROVE TypeInv
  OBVIOUS
<1>1. /\ tab = [t \in Tab |-> NoTab] /\ inbox = [t \in Tab |-> <<>>] /\ disk = Empty /\ idb = <<>> /\ release = 1
      /\ edits = 0 /\ opens = 0 /\ troubles = 0 /\ latest = Empty /\ lost = {}
  BY DEF Init
<1>2. NoTab \in Pages(edits) /\ PageOK(NoTab) /\ ~NoTab.isPersisting BY <1>1, NoTabIs
<1>3. tab \in [Tab -> Pages(edits)] /\ (\A t \in Tab : PageOK(tab[t]))
  <2> HIDE DEF Pages
  <2>1. QED BY <1>1, <1>2
<1>4. Empty \in [Record -> 0 .. edits] BY <1>1 DEF Empty
<1>5. \A S : <<>> \in Seq(S)
  OBVIOUS
<1>6. idb \in Seq(Transactions(edits)) /\ InboxOK(inbox, tab, edits)
  BY <1>1, <1>5 DEF InboxOK
<1>7. QueueOK(idb, tab)
  BY <1>1, <1>2 DEF QueueOK, NoTab
<1>8. edits \in 0 .. MaxEdits /\ opens \in 0 .. MaxOpens /\ troubles \in 0 .. MaxTroubles /\ release \in Nat
  BY <1>1, LocalAssumption
<1>9. QED BY <1>1, <1>3, <1>4, <1>6, <1>7, <1>8 DEF TypeInv

LEMMA NextTypes == TypeInv /\ [Next]_vars => TypeInv'
<1> SUFFICES ASSUME TypeInv, [Next]_vars PROVE TypeInv'
  OBVIOUS
<1>1. CASE Commits BY <1>1, CommitsTypes
<1>2. CASE Reads BY <1>2, ReadsTypes
<1>3. CASE Fails BY <1>3, FailsTypes
<1>4. CASE Release BY <1>4, ReleaseTypes
<1>5. ASSUME NEW t \in Tab, TabStep(t) PROVE TypeInv'
  <2>1. CASE Loads(t) BY <2>1, LoadsTypes
  <2>2. CASE Report(t) BY <2>2, ReportTypes
  <2>3. CASE PersistTimer(t) BY <2>3, PersistTimerTypes
  <2>4. CASE Ignores(t) BY <2>4, IgnoresTypes
  <2>5. CASE HearsNewer(t) BY <2>5, HearsNewerTypes
  <2>6. CASE HearsOlder(t) BY <2>6, HearsOlderTypes
  <2>7. CASE HearsSame(t) BY <2>7, HearsSameTypes
  <2>8. QED BY <1>5, <2>1, <2>2, <2>3, <2>4, <2>5, <2>6, <2>7 DEF TabStep, Hears
<1>6. ASSUME NEW t \in Tab, PersonStep(t) PROVE TypeInv'
  <2>1. CASE Open(t) BY <2>1, OpenTypes
  <2>2. CASE Close(t) BY <2>2, CloseTypes
  <2>3. CASE CloseUnloaded(t) BY <2>3, CloseUnloadedTypes
  <2>4. CASE Unload(t) BY <2>4, UnloadTypes
  <2>5. CASE Hide(t) BY <2>5, HideTypes
  <2>6. CASE SessionChanges(t) BY <2>6, SessionChangesTypes
  <2>7. CASE \E r \in Record : Edit(t, r) BY <2>7, EditTypes
  <2>8. QED BY <1>6, <2>1, <2>2, <2>3, <2>4, <2>5, <2>6, <2>7 DEF PersonStep
<1>7. CASE UNCHANGED vars
  <2>1. UNCHANGED <<tab, inbox, disk, idb, release, edits, opens, troubles, latest, lost>> BY <1>7 DEF vars
  <2>2. QED BY <2>1 DEF TypeInv
<1>8. QED BY <1>1, <1>2, <1>3, <1>4, <1>5, <1>6, <1>7 DEF Next, Database

LEMMA TypeInvIsTypeOK == TypeInv => TypeOK
<1> SUFFICES ASSUME TypeInv PROVE TypeOK
  OBVIOUS
<1>1. edits \in Nat /\ MaxEdits \in Nat /\ edits <= MaxEdits /\ 0 .. edits \subseteq 0 .. MaxEdits
  BY LocalAssumption DEF TypeInv
<1>2. /\ Messages(edits) \subseteq Messages(MaxEdits) /\ Transactions(edits) \subseteq Transactions(MaxEdits)
      /\ Pages(edits) \subseteq Pages(MaxEdits)
  BY <1>1, Grows
<1>3. Messages(MaxEdits) = [type : {"announce", "diff"}, version : Nat, changes : Changes]
  BY DEF Messages, Diffs, Changes
<1>4. Transactions(MaxEdits) = [tab : Tab \cup {None}, kind : {"read", "snapshot", "changes"}, data : Changes]
  BY DEF Transactions, Diffs, Changes
<1>5. Pages(MaxEdits) = Page
  BY DEF Pages, Page, Diffs, Changes, Content
<1> HIDE DEF Messages, Transactions, Pages
<1>6. tab \in [Tab -> Page] BY <1>2, <1>5, BoundsIs
<1>7. \A t \in Tab : inbox[t] \in Seq([type : {"announce", "diff"}, version : Nat, changes : Changes])
  <2>1. \A t \in Tab : inbox[t] \in Seq(Messages(edits)) BY DEF TypeInv, InboxOK
  <2>2. \A q \in Seq(Messages(edits)) : q \in Seq(Messages(MaxEdits)) BY <1>2
  <2>3. QED BY <1>3, <2>1, <2>2
<1>8. idb \in Seq([tab : Tab \cup {None}, kind : {"read", "snapshot", "changes"}, data : Changes])
  <2>1. \A q \in Seq(Transactions(edits)) : q \in Seq(Transactions(MaxEdits)) BY <1>2
  <2>2. QED BY <1>4, <2>1, BoundsIs
<1>9. \A t \in Tab : /\ tab[t].isPersisting <=> (\E i \in DOMAIN idb : WriteOf(t, i))
                     /\ \A i, j \in DOMAIN idb : WriteOf(t, i) /\ WriteOf(t, j) => i = j
  BY DEF TypeInv, QueueOK, WriteAt, WriteOf
<1>10. disk \in Content /\ latest \in Content
  BY <1>1, BoundsIs DEF Content
<1>11. QED BY <1>6, <1>7, <1>8, <1>9, <1>10, BoundsIs DEF TypeOK

\* A page has one write under way while it persists and none otherwise
\* (TLLocalSyncClient.ts:360-391), and everything keeps its type.
THEOREM LocalTypes == Spec => []TypeOK
<1>1. Spec => []TypeInv
  BY InitTypes, NextTypes, PTL DEF Spec
<1>2. QED BY <1>1, TypeInvIsTypeOK, PTL

-----------------------------------------------------------------------------
(* What the tabs show.                                                     *)

\* A message of a page as new as v tells of r.
Tells(m, v, r) == m.version >= v /\ r \in DOMAIN m.changes

Coming(box, v, r) == \E i \in DOMAIN box : Tells(box[i], v, r)

\* The last message that tells of r says that x was written last, or comes from a
\* newer page.
Ends(box, v, r, x) ==
  \A i \in DOMAIN box :
    Tells(box[i], v, r) /\ (\A j \in DOMAIN box : j > i => ~Tells(box[j], v, r))
      => box[i].changes[r] = x \/ box[i].version > v

\* Another tab has yet to tell t of r.
Elsewhere(t, r) == \E u \in Tab \ {t} : tab[u].version >= tab[t].version /\ r \in DOMAIN tab[u].unheard

LEMMA ComingAppend ==
  ASSUME NEW S, NEW box \in Seq(S), NEW m \in S, NEW v, NEW r
  PROVE  Coming(Append(box, m), v, r) <=> Coming(box, v, r) \/ Tells(m, v, r)
<1> DEFINE a == Append(box, m)
<1>1. /\ Len(box) + 1 \in DOMAIN a /\ a[Len(box) + 1] = m
      /\ \A i \in DOMAIN box : i \in DOMAIN a /\ a[i] = box[i]
      /\ \A i \in DOMAIN a : i \in DOMAIN box \/ i = Len(box) + 1
  BY AppendAt
<1> HIDE DEF a
<1>2. QED BY <1>1 DEF Coming, a

LEMMA ComingTail ==
  ASSUME NEW S, NEW box \in Seq(S), box # <<>>, NEW v, NEW r
  PROVE  Coming(box, v, r) <=> Coming(Tail(box), v, r) \/ Tells(Head(box), v, r)
<1> DEFINE a == Tail(box)
<1>1. /\ Head(box) = box[1] /\ 1 \in DOMAIN box
      /\ \A i \in DOMAIN a : i + 1 \in DOMAIN box /\ a[i] = box[i + 1]
      /\ \A i \in DOMAIN box : i # 1 => i - 1 \in DOMAIN a /\ a[i - 1] = box[i]
  BY TailAt
<1> HIDE DEF a
<1>2. ASSUME Coming(box, v, r), ~Tells(Head(box), v, r) PROVE Coming(a, v, r)
  <2>1. PICK i \in DOMAIN box : Tells(box[i], v, r) BY <1>2 DEF Coming
  <2>2. i # 1 BY <1>1, <1>2, <2>1
  <2>3. QED BY <1>1, <2>1, <2>2 DEF Coming
<1>3. Coming(a, v, r) => Coming(box, v, r) BY <1>1 DEF Coming
<1>4. Tells(Head(box), v, r) => Coming(box, v, r) BY <1>1 DEF Coming
<1>5. QED BY <1>2, <1>3, <1>4 DEF a

LEMMA EndsAppend ==
  ASSUME NEW S, NEW box \in Seq(S), NEW m \in S, NEW v, NEW r, NEW x
  PROVE  /\ Tells(m, v, r) /\ m.changes[r] = x => Ends(Append(box, m), v, r, x)
         /\ ~Tells(m, v, r) /\ Ends(box, v, r, x) => Ends(Append(box, m), v, r, x)
<1> DEFINE a == Append(box, m)
<1>1. /\ Len(box) \in Nat /\ Len(box) + 1 \in DOMAIN a /\ a[Len(box) + 1] = m
      /\ \A i \in DOMAIN box : i \in DOMAIN a /\ a[i] = box[i] /\ i <= Len(box)
      /\ \A i \in DOMAIN a : i \in Nat /\ (i \in DOMAIN box \/ i = Len(box) + 1)
  BY AppendAt
<1> HIDE DEF a
<1>2. ASSUME Tells(m, v, r), m.changes[r] = x PROVE Ends(a, v, r, x)
  <2>1. SUFFICES ASSUME NEW i \in DOMAIN a, \A j \in DOMAIN a : j > i => ~Tells(a[j], v, r)
                 PROVE  a[i].changes[r] = x
    BY DEF Ends
  <2>2. i = Len(box) + 1 BY <1>1, <1>2, <2>1
  <2>3. QED BY <1>1, <1>2, <2>2
<1>3. ASSUME ~Tells(m, v, r), Ends(box, v, r, x) PROVE Ends(a, v, r, x)
  <2>1. SUFFICES ASSUME NEW i \in DOMAIN a, Tells(a[i], v, r), \A j \in DOMAIN a : j > i => ~Tells(a[j], v, r)
                 PROVE  a[i].changes[r] = x \/ a[i].version > v
    BY DEF Ends
  <2>2. i \in DOMAIN box /\ a[i] = box[i] BY <1>1, <1>3, <2>1
  <2>3. \A j \in DOMAIN box : j > i => ~Tells(box[j], v, r) BY <1>1, <2>1
  <2>4. QED BY <1>3, <2>1, <2>2, <2>3 DEF Ends
<1>4. QED BY <1>2, <1>3 DEF a

LEMMA EndsTail ==
  ASSUME NEW S, NEW box \in Seq(S), box # <<>>, NEW v, NEW r, NEW x, Ends(box, v, r, x)
  PROVE  /\ Ends(Tail(box), v, r, x)
         /\ Tells(Head(box), v, r) /\ ~Coming(Tail(box), v, r) => Head(box).changes[r] = x \/ Head(box).version > v
<1> DEFINE a == Tail(box)
<1>1. /\ Head(box) = box[1] /\ 1 \in DOMAIN box /\ DOMAIN box = 1 .. Len(box) /\ Len(box) \in Nat
      /\ a \in Seq(S) /\ Len(a) = Len(box) - 1 /\ DOMAIN a = 1 .. Len(a)
      /\ \A i \in DOMAIN a : i + 1 \in DOMAIN box /\ a[i] = box[i + 1]
      /\ \A i \in DOMAIN box : i # 1 => i - 1 \in DOMAIN a /\ a[i - 1] = box[i]
  BY TailAt
<1> HIDE DEF a
<1>2. Ends(a, v, r, x)
  <2>1. SUFFICES ASSUME NEW i \in DOMAIN a, Tells(a[i], v, r), \A j \in DOMAIN a : j > i => ~Tells(a[j], v, r)
                 PROVE  a[i].changes[r] = x \/ a[i].version > v
    BY DEF Ends
  <2>2. i + 1 \in DOMAIN box /\ a[i] = box[i + 1] BY <1>1
  <2>3. ASSUME NEW j \in DOMAIN box, j > i + 1 PROVE ~Tells(box[j], v, r)
    <3>1. j # 1 /\ j - 1 > i BY <1>1, <2>3
    <3>2. QED BY <1>1, <2>1, <3>1
  <2>4. QED BY <2>1, <2>2, <2>3 DEF Ends
<1>3. ASSUME Tells(Head(box), v, r), ~Coming(a, v, r) PROVE Head(box).changes[r] = x \/ Head(box).version > v
  <2>1. ASSUME NEW j \in DOMAIN box, j > 1 PROVE ~Tells(box[j], v, r)
    <3>1. j - 1 \in DOMAIN a /\ a[j - 1] = box[j] BY <1>1, <2>1
    <3>2. QED BY <1>3, <3>1 DEF Coming
  <2>2. QED BY <1>1, <1>3, <2>1 DEF Ends
<1>4. QED BY <1>2, <1>3 DEF a

LEMMA EndsNone ==
  ASSUME NEW box, NEW v, NEW r, NEW x, ~Coming(box, v, r)
  PROVE  Ends(box, v, r, x)
  BY DEF Ends, Coming

LEMMA UnderIs ==
  ASSUME NEW t \in Tab, NEW r \in Record
  PROVE  r \in UnderWay(t) <=> Coming(inbox[t], tab[t].version, r) \/ Elsewhere(t, r)
  BY DEF UnderWay, Coming, Tells, Elsewhere

\* What a tab that shows the document shows, unless it is yet to be told.
Shown(t, r) ==
  tab[t].phase = "loaded" /\ ~tab[t].isReloading => tab[t].store[r] = latest[r] \/ r \in UnderWay(t)

\* It will be told right.
Told(t, r) == Ends(inbox[t], tab[t].version, r, latest[r]) \/ Elsewhere(t, r)

\* What it has not written yet is the last edit, and nobody will tell it another.
Owned(t, r) ==
  /\ r \in DOMAIN tab[t].unheard => tab[t].unheard[r] = latest[r]
  /\ r \in DOMAIN tab[t].queue => r \in DOMAIN tab[t].unheard \/ tab[t].queue[r] = latest[r]
  /\ r \in DOMAIN tab[t].unheard \/ r \in DOMAIN tab[t].queue =>
       tab[t].store[r] = latest[r] /\ r \notin UnderWay(t)

\* A tab that waits to close has the last edit.
Waits(t, r) == tab[t].phase = "closing" /\ ~tab[t].isReloading => tab[t].store[r] = latest[r]

\* So has one that is writing it, should that fail.
InFlight(t, r) ==
  Writing(t, r) => tab[t].store[r] = latest[r] /\ (tab[t].phase = "loaded" => r \notin UnderWay(t))

PairOK(t, r) == Shown(t, r) /\ Told(t, r) /\ Owned(t, r) /\ Waits(t, r) /\ InFlight(t, r)

ShownInv == \A t \in Tab : \A r \in Record \ lost : PairOK(t, r)

\* What t's step does to another tab u's view of r: t's unreported changes are as
\* before, reported to u, or gone.
Passive(t, s, u, r) ==
  \/ /\ r \in DOMAIN s.unheard <=> r \in DOMAIN tab[t].unheard
     /\ s.version = tab[t].version \/ r \notin DOMAIN s.unheard
     /\ \/ inbox'[u] = inbox[u]
        \/ \E m \in Messages(edits) : inbox'[u] = Append(inbox[u], m) /\ m.changes = NoChanges
  \/ /\ s.unheard = NoChanges
     /\ inbox'[u] = IF tab[u].phase \in {"loading", "loaded"}
                    THEN Append(inbox[u], diff(tab[t].version, tab[t].unheard)) ELSE inbox[u]
  \/ /\ s.unheard = NoChanges /\ r \notin DOMAIN tab[t].unheard /\ inbox'[u] = inbox[u]

\* What was under way to u still is, and nothing else.
LEMMA OtherUnder ==
  ASSUME TypeInv, NEW t \in Tab, NEW s, tab' = [tab EXCEPT ![t] = s], NEW u \in Tab \ {t}, NEW r \in Record,
         Passive(t, s, u, r)
  PROVE  /\ r \in UnderWay(u)' => r \in UnderWay(u)
         /\ tab[u].phase \in {"loading", "loaded"} /\ r \in UnderWay(u) => r \in UnderWay(u)'
         /\ \A x : /\ (r \in DOMAIN tab[t].unheard => tab[t].unheard[r] = x)
                   /\ (Ends(inbox[u], tab[u].version, r, x) \/ Elsewhere(u, r))
                   => Ends(inbox'[u], tab[u].version, r, x) \/ Elsewhere(u, r)' \/ tab[u].phase \notin {"loading", "loaded"}
<1> DEFINE v == tab[u].version
           old == tab[t].version >= v /\ r \in DOMAIN tab[t].unheard
           new == s.version >= v /\ r \in DOMAIN s.unheard
           rest == \E w \in Tab \ {t, u} : tab[w].version >= v /\ r \in DOMAIN tab[w].unheard
           m == diff(tab[t].version, tab[t].unheard)
<1>1. tab \in [Tab -> Pages(edits)] BY DEF TypeInv
<1>2. tab'[t] = s /\ \A w \in Tab \ {t} : tab'[w] = tab[w] BY <1>1
<1>3. Elsewhere(u, r) <=> old \/ rest BY DEF Elsewhere
<1>4. Elsewhere(u, r)' <=> new \/ rest BY <1>2 DEF Elsewhere
<1>5. r \in UnderWay(u) <=> Coming(inbox[u], v, r) \/ old \/ rest BY <1>3, UnderIs
<1>6. r \in UnderWay(u)' <=> Coming(inbox'[u], v, r) \/ new \/ rest
  <2>1. r \in UnderWay(u)' <=> Coming(inbox'[u], tab'[u].version, r) \/ Elsewhere(u, r)'
    BY DEF UnderWay, Coming, Tells, Elsewhere
  <2>2. QED BY <1>2, <1>4, <2>1
<1>7. inbox[u] \in Seq(Messages(edits)) /\ tab[t].version \in Nat /\ tab[t].unheard \in Diffs(edits)
  BY PageIs
<1>8. DOMAIN NoChanges = {} BY DiffIs
<1>9. m \in Messages(edits) /\ m.version = tab[t].version /\ m.changes = tab[t].unheard
  BY <1>7, MessageIs
<1>10. Tells(m, v, r) <=> old BY <1>9 DEF Tells
<1> HIDE DEF m
<1>11. CASE /\ r \in DOMAIN s.unheard <=> r \in DOMAIN tab[t].unheard
            /\ s.version = tab[t].version \/ r \notin DOMAIN s.unheard
            /\ \/ inbox'[u] = inbox[u]
               \/ \E x \in Messages(edits) : inbox'[u] = Append(inbox[u], x) /\ x.changes = NoChanges
  <2>1. old <=> new BY <1>8, <1>11
  <2>2. CASE inbox'[u] = inbox[u] BY <1>3, <1>4, <1>5, <1>6, <2>1, <2>2
  <2>3. CASE \E x \in Messages(edits) : inbox'[u] = Append(inbox[u], x) /\ x.changes = NoChanges
    <3>1. PICK y \in Messages(edits) : inbox'[u] = Append(inbox[u], y) /\ y.changes = NoChanges BY <2>3
    <3>2. ~Tells(y, v, r) BY <1>8, <3>1 DEF Tells
    <3>3. Coming(inbox'[u], v, r) <=> Coming(inbox[u], v, r) BY <1>7, <3>1, <3>2, ComingAppend
    <3>4. \A x : Ends(inbox[u], v, r, x) => Ends(inbox'[u], v, r, x) BY <1>7, <3>1, <3>2, EndsAppend
    <3>5. QED BY <1>3, <1>4, <1>5, <1>6, <2>1, <3>3, <3>4
  <2>4. QED BY <1>11, <2>2, <2>3
<1>12. CASE /\ s.unheard = NoChanges
            /\ inbox'[u] = IF tab[u].phase \in {"loading", "loaded"} THEN Append(inbox[u], m) ELSE inbox[u]
  <2>1. ~new BY <1>8, <1>12
  <2>2. CASE tab[u].phase \in {"loading", "loaded"}
    <3>1. Coming(inbox'[u], v, r) <=> Coming(inbox[u], v, r) \/ old
      BY <1>7, <1>9, <1>10, <1>12, <2>2, ComingAppend
    <3>2. ASSUME NEW x, r \in DOMAIN tab[t].unheard => tab[t].unheard[r] = x, Ends(inbox[u], v, r, x) \/ old \/ rest
          PROVE  Ends(inbox'[u], v, r, x) \/ rest
      <4>1. CASE old
        <5>1. Tells(m, v, r) /\ m.changes[r] = x BY <1>9, <1>10, <3>2, <4>1
        <5>2. Ends(Append(inbox[u], m), v, r, x) BY <1>7, <1>9, <5>1, EndsAppend
        <5>3. QED BY <1>12, <2>2, <5>2
      <4>2. CASE ~old /\ ~rest
        <5>1. Ends(inbox[u], v, r, x) /\ ~Tells(m, v, r) BY <1>10, <3>2, <4>2
        <5>2. Ends(Append(inbox[u], m), v, r, x) BY <1>7, <1>9, <5>1, EndsAppend
        <5>3. QED BY <1>12, <2>2, <5>2
      <4>3. QED BY <4>1, <4>2
    <3>3. QED BY <1>3, <1>4, <1>5, <1>6, <2>1, <3>1, <3>2
  <2>3. CASE tab[u].phase \notin {"loading", "loaded"} BY <1>5, <1>6, <1>12, <2>1, <2>3
  <2>4. QED BY <2>2, <2>3
<1>13. CASE s.unheard = NoChanges /\ r \notin DOMAIN tab[t].unheard /\ inbox'[u] = inbox[u]
  <2>1. ~new /\ ~old BY <1>8, <1>13
  <2>2. QED BY <1>3, <1>4, <1>5, <1>6, <1>13, <2>1
<1>14. QED BY <1>11, <1>12, <1>13 DEF Passive, m

\* So u's view of r stays as good as it was.
LEMMA OtherKept ==
  ASSUME TypeInv, NEW t \in Tab, NEW s, tab' = [tab EXCEPT ![t] = s], NEW u \in Tab \ {t}, NEW r \in Record,
         Passive(t, s, u, r), Owned(t, r), PairOK(u, r), latest'[r] = latest[r],
         tab[u].phase \notin {"loading", "loaded"} => inbox'[u] = <<>>,
         Writing(u, r)' => Writing(u, r)
  PROVE  PairOK(u, r)'
<1>1. tab'[u] = tab[u] BY DEF TypeInv
<1>2. /\ r \in UnderWay(u)' => r \in UnderWay(u)
      /\ tab[u].phase \in {"loading", "loaded"} /\ r \in UnderWay(u) => r \in UnderWay(u)'
  BY OtherUnder
<1>3. Shown(u, r)' BY <1>1, <1>2 DEF PairOK, Shown
<1>4. Told(u, r)'
  <2>1. CASE tab[u].phase \notin {"loading", "loaded"}
    <3>1. ~Coming(inbox'[u], tab[u].version, r) BY <2>1 DEF Coming
    <3>2. Ends(inbox'[u], tab[u].version, r, latest[r]) BY <3>1, EndsNone
    <3>3. QED BY <1>1, <3>2 DEF Told
  <2>2. CASE tab[u].phase \in {"loading", "loaded"}
    <3>1. r \in DOMAIN tab[t].unheard => tab[t].unheard[r] = latest[r] BY DEF Owned
    <3>2. Ends(inbox[u], tab[u].version, r, latest[r]) \/ Elsewhere(u, r) BY DEF PairOK, Told
    <3>3. Ends(inbox'[u], tab[u].version, r, latest[r]) \/ Elsewhere(u, r)' BY <2>2, <3>1, <3>2, OtherUnder
    <3>4. QED BY <1>1, <3>3 DEF Told
  <2>3. QED BY <2>1, <2>2
<1>5. Owned(u, r)' BY <1>1, <1>2 DEF PairOK, Owned
<1>6. Waits(u, r)' BY <1>1 DEF PairOK, Waits
<1>7. InFlight(u, r)' BY <1>1, <1>2 DEF PairOK, InFlight
<1>8. QED BY <1>3, <1>4, <1>5, <1>6, <1>7 DEF PairOK

\* t is writing x of r.
HasWrite(q, t, r, x) == \E i \in DOMAIN q : q[i].tab = t /\ r \in DOMAIN q[i].data /\ q[i].data[r] = x

LEMMA WritingIs ==
  ASSUME NEW t, NEW r
  PROVE  /\ Writing(t, r) <=> HasWrite(idb, t, r, latest[r])
         /\ Writing(t, r)' <=> HasWrite(idb', t, r, latest'[r])
  BY DEF Writing, HasWrite

LEMMA HasAppend ==
  ASSUME NEW S, NEW q \in Seq(S), NEW w \in S, NEW u, NEW r, NEW x
  PROVE  HasWrite(Append(q, w), u, r, x) <=> HasWrite(q, u, r, x) \/ (w.tab = u /\ r \in DOMAIN w.data /\ w.data[r] = x)
<1> DEFINE a == Append(q, w)
<1>1. /\ Len(q) + 1 \in DOMAIN a /\ a[Len(q) + 1] = w
      /\ \A i \in DOMAIN q : i \in DOMAIN a /\ a[i] = q[i]
      /\ \A i \in DOMAIN a : i \in DOMAIN q \/ i = Len(q) + 1
  BY AppendAt
<1> HIDE DEF a
<1>2. QED BY <1>1 DEF HasWrite, a

LEMMA HasTail ==
  ASSUME NEW S, NEW q \in Seq(S), q # <<>>, NEW u, NEW r, NEW x, HasWrite(Tail(q), u, r, x)
  PROVE  HasWrite(q, u, r, x)
<1> DEFINE a == Tail(q)
<1>1. \A i \in DOMAIN a : i + 1 \in DOMAIN q /\ a[i] = q[i + 1]
  BY TailAt
<1> HIDE DEF a
<1>2. HasWrite(a, u, r, x) BY DEF a
<1>3. QED BY <1>1, <1>2 DEF HasWrite

\* What persistIfNeeded writes.
Writes(p, r, x) ==
  Persists(p) /\ IF p.shouldDoFullDBWrite THEN p.store[r] = x ELSE r \in DOMAIN p.queue /\ p.queue[r] = x

LEMMA HasWrites ==
  ASSUME NEW n \in Nat, NEW q \in Seq(Transactions(n)), NEW t \in Tab, NEW p \in Pages(n), NEW u, NEW r \in Record, NEW x,
         HasWrite(q \o writes(t, p), u, r, x)
  PROVE  HasWrite(q, u, r, x) \/ (u = t /\ Writes(p, r, x))
<1>1. CASE Persists(p)
  <2>1. PICK w \in Transactions(n) : Written(t, p, w) /\ writes(t, p) = <<w>> BY <1>1, WritesIs
  <2>2. q \o writes(t, p) = Append(q, w) BY <2>1
  <2>3. w \in Transactions(n) BY <2>1
  <2>4. HasWrite(Append(q, w), u, r, x) BY <2>2
  <2>5. HasWrite(q, u, r, x) \/ (w.tab = u /\ r \in DOMAIN w.data /\ w.data[r] = x) BY <2>3, <2>4, HasAppend
  <2>6. QED BY <1>1, <2>1, <2>5 DEF Written, Writes
<1>2. CASE ~Persists(p)
  <2>1. q \o writes(t, p) = q BY <1>2, WritesIs
  <2>2. QED BY <2>1
<1>3. QED BY <1>1, <1>2

LEMMA HasOrphaned ==
  ASSUME NEW n, NEW q \in Seq(Transactions(n)), NEW t \in Tab, NEW l \in BOOLEAN, NEW u \in Tab, NEW r, NEW x,
         HasWrite(orphaned(t, q, l), u, r, x)
  PROVE  u # t /\ HasWrite(q, u, r, x)
<1> DEFINE a == orphaned(t, q, l)
<1>1. /\ DOMAIN a = DOMAIN q
      /\ \A i \in DOMAIN q : /\ q[i].tab # t => a[i] = q[i]
                             /\ q[i].tab = t => a[i].tab = None
  BY DEF orphaned
<1> HIDE DEF a
<1>2. PICK i \in DOMAIN a : a[i].tab = u /\ r \in DOMAIN a[i].data /\ a[i].data[r] = x BY DEF HasWrite, a
<1>3. q[i].tab # t /\ a[i] = q[i] BY <1>1, <1>2, LocalAssumption
<1>4. QED BY <1>1, <1>2, <1>3 DEF HasWrite

LEMMA UpToDateIs ==
  ASSUME TypeInv, NEW t \in Tab, UpToDate(t), NEW r \in Record
  PROVE  r \notin UnderWay(t)
<1>1. inbox[t] = <<>> /\ \A u \in Tab \ {t} : tab[u].unheard = NoChanges BY DEF UpToDate
<1>2. DOMAIN NoChanges = {} BY DiffIs
<1>3. QED BY <1>1, <1>2 DEF UnderWay

\* What is under way to t does not depend on t's own changes.
LEMMA OwnUnder ==
  ASSUME TypeInv, NEW t \in Tab, NEW s, tab' = [tab EXCEPT ![t] = s], NEW r \in Record, s.version = tab[t].version
  PROVE  /\ Elsewhere(t, r)' <=> Elsewhere(t, r)
         /\ r \in UnderWay(t)' <=> Coming(inbox'[t], tab[t].version, r) \/ Elsewhere(t, r)
         /\ inbox'[t] = inbox[t] => (r \in UnderWay(t)' <=> r \in UnderWay(t))
<1>1. tab'[t] = s /\ \A w \in Tab \ {t} : tab'[w] = tab[w] BY DEF TypeInv
<1>2. Elsewhere(t, r)' <=> Elsewhere(t, r) BY <1>1 DEF Elsewhere
<1>3. r \in UnderWay(t)' <=> Coming(inbox'[t], tab'[t].version, r) \/ Elsewhere(t, r)'
  BY DEF UnderWay, Coming, Tells, Elsewhere
<1>4. r \in UnderWay(t) <=> Coming(inbox[t], tab[t].version, r) \/ Elsewhere(t, r) BY UnderIs
<1>5. QED BY <1>1, <1>2, <1>3, <1>4

\* t goes on as it was, but for what it has written.
LEMMA OwnQuiet ==
  ASSUME TypeInv, NEW t \in Tab, NEW s, tab' = [tab EXCEPT ![t] = s], NEW r \in Record, PairOK(t, r),
         SameFace(tab[t], s), s.queue = tab[t].queue \/ s.queue = NoChanges,
         s.phase = "loaded" => tab[t].phase = "loaded", s.phase = "closing" => tab[t].phase = "closing",
         inbox'[t] = inbox[t], latest'[r] = latest[r],
         Writing(t, r)' => \/ Writing(t, r)
                           \/ tab[t].store[r] = latest[r] /\ (s.phase = "loaded" => r \notin UnderWay(t))
  PROVE  PairOK(t, r)'
<1>1. tab'[t] = s BY DEF TypeInv
<1>2. /\ s.version = tab[t].version /\ s.store = tab[t].store /\ s.unheard = tab[t].unheard
      /\ s.isReloading = tab[t].isReloading
  BY DEF SameFace
<1>3. (Elsewhere(t, r)' <=> Elsewhere(t, r)) /\ (r \in UnderWay(t)' <=> r \in UnderWay(t))
  BY <1>2, OwnUnder
<1>4. Shown(t, r)' BY <1>1, <1>2, <1>3 DEF PairOK, Shown
<1>5. Told(t, r)' BY <1>1, <1>2, <1>3 DEF PairOK, Told
<1>6. Owned(t, r)'
  <2>1. DOMAIN NoChanges = {} BY DiffIs
  <2>2. QED BY <1>1, <1>2, <1>3, <2>1 DEF PairOK, Owned
<1>7. Waits(t, r)' BY <1>1, <1>2 DEF PairOK, Waits
<1>8. InFlight(t, r)' BY <1>1, <1>2, <1>3 DEF PairOK, InFlight
<1>9. QED BY <1>4, <1>5, <1>6, <1>7, <1>8 DEF PairOK

\* t is gone.
LEMMA OwnGone ==
  ASSUME TypeInv, NEW t \in Tab, NEW r \in Record, tab' = [tab EXCEPT ![t] = NoTab], inbox'[t] = <<>>, ~Writing(t, r)'
  PROVE  PairOK(t, r)'
<1>1. tab'[t] = NoTab BY DEF TypeInv
<1>2. NoTab.phase = "closed" /\ DOMAIN NoTab.unheard = {} /\ DOMAIN NoTab.queue = {}
  BY DiffIs DEF NoTab
<1>3. Shown(t, r)' BY <1>1, <1>2 DEF Shown
<1>4. Told(t, r)' BY DEF Told, Ends
<1>5. Owned(t, r)' BY <1>1, <1>2 DEF Owned
<1>6. Waits(t, r)' BY <1>1, <1>2 DEF Waits
<1>7. InFlight(t, r)' BY DEF InFlight
<1>8. QED BY <1>3, <1>4, <1>5, <1>6, <1>7 DEF PairOK

\* A tab that is not persisting is writing nothing.
LEMMA NotWriting ==
  ASSUME NEW n, NEW q \in Seq(Transactions(n)), NEW tb, QueueOK(q, tb), NEW t \in Tab, ~tb[t].isPersisting, NEW r, NEW x
  PROVE  ~HasWrite(q, t, r, x)
<1>1. SUFFICES ASSUME NEW i \in DOMAIN q, q[i].tab = t, r \in DOMAIN q[i].data PROVE FALSE
  BY DEF HasWrite
<1>2. ~WriteAt(q, t, i) BY DEF QueueOK
<1>3. q[i].data = NoChanges BY <1>1, <1>2 DEF QueueOK, WriteAt
<1>4. QED BY <1>1, <1>3, DiffIs

\* Nothing but what t has to write changes.
LEMMA QuietShown ==
  ASSUME TypeInv, ShownInv, NEW t \in Tab, NEW s, tab' = [tab EXCEPT ![t] = s],
         SameFace(tab[t], s), s.queue = tab[t].queue \/ s.queue = NoChanges,
         s.phase = "loaded" => tab[t].phase = "loaded", s.phase = "closing" => tab[t].phase = "closing",
         UNCHANGED <<inbox, latest>>, lost \subseteq lost',
         \A u \in Tab \ {t} : \A r \in Record : Writing(u, r)' => Writing(u, r),
         \A r \in Record \ lost' :
           Writing(t, r)' => \/ Writing(t, r)
                             \/ tab[t].store[r] = latest[r] /\ (s.phase = "loaded" => r \notin UnderWay(t))
  PROVE  ShownInv'
<1>1. SUFFICES ASSUME NEW u \in Tab, NEW r \in Record, r \notin lost' PROVE PairOK(u, r)'
  BY DEF ShownInv
<1>2. PairOK(u, r) /\ PairOK(t, r) /\ Owned(t, r) BY <1>1 DEF ShownInv, PairOK
<1>3. CASE u = t
  <2>1. PairOK(t, r) /\ (Writing(t, r)' => \/ Writing(t, r)
                                           \/ tab[t].store[r] = latest[r] /\ (s.phase = "loaded" => r \notin UnderWay(t)))
    BY <1>1, <1>2
  <2>2. PairOK(t, r)' BY <2>1, OwnQuiet
  <2>3. QED BY <1>3, <2>2
<1>4. CASE u # t
  <2>1. u \in Tab \ {t} BY <1>4
  <2>2. Passive(t, s, u, r) BY DEF Passive, SameFace
  <2>3. tab[u].phase \notin {"loading", "loaded"} => inbox'[u] = <<>> BY DEF TypeInv, InboxOK
  <2>4. Writing(u, r)' => Writing(u, r) BY <2>1
  <2>5. QED BY <1>2, <2>1, <2>2, <2>3, <2>4, OtherKept
<1>5. QED BY <1>3, <1>4

\* t's page is gone, and with it what it has not reported.
LEMMA GoneShown ==
  ASSUME TypeInv, TypeInv', ShownInv, NEW t \in Tab, tab' = [tab EXCEPT ![t] = NoTab],
         \A u \in Tab : inbox'[u] = IF u = t THEN <<>> ELSE inbox[u],
         UNCHANGED latest, lost \subseteq lost', DOMAIN tab[t].unheard \subseteq lost',
         \A u \in Tab \ {t} : \A r \in Record : Writing(u, r)' => Writing(u, r)
  PROVE  ShownInv'
<1>1. SUFFICES ASSUME NEW u \in Tab, NEW r \in Record, r \notin lost' PROVE PairOK(u, r)'
  BY DEF ShownInv
<1>2. PairOK(u, r) /\ Owned(t, r) BY <1>1 DEF ShownInv, PairOK
<1>3. CASE u = t
  <2>1. idb' \in Seq(Transactions(edits')) /\ QueueOK(idb', tab') BY DEF TypeInv
  <2>2. ~tab'[t].isPersisting BY DEF TypeInv, NoTab
  <2>3. ~HasWrite(idb', t, r, latest'[r]) BY <2>1, <2>2, NotWriting
  <2>4. ~Writing(t, r)' BY <2>3, WritingIs
  <2>5. inbox'[t] = <<>> OBVIOUS
  <2>6. PairOK(t, r)' BY <2>4, <2>5, OwnGone
  <2>7. QED BY <1>3, <2>6
<1>4. CASE u # t
  <2>1. u \in Tab \ {t} /\ inbox'[u] = inbox[u] BY <1>4
  <2>2. r \notin DOMAIN tab[t].unheard BY <1>1
  <2>3. Passive(t, NoTab, u, r) BY <2>1, <2>2 DEF Passive, NoTab
  <2>4. tab[u].phase \notin {"loading", "loaded"} => inbox'[u] = <<>> BY <2>1 DEF TypeInv, InboxOK
  <2>5. Writing(u, r)' => Writing(u, r) BY <2>1
  <2>6. u \in Tab \ {t} /\ latest'[r] = latest[r] BY <2>1
  <2>7. QED BY <1>2, <2>3, <2>4, <2>5, <2>6, OtherKept
<1>5. QED BY <1>3, <1>4

\* t ends a write.
LEMMA EndsShown ==
  ASSUME TypeInv, TypeInv', ShownInv, NEW t \in Tab, idb # <<>>, Head(idb).kind # "read", Head(idb).tab = t,
         NEW p \in Pages(edits), Ended(tab[t], p), finishes(t, p),
         UNCHANGED <<inbox, latest>>, lost \subseteq lost'
  PROVE  ShownInv'
<1> DEFINE s == finished(p)
<1>1. /\ tab' = [tab EXCEPT ![t] = s] /\ s \in Pages(edits)
      /\ tab[t].phase \in {"loaded", "closing", "flushing"}
      /\ tab[t].phase = "loaded" => s = p /\ idb' = Tail(idb)
      /\ tab[t].phase = "closing" => Flushed(p, s) /\ s.phase \in {"flushing", "closed"} /\ idb' = Tail(idb) \o writes(t, p)
      /\ tab[t].phase = "flushing" => s = NoTab /\ idb' = Tail(idb)
  BY FinishesIs
<1>2. /\ SameFace(tab[t], p) /\ p.phase = tab[t].phase /\ p.queue = tab[t].queue /\ ~p.isPersisting
  BY DEF Ended
<1>3. edits \in Nat /\ idb \in Seq(Transactions(edits)) /\ Tail(idb) \in Seq(Transactions(edits))
  BY BoundsIs, TailAt
<1>4. PageOK(tab[t]) /\ DOMAIN NoChanges = {} BY PageIs, DiffIs
<1> HIDE DEF s
<1>5. ASSUME NEW u \in Tab, NEW r \in Record, Writing(u, r)'
      PROVE  Writing(u, r) \/ (u = t /\ tab[t].phase = "closing" /\ Writes(p, r, latest[r]))
  <2>1. HasWrite(idb', u, r, latest[r]) BY <1>5, WritingIs
  <2>2. CASE tab[t].phase # "closing"
    <3>1. HasWrite(Tail(idb), u, r, latest[r]) BY <1>1, <2>1, <2>2
    <3>2. HasWrite(idb, u, r, latest[r]) BY <1>3, <3>1, HasTail
    <3>3. QED BY <3>2, WritingIs
  <2>3. CASE tab[t].phase = "closing"
    <3>1. HasWrite(Tail(idb) \o writes(t, p), u, r, latest[r]) BY <1>1, <2>1, <2>3
    <3>2. HasWrite(Tail(idb), u, r, latest[r]) \/ (u = t /\ Writes(p, r, latest[r])) BY <1>3, <3>1, HasWrites
    <3>3. HasWrite(Tail(idb), u, r, latest[r]) => HasWrite(idb, u, r, latest[r]) BY <1>3, HasTail
    <3>4. QED BY <2>3, <3>2, <3>3, WritingIs
  <2>4. QED BY <2>2, <2>3
<1>6. \A u \in Tab \ {t} : \A r \in Record : Writing(u, r)' => Writing(u, r)
  BY <1>5
<1>7. CASE s = NoTab
  <2>1. tab[t].phase # "loaded" BY <1>1, <1>2, <1>7 DEF NoTab
  <2>2. DOMAIN tab[t].unheard = {} BY <1>4, <2>1 DEF PageOK
  <2>3. \A u \in Tab : inbox'[u] = IF u = t THEN <<>> ELSE inbox[u]
    BY <1>1, <2>1 DEF TypeInv, InboxOK
  <2>4. tab' = [tab EXCEPT ![t] = NoTab] BY <1>1, <1>7
  <2>5. DOMAIN tab[t].unheard \subseteq lost' BY <2>2
  <2>6. QED BY <1>6, <2>3, <2>4, <2>5, GoneShown
<1>8. CASE s # NoTab
  <2>1. SameFace(tab[t], s) /\ (s.queue = tab[t].queue \/ s.queue = NoChanges)
        /\ (s.phase = "loaded" => tab[t].phase = "loaded") /\ (s.phase = "closing" => tab[t].phase = "closing")
    BY <1>1, <1>2, <1>8 DEF Flushed, SameFace, NoWork
  <2>2. ASSUME NEW r \in Record \ lost', Writing(t, r)', ~Writing(t, r)
        PROVE  tab[t].store[r] = latest[r] /\ s.phase # "loaded"
    <3>1. tab[t].phase = "closing" /\ Writes(p, r, latest[r]) BY <1>5, <2>2
    <3>2. Owned(t, r) BY DEF ShownInv, PairOK
    <3>3. QED BY <1>1, <1>2, <3>1, <3>2 DEF Writes, Owned, SameFace
  <2>3. QED BY <1>1, <1>6, <2>1, <2>2, QuietShown
<1>9. QED BY <1>7, <1>8

LEMMA CommitsShown ==
  ASSUME TypeInv, TypeInv', ShownInv, Commits
  PROVE  ShownInv'
<1>1. /\ idb # <<>> /\ Head(idb).kind # "read" /\ UNCHANGED <<inbox, latest, lost>>
      /\ IF Head(idb).tab = None THEN idb' = Tail(idb) /\ UNCHANGED tab
         ELSE finishes(Head(idb).tab, persisted(tab[Head(idb).tab]))
  BY DEF Commits, ghosts
<1>2. idb \in Seq(Transactions(edits)) /\ Head(idb) \in Transactions(edits)
  BY <1>1, BoundsIs, TailAt
<1>3. CASE Head(idb).tab = None
  <2>1. SUFFICES ASSUME NEW t \in Tab, NEW r \in Record, r \notin lost PROVE PairOK(t, r)'
    BY <1>1 DEF ShownInv
  <2>2. Writing(t, r)' => Writing(t, r) BY <1>1, <1>2, <1>3, WritingIs, HasTail
  <2>3. UNCHANGED <<tab, inbox, latest>> BY <1>1, <1>3
  <2>4. PairOK(t, r) BY <2>1 DEF ShownInv
  <2>5. QED BY <2>2, <2>3, <2>4 DEF PairOK, Shown, Told, Owned, Waits, InFlight, UnderWay, Elsewhere
<1>4. CASE Head(idb).tab # None
  <2>1. PICK t \in Tab : Head(idb).tab = t BY <1>2, <1>4 DEF Transactions
  <2>2. finishes(t, persisted(tab[t])) BY <1>1, <1>4, <2>1
  <2>3. tab[t] \in Pages(edits) /\ edits \in Nat BY PageIs
  <2>4. persisted(tab[t]) \in Pages(edits) /\ Ended(tab[t], persisted(tab[t])) BY <2>3, EndedIs
  <2>5. QED BY <1>1, <2>1, <2>2, <2>4, EndsShown
<1>5. QED BY <1>3, <1>4

LEMMA FailsShown ==
  ASSUME TypeInv, TypeInv', ShownInv, Fails
  PROVE  ShownInv'
<1>1. PICK t \in Tab : /\ Head(idb).tab = t /\ finishes(t, failed(tab[t]))
                       /\ lost' = IF tab[t].phase = "flushing" \/ tab[t].isReloading THEN lost \cup GivenUp(t, idb') ELSE lost
  BY DEF Fails
<1>2. idb # <<>> /\ Head(idb).kind # "read" /\ UNCHANGED <<inbox, latest>> BY DEF Fails
<1>3. tab[t] \in Pages(edits) /\ edits \in Nat BY PageIs
<1>4. failed(tab[t]) \in Pages(edits) /\ Ended(tab[t], failed(tab[t])) BY <1>3, EndedIs
<1>5. lost \subseteq lost' BY <1>1
<1>6. QED BY <1>1, <1>2, <1>4, <1>5, EndsShown

\* A page loads: nobody is told of what it has.
LEMMA OpensShown ==
  ASSUME TypeInv, TypeInv', ShownInv, NEW t \in Tab, NEW s, tab' = [tab EXCEPT ![t] = s],
         s.phase = "loading", tab[t].unheard = NoChanges, s.unheard = NoChanges, s.queue = NoChanges,
         s.version = tab[t].version \/ inbox[t] = <<>>,
         UNCHANGED <<inbox, latest, lost>>,
         \A u \in Tab \ {t} : \A r \in Record : Writing(u, r)' => Writing(u, r)
  PROVE  ShownInv'
<1>1. SUFFICES ASSUME NEW u \in Tab, NEW r \in Record, r \notin lost PROVE PairOK(u, r)'
  BY DEF ShownInv
<1>2. PairOK(u, r) /\ Owned(t, r) BY <1>1 DEF ShownInv, PairOK
<1>3. CASE u = t
  <2>1. tab'[t] = s BY DEF TypeInv
  <2>2. DOMAIN NoChanges = {} BY DiffIs
  <2>3. Told(t, r)'
    <3>1. CASE inbox[t] = <<>>
      <4>1. ~Coming(inbox'[t], s.version, r) BY <3>1 DEF Coming
      <4>2. Ends(inbox'[t], s.version, r, latest'[r]) BY <4>1, EndsNone
      <4>3. QED BY <2>1, <4>2 DEF Told
    <3>2. CASE s.version = tab[t].version
      <4>1. Elsewhere(t, r)' <=> Elsewhere(t, r) BY <3>2, OwnUnder
      <4>2. QED BY <1>2, <1>3, <2>1, <3>2, <4>1 DEF PairOK, Told
    <3>3. QED BY <3>1, <3>2
  <2>4. Shown(t, r)' /\ Owned(t, r)' /\ Waits(t, r)' BY <2>1, <2>2 DEF Shown, Owned, Waits
  <2>5. InFlight(t, r)'
    <3>1. idb' \in Seq(Transactions(edits')) /\ QueueOK(idb', tab') BY DEF TypeInv
    <3>2. ~tab'[t].isPersisting
      <4>1. PageOK(tab'[t]) BY DEF TypeInv
      <4>2. QED BY <2>1, <4>1 DEF PageOK
    <3>3. ~HasWrite(idb', t, r, latest'[r]) BY <3>1, <3>2, NotWriting
    <3>4. QED BY <3>3, WritingIs DEF InFlight
  <2>6. QED BY <1>3, <2>3, <2>4, <2>5 DEF PairOK
<1>4. CASE u # t
  <2>1. u \in Tab \ {t} BY <1>4
  <2>2. Passive(t, s, u, r) BY DiffIs DEF Passive
  <2>3. tab[u].phase \notin {"loading", "loaded"} => inbox'[u] = <<>> BY DEF TypeInv, InboxOK
  <2>4. Writing(u, r)' => Writing(u, r) BY <2>1
  <2>5. QED BY <1>2, <2>1, <2>2, <2>3, <2>4, OtherKept
<1>5. QED BY <1>3, <1>4

LEMMA OpenShown ==
  ASSUME TypeInv, TypeInv', ShownInv, NEW t \in Tab, Open(t)
  PROVE  ShownInv'
<1> DEFINE s == [NoTab EXCEPT !.phase = "loading", !.version = release]
<1>1. /\ tab[t].phase = "closed" /\ tab' = [tab EXCEPT ![t] = s] /\ idb' = Append(idb, reading(t))
      /\ UNCHANGED <<inbox, latest, lost>>
  BY DEF Open, IsOpen, ghosts
<1>2. tab[t].unheard = NoChanges /\ inbox[t] = <<>>
  BY <1>1, PageIs DEF PageOK, TypeInv, InboxOK
<1>3. s.phase = "loading" /\ s.unheard = NoChanges /\ s.queue = NoChanges BY DEF NoTab
<1>4. ASSUME NEW u \in Tab \ {t}, NEW r \in Record, Writing(u, r)' PROVE Writing(u, r)
  <2>1. reading(t) \in Transactions(edits) /\ reading(t).tab = t
    <3>1. NoChanges \in Diffs(edits) BY DiffIs
    <3>2. QED BY <3>1 DEF reading, Transactions
  <2>2. idb \in Seq(Transactions(edits)) BY BoundsIs
  <2>3. HasWrite(Append(idb, reading(t)), u, r, latest[r]) BY <1>1, <1>4, WritingIs
  <2>4. HasWrite(idb, u, r, latest[r]) BY <2>1, <2>2, <2>3, HasAppend
  <2>5. QED BY <2>4, WritingIs
<1> HIDE DEF s
<1>5. QED BY <1>1, <1>2, <1>3, <1>4, OpensShown

LEMMA ReadsShown ==
  ASSUME TypeInv, TypeInv', ShownInv, Reads
  PROVE  ShownInv'
<1>1. /\ idb # <<>> /\ Head(idb).kind = "read" /\ idb' = Tail(idb)
      /\ tab' = [tab EXCEPT ![Head(idb).tab].store = disk]
      /\ UNCHANGED <<inbox, latest, lost>>
  BY DEF Reads, ghosts
<1>2. /\ idb \in Seq(Transactions(edits)) /\ QueueOK(idb, tab) /\ tab \in [Tab -> Pages(edits)]
  BY BoundsIs
<1>3. Head(idb).tab \in Tab /\ tab[Head(idb).tab].phase = "loading" BY <1>1, <1>2, QueueTail
<1>4. PICK t \in Tab : Head(idb).tab = t BY <1>3
<1>5. tab[t] \in Pages(edits) /\ PageOK(tab[t]) BY PageIs
<1> DEFINE s == [tab[t] EXCEPT !.store = disk]
<1>6. tab' = [tab EXCEPT ![t] = s] BY <1>1, <1>4
<1>7. s.phase = "loading" /\ s.unheard = NoChanges /\ s.queue = NoChanges /\ s.version = tab[t].version /\ tab[t].unheard = NoChanges
  BY <1>3, <1>4, <1>5 DEF PageOK, Pages
<1>8. ASSUME NEW u \in Tab, NEW r \in Record, Writing(u, r)' PROVE Writing(u, r)
  BY <1>1, <1>2, <1>8, WritingIs, HasTail
<1> HIDE DEF s
<1>9. QED BY <1>1, <1>6, <1>7, <1>8, OpensShown

\* t's step as the other tabs see it.
LEMMA OthersShown ==
  ASSUME TypeInv, ShownInv, NEW t \in Tab, NEW s, tab' = [tab EXCEPT ![t] = s], UNCHANGED latest, lost \subseteq lost',
         \A u \in Tab \ {t} : \A r \in Record \ lost' : Passive(t, s, u, r),
         \A u \in Tab \ {t} : tab[u].phase \notin {"loading", "loaded"} => inbox'[u] = <<>>,
         \A u \in Tab \ {t} : \A r \in Record : Writing(u, r)' => Writing(u, r),
         \A r \in Record \ lost' : PairOK(t, r) => PairOK(t, r)'
  PROVE  ShownInv'
<1>1. SUFFICES ASSUME NEW u \in Tab, NEW r \in Record, r \notin lost' PROVE PairOK(u, r)'
  BY DEF ShownInv
<1>2. PairOK(u, r) /\ PairOK(t, r) /\ Owned(t, r) BY <1>1 DEF ShownInv, PairOK
<1>3. CASE u = t BY <1>1, <1>2, <1>3
<1>4. CASE u # t
  <2>1. u \in Tab \ {t} BY <1>4
  <2>2. Passive(t, s, u, r) BY <1>1, <2>1
  <2>3. tab[u].phase \notin {"loading", "loaded"} => inbox'[u] = <<>> BY <2>1
  <2>4. Writing(u, r)' => Writing(u, r) BY <2>1
  <2>5. QED BY <1>2, <2>1, <2>2, <2>3, <2>4, OtherKept
<1>5. QED BY <1>3, <1>4

\* A message that t posts reaches the others.
LEMMA PostedPassive ==
  ASSUME TypeInv, NEW t \in Tab, NEW m,
         \A u \in Tab \ {t} : inbox'[u] = posted(t, m)[u]
  PROVE  /\ \A u \in Tab \ {t} : inbox'[u] = IF tab[u].phase \in {"loading", "loaded"} THEN Append(inbox[u], m) ELSE inbox[u]
         /\ \A u \in Tab \ {t} : tab[u].phase \notin {"loading", "loaded"} => inbox'[u] = <<>>
<1>1. \A u \in Tab \ {t} : inbox'[u] = IF tab[u].phase \in {"loading", "loaded"} THEN Append(inbox[u], m) ELSE inbox[u]
  BY PostedIs
<1>2. \A u \in Tab : tab[u].phase \notin {"loading", "loaded"} => inbox[u] = <<>> BY DEF TypeInv, InboxOK
<1>3. QED BY <1>1, <1>2

LEMMA LoadsShown ==
  ASSUME TypeInv, TypeInv', ShownInv, NEW t \in Tab, Loads(t)
  PROVE  ShownInv'
<1> DEFINE s == [tab[t] EXCEPT !.phase = "loaded"]
           m == announce(tab[t].version)
<1>1. /\ tab[t].phase = "loading" /\ tab' = [tab EXCEPT ![t] = s] /\ inbox' = posted(t, m)
      /\ lost' = lost \cup Missed(t) /\ UNCHANGED <<idb, latest>>
  BY DEF Loads
<1>2. /\ tab[t] \in Pages(edits) /\ PageOK(tab[t]) /\ tab[t].version \in Nat /\ inbox[t] \in Seq(Messages(edits))
      /\ tab' \in [Tab -> Pages(edits')] /\ DOMAIN NoChanges = {}
  BY PageIs, DiffIs DEF TypeInv
<1>3. m \in Messages(edits) /\ m.changes = NoChanges BY <1>2, MessageIs
<1>4. SameFace(tab[t], s) /\ s.phase = "loaded" /\ s.queue = tab[t].queue /\ s.isPersisting = tab[t].isPersisting BY <1>2 DEF Pages, SameFace
<1> HIDE DEF s, m
<1>5. \A u \in Tab \ {t} : inbox'[u] = IF tab[u].phase \in {"loading", "loaded"} THEN Append(inbox[u], m) ELSE inbox[u]
  BY <1>1, PostedPassive
<1>6. \A u \in Tab \ {t} : tab[u].phase \notin {"loading", "loaded"} => inbox'[u] = <<>>
  BY <1>1, PostedPassive
<1>7. \A u \in Tab \ {t} : \A r \in Record \ lost' : Passive(t, s, u, r)
  BY <1>3, <1>4, <1>5 DEF Passive, SameFace
<1>8. \A u \in Tab : \A r \in Record : Writing(u, r)' => Writing(u, r)
  BY <1>1, WritingIs
<1>9. ASSUME NEW r \in Record \ lost', PairOK(t, r) PROVE PairOK(t, r)'
  <2>1. tab'[t] = s BY <1>1, BoundsIs
  <2>2. inbox'[t] = inbox[t] BY <1>1, PostedIs
  <2>3. (Elsewhere(t, r)' <=> Elsewhere(t, r)) /\ (r \in UnderWay(t)' <=> r \in UnderWay(t))
    BY <1>1, <1>4, <2>2, OwnUnder DEF SameFace
  <2>4. tab[t].store[r] = latest[r] \/ r \in UnderWay(t) BY <1>1, <1>9 DEF Missed
  <2>5. Shown(t, r)' BY <1>1, <1>4, <2>1, <2>3, <2>4 DEF Shown, SameFace
  <2>6. Told(t, r)' BY <1>1, <1>4, <1>9, <2>1, <2>2, <2>3 DEF PairOK, Told, SameFace
  <2>7. Owned(t, r)' /\ Waits(t, r)' BY <1>1, <1>2, <1>4, <2>1 DEF Owned, Waits, PageOK, SameFace
  <2>8. InFlight(t, r)'
    <3>1. ~HasWrite(idb, t, r, latest[r])
      <4>1. ~tab[t].isPersisting BY <1>1, <1>2 DEF PageOK
      <4>2. QED BY <4>1, NotWriting, BoundsIs
    <3>2. QED BY <1>8, <3>1, WritingIs DEF InFlight
  <2>9. QED BY <2>5, <2>6, <2>7, <2>8 DEF PairOK
<1>10. lost \subseteq lost' BY <1>1
<1>11. QED BY <1>1, <1>6, <1>7, <1>8, <1>9, <1>10, OthersShown

LEMMA ReportShown ==
  ASSUME TypeInv, TypeInv', ShownInv, NEW t \in Tab, Report(t)
  PROVE  ShownInv'
<1> DEFINE s == heard(tab[t])
           m == diff(tab[t].version, tab[t].unheard)
<1>1. /\ tab[t].phase = "loaded" /\ tab' = [tab EXCEPT ![t] = s] /\ inbox' = posted(t, m)
      /\ UNCHANGED <<idb, latest, lost>>
  BY DEF Report, ghosts
<1>2. /\ tab[t] \in Pages(edits) /\ PageOK(tab[t]) /\ tab[t].version \in Nat /\ edits \in Nat
      /\ tab[t].unheard \in Diffs(edits) /\ tab[t].queue \in Diffs(edits)
  BY PageIs
<1>3. /\ s.unheard = NoChanges /\ s.phase = tab[t].phase /\ s.version = tab[t].version /\ s.store = tab[t].store
      /\ s.isReloading = tab[t].isReloading /\ s.queue = Over(tab[t].unheard, tab[t].queue)
  BY <1>2, HeardIs
<1> HIDE DEF s
<1>4. /\ DOMAIN s.queue = DOMAIN tab[t].unheard \cup DOMAIN tab[t].queue
      /\ \A x \in DOMAIN s.queue : s.queue[x] = IF x \in DOMAIN tab[t].unheard THEN tab[t].unheard[x] ELSE tab[t].queue[x]
  <2>1. tab[t] \in Pages(edits) BY PageIs
  <2>2. edits \in Nat BY PageIs
  <2>3. QED BY <2>1, <2>2, HeardQueue DEF s
<1>5. \A u \in Tab \ {t} : inbox'[u] = IF tab[u].phase \in {"loading", "loaded"} THEN Append(inbox[u], m) ELSE inbox[u]
  BY <1>1, PostedPassive
<1>6. \A u \in Tab \ {t} : tab[u].phase \notin {"loading", "loaded"} => inbox'[u] = <<>>
  BY <1>1, PostedPassive
<1>7. \A u \in Tab \ {t} : \A r \in Record \ lost' : Passive(t, s, u, r)
  BY <1>3, <1>5 DEF Passive
<1>8. \A u \in Tab : \A r \in Record : Writing(u, r)' => Writing(u, r)
  BY <1>1, WritingIs
<1>9. ASSUME NEW r \in Record \ lost', PairOK(t, r) PROVE PairOK(t, r)'
  <2>1. tab'[t] = s BY <1>1, BoundsIs
  <2>2. inbox'[t] = inbox[t] BY <1>1, PostedIs
  <2>3. (Elsewhere(t, r)' <=> Elsewhere(t, r)) /\ (r \in UnderWay(t)' <=> r \in UnderWay(t))
    BY <1>1, <1>3, <2>2, OwnUnder
  <2>4. Shown(t, r)' BY <1>1, <1>3, <1>9, <2>1, <2>3 DEF PairOK, Shown
  <2>5. Told(t, r)' BY <1>1, <1>3, <1>9, <2>1, <2>2, <2>3 DEF PairOK, Told
  <2>6. Owned(t, r)'
    <3>1. DOMAIN s.unheard = {} BY <1>3, DiffIs
    <3>2. QED BY <1>1, <1>3, <1>4, <1>9, <2>1, <2>3, <3>1 DEF PairOK, Owned
  <2>7. Waits(t, r)' BY <1>1, <1>3, <2>1 DEF Waits
  <2>8. InFlight(t, r)' BY <1>1, <1>3, <1>8, <1>9, <2>1, <2>3 DEF PairOK, InFlight
  <2>9. QED BY <2>4, <2>5, <2>6, <2>7, <2>8 DEF PairOK
<1>10. QED BY <1>1, <1>6, <1>7, <1>8, <1>9, OthersShown

LEMMA SessionChangesShown ==
  ASSUME TypeInv, ShownInv, NEW t \in Tab, SessionChanges(t)
  PROVE  ShownInv'
<1> DEFINE s == [tab[t] EXCEPT !.queued = TRUE, !.timer = TRUE]
<1>1. /\ tab[t].phase = "loaded" /\ tab' = [tab EXCEPT ![t].queued = TRUE, ![t].timer = TRUE]
      /\ UNCHANGED <<inbox, idb, latest, lost>>
  BY DEF SessionChanges, ghosts
<1>2. tab[t] \in Pages(edits) /\ tab \in [Tab -> Pages(edits)] BY PageIs, BoundsIs
<1>3. tab' = [tab EXCEPT ![t] = s] BY <1>1, <1>2 DEF Pages
<1>4. SameFace(tab[t], s) /\ s.phase = "loaded" /\ s.queue = tab[t].queue BY <1>1, <1>2 DEF Pages, SameFace
<1> HIDE DEF s
<1>5. \A u \in Tab : \A r \in Record : Writing(u, r)' => Writing(u, r) BY <1>1, WritingIs
<1>6. QED BY <1>1, <1>3, <1>4, <1>5, QuietShown

LEMMA ReleaseShown ==
  ASSUME ShownInv, Release
  PROVE  ShownInv'
<1>1. UNCHANGED <<tab, inbox, idb, latest, lost>> BY DEF Release, ghosts
<1>2. QED BY <1>1 DEF ShownInv, PairOK, Shown, Told, Owned, Waits, InFlight, UnderWay, Elsewhere, Writing

\* persistIfNeeded, in a page that has heard everything.
LEMMA PersistsShown ==
  ASSUME TypeInv, ShownInv, NEW t \in Tab, UpToDate(t),
         tab' = [tab EXCEPT ![t] = persistIfNeeded(@)], idb' = idb \o writes(t, tab[t]),
         UNCHANGED <<inbox, ghosts>>
  PROVE  ShownInv'
<1> DEFINE s == persistIfNeeded(tab[t])
<1>1. tab[t] \in Pages(edits) /\ edits \in Nat /\ idb \in Seq(Transactions(edits)) BY PageIs, BoundsIs
<1>2. SameFace(tab[t], s) /\ s.phase = tab[t].phase BY <1>1, PersistIs
<1>3. s.queue = tab[t].queue \/ s.queue = NoChanges
  <2>1. (Persists(tab[t]) => NoWork(s)) /\ (~Persists(tab[t]) => SameWork(tab[t], s)) BY <1>1, PersistIs
  <2>2. QED BY <2>1 DEF NoWork, SameWork
<1>4. tab' = [tab EXCEPT ![t] = s] OBVIOUS
<1>5. UNCHANGED <<latest, lost>> BY DEF ghosts
<1>6. ASSUME NEW u \in Tab, NEW r \in Record, Writing(u, r)'
      PROVE  Writing(u, r) \/ (u = t /\ Writes(tab[t], r, latest[r]))
  <2>1. HasWrite(idb \o writes(t, tab[t]), u, r, latest[r]) BY <1>5, <1>6, WritingIs
  <2>2. QED BY <1>1, <2>1, HasWrites, WritingIs
<1>7. ASSUME NEW r \in Record \ lost', Writing(t, r)', ~Writing(t, r)
      PROVE  tab[t].store[r] = latest[r] /\ r \notin UnderWay(t)
  <2>1. Writes(tab[t], r, latest[r]) BY <1>6, <1>7
  <2>2. r \notin UnderWay(t) BY UpToDateIs
  <2>3. Owned(t, r) BY <1>5 DEF ShownInv, PairOK
  <2>4. QED BY <2>1, <2>2, <2>3 DEF Writes, Owned
<1> HIDE DEF s
<1>8. \A u \in Tab \ {t} : \A r \in Record : Writing(u, r)' => Writing(u, r) BY <1>6
<1>9. QED BY <1>2, <1>3, <1>4, <1>5, <1>7, <1>8, QuietShown

\* t takes the message at the head of its inbox.
LEMMA TakesHead ==
  ASSUME TypeInv, NEW t \in Tab, NEW s, tab' = [tab EXCEPT ![t] = s], s.version = tab[t].version,
         inbox[t] # <<>>, inbox'[t] = Tail(inbox[t]), NEW r \in Record, latest'[r] = latest[r], Told(t, r)
  PROVE  /\ Told(t, r)' /\ (r \in UnderWay(t)' => r \in UnderWay(t))
         /\ r \in UnderWay(t) => r \in UnderWay(t)' \/ Tells(Head(inbox[t]), tab[t].version, r)
         /\ Tells(Head(inbox[t]), tab[t].version, r) /\ r \notin UnderWay(t)' =>
              Head(inbox[t]).changes[r] = latest[r] \/ Head(inbox[t]).version > tab[t].version
<1> DEFINE v == tab[t].version
<1>1. inbox[t] \in Seq(Messages(edits)) BY PageIs
<1>2. /\ Elsewhere(t, r)' <=> Elsewhere(t, r)
      /\ r \in UnderWay(t)' <=> Coming(inbox'[t], v, r) \/ Elsewhere(t, r)
  BY OwnUnder
<1>3. r \in UnderWay(t) <=> Coming(inbox[t], v, r) \/ Elsewhere(t, r) BY UnderIs
<1>4. Coming(inbox[t], v, r) <=> Coming(Tail(inbox[t]), v, r) \/ Tells(Head(inbox[t]), v, r)
  BY <1>1, ComingTail
<1>5. Ends(inbox[t], v, r, latest[r]) =>
        /\ Ends(Tail(inbox[t]), v, r, latest[r])
        /\ Tells(Head(inbox[t]), v, r) /\ ~Coming(Tail(inbox[t]), v, r) => Head(inbox[t]).changes[r] = latest[r] \/ Head(inbox[t]).version > v
  BY <1>1, EndsTail
<1>6. tab'[t].version = v BY BoundsIs
<1>7. Told(t, r)'
  <2>1. Ends(inbox'[t], v, r, latest'[r]) \/ Elsewhere(t, r)' BY <1>2, <1>5 DEF Told
  <2>2. QED BY <1>6, <2>1 DEF Told
<1>8. QED BY <1>2, <1>3, <1>4, <1>5, <1>7 DEF Told

\* What t does with it alone: the others' inboxes stay.
LEMMA TakesShown ==
  ASSUME TypeInv, ShownInv, NEW t \in Tab, NEW s, tab' = [tab EXCEPT ![t] = s], s.version = tab[t].version,
         s.unheard = tab[t].unheard, inbox' = [inbox EXCEPT ![t] = Tail(@)], UNCHANGED <<idb, latest>>, lost \subseteq lost',
         \A r \in Record \ lost' : PairOK(t, r) => PairOK(t, r)'
  PROVE  ShownInv'
<1>1. \A u \in Tab \ {t} : inbox'[u] = inbox[u] BY DEF TypeInv, InboxOK
<1>2. \A u \in Tab \ {t} : \A r \in Record \ lost' : Passive(t, s, u, r) BY <1>1 DEF Passive
<1>3. \A u \in Tab \ {t} : tab[u].phase \notin {"loading", "loaded"} => inbox'[u] = <<>>
  BY <1>1 DEF TypeInv, InboxOK
<1>4. \A u \in Tab \ {t} : \A r \in Record : Writing(u, r)' => Writing(u, r) BY WritingIs
<1>5. QED BY <1>2, <1>3, <1>4, OthersShown

LEMMA IgnoresShown ==
  ASSUME TypeInv, ShownInv, NEW t \in Tab, Ignores(t)
  PROVE  ShownInv'
<1> DEFINE s == tab[t]
<1>1. /\ inbox[t] # <<>> /\ tab[t].phase # "loaded" /\ inbox' = [inbox EXCEPT ![t] = Tail(@)]
      /\ UNCHANGED <<tab, idb, latest, lost>>
  BY DEF Ignores, ghosts
<1>2. tab' = [tab EXCEPT ![t] = s] /\ tab'[t] = s BY <1>1, BoundsIs
<1>3. inbox'[t] = Tail(inbox[t]) BY <1>1 DEF TypeInv, InboxOK
<1>4. tab[t].phase = "loading" /\ PageOK(tab[t]) /\ DOMAIN NoChanges = {} BY <1>1, DiffIs DEF TypeInv, InboxOK
<1>5. ASSUME NEW r \in Record \ lost', PairOK(t, r) PROVE PairOK(t, r)'
  <2>1. Told(t, r) /\ latest'[r] = latest[r] BY <1>1, <1>5 DEF PairOK
  <2>2. Told(t, r)' BY <1>1, <1>2, <1>3, <2>1, TakesHead
  <2>3. Shown(t, r)' /\ Owned(t, r)' /\ Waits(t, r)' BY <1>2, <1>4 DEF Shown, Owned, Waits, PageOK
  <2>4. InFlight(t, r)'
    <3>1. ~HasWrite(idb, t, r, latest[r]) BY <1>4, NotWriting, BoundsIs DEF PageOK
    <3>2. QED BY <1>1, <3>1, WritingIs DEF InFlight
  <2>5. QED BY <2>2, <2>3, <2>4 DEF PairOK
<1>6. QED BY <1>1, <1>2, <1>5, TakesShown

LEMMA HearsNewerShown ==
  ASSUME TypeInv, ShownInv, NEW t \in Tab, HearsNewer(t)
  PROVE  ShownInv'
<1> DEFINE s == [tab[t] EXCEPT !.isReloading = TRUE, !.leaving = TRUE]
<1>1. /\ inbox[t] # <<>> /\ tab[t].phase = "loaded" /\ inbox' = [inbox EXCEPT ![t] = Tail(@)]
      /\ tab' = [tab EXCEPT ![t].isReloading = TRUE, ![t].leaving = TRUE]
      /\ lost' = lost \cup GivenUp(t, idb) /\ UNCHANGED <<idb, latest>>
  BY DEF HearsNewer
<1>2. tab[t] \in Pages(edits) /\ tab \in [Tab -> Pages(edits)] BY PageIs, BoundsIs
<1>3. tab' = [tab EXCEPT ![t] = s] /\ tab'[t] = s BY <1>1, <1>2
<1>4. /\ s.version = tab[t].version /\ s.unheard = tab[t].unheard /\ s.queue = tab[t].queue /\ s.store = tab[t].store
      /\ s.phase = "loaded" /\ s.isReloading
  BY <1>1, <1>2 DEF Pages
<1>5. inbox'[t] = Tail(inbox[t]) BY <1>1 DEF TypeInv, InboxOK
<1> HIDE DEF s
<1>6. ASSUME NEW r \in Record \ lost', PairOK(t, r) PROVE PairOK(t, r)'
  <2>1. Told(t, r) /\ latest'[r] = latest[r] BY <1>1, <1>6 DEF PairOK
  <2>2. Told(t, r)' /\ (r \in UnderWay(t)' => r \in UnderWay(t)) BY <1>1, <1>3, <1>4, <1>5, <2>1, TakesHead
  <2>3. Shown(t, r)' /\ Waits(t, r)' BY <1>3, <1>4 DEF Shown, Waits
  <2>4. Owned(t, r)' BY <1>3, <1>4, <1>6, <2>1, <2>2 DEF PairOK, Owned
  <2>5. Writing(t, r)' => Writing(t, r) BY <1>1, WritingIs
  <2>6. InFlight(t, r)' BY <1>1, <1>3, <1>4, <1>6, <2>1, <2>2, <2>5 DEF PairOK, InFlight
  <2>7. QED BY <2>2, <2>3, <2>4, <2>6 DEF PairOK
<1>7. QED BY <1>1, <1>3, <1>4, <1>6, TakesShown

LEMMA HearsSameShown ==
  ASSUME TypeInv, ShownInv, NEW t \in Tab, HearsSame(t)
  PROVE  ShownInv'
<1> DEFINE m == Head(inbox[t])
<1>1. /\ inbox[t] # <<>> /\ tab[t].phase = "loaded" /\ inbox' = [inbox EXCEPT ![t] = Tail(@)]
      /\ m.version = tab[t].version /\ UNCHANGED <<idb, latest, lost>>
  BY DEF HearsSame, ghosts
<1>2. PICK s \in Pages(edits) :
        /\ tab' = [tab EXCEPT ![t] = s] /\ PageOK(s) /\ s.phase = "loaded" /\ s.version = tab[t].version
        /\ \A r \in Record : s.store[r] = IF r \in DOMAIN m.changes THEN m.changes[r] ELSE tab[t].store[r]
        /\ s.unheard = tab[t].unheard /\ s.isReloading = tab[t].isReloading
        /\ SameWork(tab[t], s) /\ s.isPersisting = tab[t].isPersisting
  BY HearsSameIs
<1>3. tab'[t] = s /\ tab[t].version \in Nat BY <1>2, BoundsIs, PageIs
<1>4. inbox'[t] = Tail(inbox[t]) BY <1>1 DEF TypeInv, InboxOK
<1>5. s.queue = tab[t].queue BY <1>2 DEF SameWork
<1> HIDE DEF m
<1>6. ASSUME NEW r \in Record \ lost', PairOK(t, r) PROVE PairOK(t, r)'
  <2>1. Told(t, r) /\ latest'[r] = latest[r] BY <1>1, <1>6 DEF PairOK
  <2>2. /\ Told(t, r)' /\ (r \in UnderWay(t)' => r \in UnderWay(t))
        /\ r \in UnderWay(t) => r \in UnderWay(t)' \/ Tells(m, tab[t].version, r)
        /\ Tells(m, tab[t].version, r) /\ r \notin UnderWay(t)' => m.changes[r] = latest[r] \/ m.version > tab[t].version
    BY <1>1, <1>2, <1>4, <2>1, TakesHead DEF m
  <2>3. r \in DOMAIN m.changes <=> Tells(m, tab[t].version, r) BY <1>1, <1>3 DEF Tells
  <2>4. ~(m.version > tab[t].version) BY <1>1, <1>3
  <2>5. r \in DOMAIN m.changes => r \in UnderWay(t)
    <3>1. inbox[t] \in Seq(Messages(edits)) BY PageIs
    <3>2. Tells(m, tab[t].version, r) => Coming(inbox[t], tab[t].version, r) BY <1>1, <3>1, ComingTail DEF m
    <3>3. QED BY <2>3, <3>2, UnderIs
  <2>6. s.store[r] = IF r \in DOMAIN m.changes THEN m.changes[r] ELSE tab[t].store[r] BY <1>2, <1>6
  <2>7. Shown(t, r)' BY <1>1, <1>2, <1>3, <1>6, <2>1, <2>2, <2>3, <2>4, <2>5, <2>6 DEF PairOK, Shown
  <2>8. Owned(t, r)' BY <1>2, <1>3, <1>5, <1>6, <2>1, <2>2, <2>5, <2>6 DEF PairOK, Owned
  <2>9. Waits(t, r)' BY <1>2, <1>3 DEF Waits
  <2>10. Writing(t, r)' => Writing(t, r) BY <1>1, WritingIs
  <2>11. InFlight(t, r)' BY <1>1, <1>2, <1>3, <1>6, <2>1, <2>2, <2>5, <2>6, <2>10 DEF PairOK, InFlight
  <2>12. QED BY <2>2, <2>7, <2>8, <2>9, <2>11 DEF PairOK
<1>7. QED BY <1>1, <1>2, <1>6, TakesShown

LEMMA HearsOlderShown ==
  ASSUME TypeInv, ShownInv, NEW t \in Tab, HearsOlder(t)
  PROVE  ShownInv'
<1> DEFINE p == [tab[t] EXCEPT !.shouldDoFullDBWrite = TRUE]
           s == persistIfNeeded(p)
           m == announce(tab[t].version)
<1>1. /\ inbox[t] # <<>> /\ tab[t].phase = "loaded" /\ inbox' = [posted(t, m) EXCEPT ![t] = Tail(@)]
      /\ tab' = [tab EXCEPT ![t] = s] /\ idb' = idb \o writes(t, p)
      /\ UnderWay(t) \subseteq lost' /\ lost \subseteq lost' /\ UNCHANGED latest
  BY DEF HearsOlder
<1>2. tab[t] \in Pages(edits) /\ edits \in Nat /\ idb \in Seq(Transactions(edits)) /\ tab[t].version \in Nat
  BY PageIs, BoundsIs
<1>3. /\ p \in Pages(edits) /\ SameFace(tab[t], p) /\ p.phase = "loaded" /\ p.queue = tab[t].queue /\ p.shouldDoFullDBWrite
  BY <1>1, <1>2 DEF Pages, SameFace
<1> HIDE DEF p
<1>4. SameFace(p, s) /\ s.phase = "loaded" /\ (s.queue = p.queue \/ s.queue = NoChanges)
  <2>1. /\ SameFace(p, s) /\ s.phase = p.phase
        /\ Persists(p) => NoWork(s)
        /\ ~Persists(p) => SameWork(p, s)
    BY <1>2, <1>3, PersistIs
  <2>2. QED BY <1>3, <2>1 DEF NoWork, SameWork
<1>5. SameFace(tab[t], s) /\ (s.queue = tab[t].queue \/ s.queue = NoChanges) BY <1>3, <1>4 DEF SameFace
<1> HIDE DEF s
<1>6. tab'[t] = s BY <1>1, BoundsIs
<1>7. /\ inbox'[t] = Tail(inbox[t])
      /\ \A u \in Tab \ {t} : inbox'[u] = posted(t, m)[u]
  <2>1. posted(t, m) = [u \in Tab |-> posted(t, m)[u]] BY DEF posted
  <2>2. posted(t, m)[t] = inbox[t] BY PostedIs
  <2>3. QED BY <1>1, <2>1, <2>2
<1>8. /\ \A u \in Tab \ {t} : inbox'[u] = IF tab[u].phase \in {"loading", "loaded"} THEN Append(inbox[u], m) ELSE inbox[u]
      /\ \A u \in Tab \ {t} : tab[u].phase \notin {"loading", "loaded"} => inbox'[u] = <<>>
  BY <1>7, PostedPassive
<1>9. m \in Messages(edits) /\ m.changes = NoChanges BY <1>2, MessageIs
<1>10. \A u \in Tab \ {t} : \A r \in Record \ lost' : Passive(t, s, u, r)
  BY <1>5, <1>8, <1>9 DEF Passive, SameFace
<1>11. ASSUME NEW u \in Tab, NEW r \in Record, Writing(u, r)'
       PROVE  Writing(u, r) \/ (u = t /\ tab[t].store[r] = latest[r])
  <2>1. HasWrite(idb \o writes(t, p), u, r, latest[r]) BY <1>1, <1>11, WritingIs
  <2>2. HasWrite(idb, u, r, latest[r]) \/ (u = t /\ Writes(p, r, latest[r])) BY <1>2, <1>3, <2>1, HasWrites
  <2>3. QED BY <1>3, <2>2, WritingIs DEF Writes, SameFace
<1>12. \A u \in Tab \ {t} : \A r \in Record : Writing(u, r)' => Writing(u, r) BY <1>11
<1>13. ASSUME NEW r \in Record \ lost', PairOK(t, r) PROVE PairOK(t, r)'
  <2>1. Told(t, r) /\ latest'[r] = latest[r] /\ s.version = tab[t].version BY <1>1, <1>5, <1>13 DEF PairOK, SameFace
  <2>2. Told(t, r)' /\ (r \in UnderWay(t)' => r \in UnderWay(t)) BY <1>1, <1>7, <2>1, TakesHead
  <2>3. r \notin UnderWay(t) /\ r \notin UnderWay(t)' BY <1>1, <2>2
  <2>4. Shown(t, r)' BY <1>1, <1>5, <1>6, <1>13, <2>1, <2>3 DEF PairOK, Shown, SameFace
  <2>5. Owned(t, r)' BY <1>5, <1>6, <1>13, <2>1, <2>3, DiffIs DEF PairOK, Owned, SameFace
  <2>6. Waits(t, r)' BY <1>4, <1>6 DEF Waits
  <2>7. InFlight(t, r)' BY <1>1, <1>5, <1>6, <1>11, <1>13, <2>1, <2>3 DEF PairOK, InFlight, SameFace
  <2>8. QED BY <2>2, <2>4, <2>5, <2>6, <2>7 DEF PairOK
<1>14. QED BY <1>1, <1>8, <1>10, <1>12, <1>13, OthersShown

LEMMA PersistTimerShown ==
  ASSUME TypeInv, ShownInv, NEW t \in Tab, PersistTimer(t)
  PROVE  ShownInv'
<1>1. QED BY PersistsShown DEF PersistTimer

LEMMA HideShown ==
  ASSUME TypeInv, ShownInv, NEW t \in Tab, Hide(t)
  PROVE  ShownInv'
<1>1. QED BY PersistsShown DEF Hide

LEMMA CloseUnloadedShown ==
  ASSUME TypeInv, TypeInv', ShownInv, NEW t \in Tab, CloseUnloaded(t)
  PROVE  ShownInv'
<1>1. /\ tab[t].phase = "loading" /\ tab' = [tab EXCEPT ![t] = NoTab] /\ inbox' = [inbox EXCEPT ![t] = <<>>]
      /\ idb' = orphaned(t, idb, FALSE) /\ UNCHANGED <<latest, lost>>
  BY DEF CloseUnloaded, ghosts
<1>2. \A u \in Tab : inbox'[u] = IF u = t THEN <<>> ELSE inbox[u] BY <1>1 DEF TypeInv, InboxOK
<1>3. DOMAIN tab[t].unheard = {} BY <1>1, PageIs, DiffIs DEF PageOK
<1>4. ASSUME NEW u \in Tab \ {t}, NEW r \in Record, Writing(u, r)' PROVE Writing(u, r)
  <2>1. HasWrite(orphaned(t, idb, FALSE), u, r, latest[r]) BY <1>1, <1>4, WritingIs
  <2>2. idb \in Seq(Transactions(edits)) BY BoundsIs
  <2>3. HasWrite(idb, u, r, latest[r]) BY <2>1, <2>2, HasOrphaned
  <2>4. QED BY <2>3, WritingIs
<1>5. DOMAIN tab[t].unheard \subseteq lost' BY <1>3
<1>6. \A u \in Tab \ {t} : \A r \in Record : Writing(u, r)' => Writing(u, r) BY <1>4
<1>7. QED BY <1>1, <1>2, <1>5, <1>6, GoneShown

LEMMA UnloadShown ==
  ASSUME TypeInv, TypeInv', ShownInv, NEW t \in Tab, Unload(t)
  PROVE  ShownInv'
<1>1. /\ tab' = [tab EXCEPT ![t] = NoTab] /\ inbox' = [inbox EXCEPT ![t] = <<>>]
      /\ DOMAIN tab[t].unheard \subseteq lost' /\ lost \subseteq lost' /\ UNCHANGED latest
  BY DEF Unload, die
<1>2. \A u \in Tab : inbox'[u] = IF u = t THEN <<>> ELSE inbox[u] BY <1>1 DEF TypeInv, InboxOK
<1>3. PICK q \in Seq(Transactions(edits)), l \in BOOLEAN :
        q = (IF tab[t].phase = "loading" THEN idb ELSE idb \o writes(t, tab[t])) /\ idb' = orphaned(t, q, l)
  BY UnloadIs
<1>4. ASSUME NEW u \in Tab \ {t}, NEW r \in Record, Writing(u, r)' PROVE Writing(u, r)
  <2>1. HasWrite(orphaned(t, q, l), u, r, latest[r]) BY <1>1, <1>3, <1>4, WritingIs
  <2>2. HasWrite(q, u, r, latest[r]) BY <2>1, HasOrphaned
  <2>3. tab[t] \in Pages(edits) /\ edits \in Nat /\ idb \in Seq(Transactions(edits)) BY PageIs, BoundsIs
  <2>4. HasWrite(idb \o writes(t, tab[t]), u, r, latest[r]) => HasWrite(idb, u, r, latest[r])
    BY <2>3, HasWrites
  <2>5. QED BY <1>3, <2>2, <2>4, WritingIs
<1>5. \A u \in Tab \ {t} : \A r \in Record : Writing(u, r)' => Writing(u, r) BY <1>4
<1>6. QED BY <1>1, <1>2, <1>5, GoneShown

LEMMA CloseShown ==
  ASSUME TypeInv, TypeInv', ShownInv, NEW t \in Tab, Close(t)
  PROVE  ShownInv'
<1> DEFINE h == heard(tab[t])
           s == flushAndDispose(h)
           m == diff(tab[t].version, tab[t].unheard)
<1>1. /\ tab[t].phase = "loaded" /\ UpToDate(t) /\ idb' = idb \o writes(t, h)
      /\ inbox' = (IF tab[t].unheard = NoChanges THEN inbox ELSE posted(t, m))
      /\ UNCHANGED <<latest, lost>>
  BY DEF Close, ghosts
<1>2. /\ h \in Pages(edits) /\ Flushed(h, s) /\ s.phase \in {"closing", "flushing", "closed"}
      /\ tab' = [tab EXCEPT ![t] = s]
  BY CloseIs
<1>3. tab[t] \in Pages(edits) /\ edits \in Nat /\ idb \in Seq(Transactions(edits)) BY PageIs, BoundsIs
<1>4. /\ h.unheard = NoChanges /\ h.version = tab[t].version /\ h.store = tab[t].store
      /\ h.isReloading = tab[t].isReloading /\ h.queue = Over(tab[t].unheard, tab[t].queue)
  BY <1>3, HeardIs
<1> HIDE DEF h, s
<1>5. /\ DOMAIN h.queue = DOMAIN tab[t].unheard \cup DOMAIN tab[t].queue
      /\ \A x \in DOMAIN h.queue : h.queue[x] = IF x \in DOMAIN tab[t].unheard THEN tab[t].unheard[x] ELSE tab[t].queue[x]
  <2>1. tab[t] \in Pages(edits) BY PageIs
  <2>2. edits \in Nat BY PageIs
  <2>3. QED BY <2>1, <2>2, HeardQueue DEF h
<1>6. tab'[t] = s BY <1>2, BoundsIs
<1>7. \/ SameFace(h, s) /\ s.phase \in {"closing", "flushing"} /\ (s.queue = h.queue \/ s.queue = NoChanges)
      \/ s = NoTab
  BY <1>2 DEF Flushed, SameWork, NoWork
<1>8. s.unheard = NoChanges BY <1>3, <1>4, <1>7, NoTabIs DEF SameFace
<1>9. inbox[t] = <<>> /\ inbox'[t] = <<>> BY <1>1, PostedIs DEF UpToDate
<1>10. /\ \A u \in Tab \ {t} : tab[u].phase \notin {"loading", "loaded"} => inbox'[u] = <<>>
       /\ \A u \in Tab \ {t} : \A r \in Record \ lost' : Passive(t, s, u, r)
  <2>1. CASE tab[t].unheard = NoChanges
    <3>1. inbox' = inbox /\ DOMAIN tab[t].unheard = {} BY <1>1, <2>1, DiffIs
    <3>2. QED BY <1>8, <3>1 DEF Passive, TypeInv, InboxOK
  <2>2. CASE tab[t].unheard # NoChanges
    <3>1. \A u \in Tab \ {t} : inbox'[u] = posted(t, m)[u] BY <1>1, <2>2
    <3>2. /\ \A u \in Tab \ {t} : inbox'[u] = IF tab[u].phase \in {"loading", "loaded"} THEN Append(inbox[u], m) ELSE inbox[u]
          /\ \A u \in Tab \ {t} : tab[u].phase \notin {"loading", "loaded"} => inbox'[u] = <<>>
      BY <3>1, PostedPassive
    <3>3. QED BY <1>8, <3>2 DEF Passive
  <2>3. QED BY <2>1, <2>2
<1>11. ASSUME NEW u \in Tab, NEW r \in Record, Writing(u, r)'
       PROVE  Writing(u, r) \/ (u = t /\ Writes(h, r, latest[r]))
  <2>1. HasWrite(idb \o writes(t, h), u, r, latest[r]) BY <1>1, <1>11, WritingIs
  <2>2. HasWrite(idb, u, r, latest[r]) \/ (u = t /\ Writes(h, r, latest[r])) BY <1>2, <1>3, <2>1, HasWrites
  <2>3. QED BY <2>2, WritingIs
<1>12. \A u \in Tab \ {t} : \A r \in Record : Writing(u, r)' => Writing(u, r) BY <1>11
<1>13. ASSUME NEW r \in Record \ lost', PairOK(t, r) PROVE PairOK(t, r)'
  <2>1. CASE s = NoTab
    <3>1. idb' \in Seq(Transactions(edits')) /\ QueueOK(idb', tab') BY DEF TypeInv
    <3>2. ~tab'[t].isPersisting BY <1>6, <2>1 DEF NoTab
    <3>3. ~HasWrite(idb', t, r, latest'[r]) BY <3>1, <3>2, NotWriting
    <3>4. ~Writing(t, r)' BY <3>3, WritingIs
    <3>5. tab' = [tab EXCEPT ![t] = NoTab] BY <1>2, <2>1
    <3>6. QED BY <1>9, <3>4, <3>5, OwnGone
  <2>2. CASE SameFace(h, s) /\ s.phase \in {"closing", "flushing"} /\ (s.queue = h.queue \/ s.queue = NoChanges)
    <3>1. s.version = tab[t].version /\ s.store = tab[t].store /\ s.isReloading = tab[t].isReloading
      BY <1>4, <2>2 DEF SameFace
    <3>2. r \notin UnderWay(t) BY <1>1, UpToDateIs
    <3>3. r \notin UnderWay(t)' BY <1>2, <1>9, <3>1, <3>2, OwnUnder
    <3>4. Shown(t, r)' BY <1>6, <2>2 DEF Shown
    <3>5. Told(t, r)'
      <4>1. ~Coming(inbox'[t], tab'[t].version, r) BY <1>9 DEF Coming
      <4>2. Ends(inbox'[t], tab'[t].version, r, latest'[r]) BY <4>1, EndsNone
      <4>3. QED BY <4>2 DEF Told
    <3>6. r \in DOMAIN h.queue => h.queue[r] = latest[r] /\ tab[t].store[r] = latest[r]
      BY <1>5, <1>13 DEF PairOK, Owned
    <3>7. Owned(t, r)'
      <4>1. r \notin DOMAIN s.unheard /\ (r \in DOMAIN s.queue => r \in DOMAIN h.queue /\ s.queue = h.queue)
        BY <1>8, <2>2, DiffIs
      <4>2. QED BY <1>1, <1>6, <3>1, <3>3, <3>6, <4>1 DEF Owned
    <3>8. Waits(t, r)' BY <1>1, <1>6, <1>13, <3>1, <3>2 DEF PairOK, Shown, Waits
    <3>9. InFlight(t, r)'
      <4>1. Writing(t, r)' => Writing(t, r) \/ Writes(h, r, latest[r]) BY <1>11
      <4>2. Writes(h, r, latest[r]) => tab[t].store[r] = latest[r] BY <1>4, <3>6 DEF Writes
      <4>3. QED BY <1>1, <1>6, <1>13, <2>2, <3>1, <4>1, <4>2 DEF PairOK, InFlight
    <3>10. QED BY <3>4, <3>5, <3>7, <3>8, <3>9 DEF PairOK
  <2>3. QED BY <1>7, <2>1, <2>2
<1>14. QED BY <1>1, <1>2, <1>10, <1>12, <1>13, OthersShown

LEMMA EditShown ==
  ASSUME TypeInv, ShownInv, NEW t \in Tab, NEW e \in Record, Edit(t, e)
  PROVE  ShownInv'
<1>1. /\ tab[t].phase = "loaded" /\ UpToDate(t) /\ UNCHANGED <<inbox, idb>>
      /\ \A u \in Tab \ {t} : e \notin DOMAIN tab[u].queue /\ tab[u].phase # "closing"
      /\ edits' = edits + 1 /\ latest' = [latest EXCEPT ![e] = edits']
      /\ lost' = IF tab[t].isReloading \/ \E u \in Tab : tab[u].version > tab[t].version THEN lost \cup {e} ELSE lost \ {e}
  BY DEF Edit
<1>2. PICK s \in Pages(edits') :
        /\ tab' = [tab EXCEPT ![t] = s] /\ s.phase = "loaded" /\ s.version = tab[t].version
        /\ s.store = [tab[t].store EXCEPT ![e] = edits']
        /\ DOMAIN s.unheard = DOMAIN tab[t].unheard \cup {e} /\ s.unheard[e] = edits'
        /\ \A x \in DOMAIN tab[t].unheard : x # e => s.unheard[x] = tab[t].unheard[x]
        /\ SameWork(tab[t], s) /\ s.isReloading = tab[t].isReloading
  BY EditIs
<1>3. tab'[t] = s /\ \A u \in Tab \ {t} : tab'[u] = tab[u] BY <1>2, BoundsIs
<1>4. /\ tab[t].store \in [Record -> 0 .. edits] /\ latest \in [Record -> 0 .. edits] /\ edits \in Nat
      /\ \A u \in Tab : tab[u].version \in Nat
  BY PageIs, BoundsIs
<1>5. s.queue = tab[t].queue BY <1>2 DEF SameWork
<1>6. inbox[t] = <<>> /\ \A u \in Tab \ {t} : DOMAIN tab[u].unheard = {} BY <1>1, DiffIs DEF UpToDate
<1>7. SUFFICES ASSUME NEW u \in Tab, NEW r \in Record, r \notin lost' PROVE PairOK(u, r)'
  BY DEF ShownInv
<1>8. (Elsewhere(t, r)' <=> Elsewhere(t, r)) /\ (r \in UnderWay(t)' <=> r \in UnderWay(t))
  BY <1>1, <1>2, OwnUnder
<1>9. r \notin UnderWay(t) BY <1>1, UpToDateIs
<1>10. CASE r # e
  <2>1. r \notin lost /\ latest'[r] = latest[r] /\ s.store[r] = tab[t].store[r] BY <1>1, <1>2, <1>4, <1>7, <1>10
  <2>2. PairOK(u, r) /\ PairOK(t, r) /\ Owned(t, r) BY <1>7, <2>1 DEF ShownInv, PairOK
  <2>3. \A w \in Tab : Writing(w, r)' <=> Writing(w, r) BY <1>1, <2>1, WritingIs
  <2>4. CASE u = t
    <3>1. Shown(t, r)' BY <1>1, <1>2, <1>3, <1>8, <2>1, <2>2 DEF PairOK, Shown
    <3>2. Told(t, r)' BY <1>1, <1>2, <1>3, <1>8, <2>1, <2>2 DEF PairOK, Told
    <3>3. Owned(t, r)' BY <1>2, <1>3, <1>5, <1>8, <1>10, <2>1, <2>2 DEF PairOK, Owned
    <3>4. Waits(t, r)' BY <1>2, <1>3 DEF Waits
    <3>5. InFlight(t, r)' BY <1>1, <1>2, <1>3, <1>8, <2>1, <2>2, <2>3 DEF PairOK, InFlight
    <3>6. QED BY <2>4, <3>1, <3>2, <3>3, <3>4, <3>5 DEF PairOK
  <2>5. CASE u # t
    <3>1. u \in Tab \ {t} BY <2>5
    <3>2. Passive(t, s, u, r) BY <1>1, <1>2, <1>10 DEF Passive
    <3>3. tab[u].phase \notin {"loading", "loaded"} => inbox'[u] = <<>> BY <1>1 DEF TypeInv, InboxOK
    <3>4. Writing(u, r)' => Writing(u, r) BY <2>3
    <3>5. QED BY <1>2, <2>1, <2>2, <3>1, <3>2, <3>3, <3>4, OtherKept
  <2>6. QED BY <2>4, <2>5
<1>11. CASE r = e
  <2>1. /\ ~tab[t].isReloading /\ \A w \in Tab : tab[w].version <= tab[t].version BY <1>1, <1>4, <1>7, <1>11
  <2>2. latest'[r] = edits' /\ s.store[r] = edits' BY <1>1, <1>2, <1>4, <1>11
  <2>3. CASE u = t
    <3>1. Shown(t, r)' BY <1>3, <2>2 DEF Shown
    <3>2. Told(t, r)'
      <4>1. ~Coming(inbox'[t], tab'[t].version, r) BY <1>1, <1>6 DEF Coming
      <4>2. Ends(inbox'[t], tab'[t].version, r, latest'[r]) BY <4>1, EndsNone
      <4>3. QED BY <4>2 DEF Told
    <3>3. Owned(t, r)' BY <1>2, <1>3, <1>8, <1>9, <1>11, <2>2 DEF Owned
    <3>4. Waits(t, r)' BY <1>2, <1>3 DEF Waits
    <3>5. InFlight(t, r)' BY <1>3, <1>8, <1>9, <2>2 DEF InFlight
    <3>6. QED BY <2>3, <3>1, <3>2, <3>3, <3>4, <3>5 DEF PairOK
  <2>4. CASE u # t
    <3>1. u \in Tab \ {t} /\ tab'[u] = tab[u] BY <1>3, <2>4
    <3>2. Elsewhere(u, r)'
      <4>1. t \in Tab \ {u} /\ s.version >= tab[u].version /\ r \in DOMAIN s.unheard BY <1>2, <1>4, <1>11, <2>1, <2>4
      <4>2. QED BY <1>3, <3>1, <4>1 DEF Elsewhere
    <3>3. r \in UnderWay(u)' BY <3>2 DEF Elsewhere, UnderWay
    <3>4. Shown(u, r)' /\ Told(u, r)' BY <3>2, <3>3 DEF Shown, Told
    <3>5. Owned(u, r)' /\ Waits(u, r)' BY <1>1, <1>6, <1>11, <3>1 DEF Owned, Waits
    <3>6. InFlight(u, r)'
      <4>1. SUFFICES ASSUME NEW i \in DOMAIN idb, r \in DOMAIN idb[i].data, idb[i].data[r] = edits' PROVE FALSE
        BY <1>1, <2>2 DEF InFlight, Writing
      <4>2. idb[i].data \in Diffs(edits)
        <5>1. idb[i] \in Transactions(edits) BY BoundsIs
        <5>2. QED BY <5>1 DEF Transactions
      <4>3. idb[i].data[r] \in 0 .. edits BY <4>1, <4>2, DiffIs
      <4>4. QED BY <1>1, <1>4, <4>1, <4>3
    <3>7. QED BY <3>4, <3>5, <3>6 DEF PairOK
  <2>5. QED BY <2>3, <2>4
<1>12. QED BY <1>10, <1>11

LEMMA InitShown == Init => ShownInv
<1>1. SUFFICES ASSUME Init, NEW t \in Tab, NEW r \in Record PROVE PairOK(t, r)
  BY DEF ShownInv
<1>2. tab[t] = NoTab /\ inbox[t] = <<>> /\ idb = <<>> BY <1>1 DEF Init
<1>3. NoTab.phase = "closed" /\ NoTab.unheard = NoChanges /\ NoTab.queue = NoChanges /\ DOMAIN NoChanges = {}
  BY NoTabIs, DiffIs
<1>4. Shown(t, r) /\ Owned(t, r) /\ Waits(t, r) BY <1>2, <1>3 DEF Shown, Owned, Waits
<1>5. Told(t, r)
  <2>1. ~Coming(inbox[t], tab[t].version, r) BY <1>2 DEF Coming
  <2>2. Ends(inbox[t], tab[t].version, r, latest[r]) BY <2>1, EndsNone
  <2>3. QED BY <2>2 DEF Told
<1>6. InFlight(t, r) BY <1>2 DEF InFlight, Writing
<1>7. QED BY <1>4, <1>5, <1>6 DEF PairOK

LEMMA NextShown == TypeInv /\ TypeInv' /\ ShownInv /\ [Next]_vars => ShownInv'
<1> SUFFICES ASSUME TypeInv, TypeInv', ShownInv, [Next]_vars PROVE ShownInv'
  OBVIOUS
<1>1. CASE Database BY <1>1, CommitsShown, ReadsShown DEF Database
<1>2. CASE Fails BY <1>2, FailsShown
<1>3. CASE Release BY <1>3, ReleaseShown
<1>4. ASSUME NEW t \in Tab, TabStep(t) PROVE ShownInv'
  <2>1. CASE Loads(t) BY <2>1, LoadsShown
  <2>2. CASE Report(t) BY <2>2, ReportShown
  <2>3. CASE PersistTimer(t) BY <2>3, PersistTimerShown
  <2>4. CASE Hears(t)
    <3>1. CASE Ignores(t) BY <3>1, IgnoresShown
    <3>2. CASE HearsNewer(t) BY <3>2, HearsNewerShown
    <3>3. CASE HearsOlder(t) BY <3>3, HearsOlderShown
    <3>4. CASE HearsSame(t) BY <3>4, HearsSameShown
    <3>5. QED BY <2>4, <3>1, <3>2, <3>3, <3>4 DEF Hears
  <2>5. QED BY <1>4, <2>1, <2>2, <2>3, <2>4 DEF TabStep
<1>5. ASSUME NEW t \in Tab, PersonStep(t) PROVE ShownInv'
  <2>1. CASE Open(t) BY <2>1, OpenShown
  <2>2. CASE Close(t) BY <2>2, CloseShown
  <2>3. CASE CloseUnloaded(t) BY <2>3, CloseUnloadedShown
  <2>4. CASE Unload(t) BY <2>4, UnloadShown
  <2>5. CASE Hide(t) BY <2>5, HideShown
  <2>6. CASE SessionChanges(t) BY <2>6, SessionChangesShown
  <2>7. ASSUME NEW r \in Record, Edit(t, r) PROVE ShownInv'
    BY <2>7, EditShown
  <2>8. QED BY <1>5, <2>1, <2>2, <2>3, <2>4, <2>5, <2>6, <2>7 DEF PersonStep
<1>6. CASE UNCHANGED vars
  <2>1. UNCHANGED <<tab, inbox, idb, latest, lost>> BY <1>6 DEF vars
  <2>2. QED BY <2>1 DEF ShownInv, PairOK, Shown, Told, Owned, Waits, InFlight, UnderWay, Elsewhere, Writing
<1>7. QED BY <1>1, <1>2, <1>3, <1>4, <1>5, <1>6 DEF Next

LEMMA ShownImplies == ShownInv => TabsAgree
<1>1. SUFFICES ASSUME ShownInv, NEW t \in Tab, NEW u \in Tab,
                      tab[t].phase = "loaded", tab[u].phase = "loaded", ~tab[t].isReloading, ~tab[u].isReloading,
                      NEW r \in Record, r \notin lost, r \notin UnderWay(t), r \notin UnderWay(u)
               PROVE  tab[t].store[r] = tab[u].store[r]
  BY DEF TabsAgree
<1>2. Shown(t, r) /\ Shown(u, r) BY <1>1 DEF ShownInv, PairOK
<1>3. QED BY <1>1, <1>2 DEF Shown

\* Tabs of one release with nothing left to hear show the same document: with
\* messages on their way, edits not yet reported, pages opening, reloading and
\* closing, however many tabs and records there are (connect,
\* TLLocalSyncClient.ts:177-282).
THEOREM LocalTabsAgree == Spec => []TabsAgree
<1>1. Init => TypeInv /\ ShownInv BY InitTypes, InitShown
<1>2. TypeInv /\ ShownInv /\ [Next]_vars => (TypeInv /\ ShownInv)' BY NextTypes, NextShown
<1>3. TypeInv /\ ShownInv => TabsAgree BY ShownImplies
<1>4. QED BY <1>1, <1>2, <1>3, PTL DEF Spec

-----------------------------------------------------------------------------
(* Every edit is accounted for.                                            *)

\* t will still write the last edit of r: it is in what t has not reported, in
\* its queue, or in a store that is to be written as a whole and that nothing
\* under way is to overwrite.
Held(t, r) ==
  /\ ~tab[t].isReloading
  /\ \/ r \in DOMAIN tab[t].unheard /\ tab[t].unheard[r] = latest[r]
     \/ r \in DOMAIN tab[t].queue /\ tab[t].queue[r] = latest[r]
     \/ /\ tab[t].phase \notin {"closed", "loading"}
        /\ tab[t].shouldDoFullDBWrite /\ tab[t].store[r] = latest[r]
        /\ tab[t].phase = "loaded" => r \notin UnderWay(t)

Safe(r) == Stored(r, idb) = latest[r]

HeldInv == \A r \in Record \ lost : Safe(r) \/ \E t \in Tab : Held(t, r)

LEMMA HeldIsPending ==
  ASSUME NEW t \in Tab, NEW r \in Record, Held(t, r)
  PROVE  Pending(t, r)
<1>1. QED BY DEF Held, Pending

LEMMA StoredHolds ==
  ASSUME NEW r
  PROVE  /\ \A q : Stored(r, q) = StoredOn(disk, r, q)
         /\ Stored(r, idb)' = StoredOn(disk', r, idb')
<1>1. QED BY DEF Stored, StoredOn, Holding

\* What is stored of r once p's write has run too.
LEMMA StoredWrites ==
  ASSUME NEW n \in Nat, NEW q \in Seq(Transactions(n)), NEW t \in Tab, NEW p \in Pages(n), NEW d, NEW r \in Record
  PROVE  StoredOn(d, r, q \o writes(t, p)) =
           IF ~Persists(p) THEN StoredOn(d, r, q)
           ELSE IF p.shouldDoFullDBWrite THEN p.store[r]
           ELSE IF r \in DOMAIN p.queue THEN p.queue[r] ELSE StoredOn(d, r, q)
<1>1. CASE ~Persists(p)
  <2>1. writes(t, p) = <<>> BY <1>1, WritesIs
  <2>2. q \o writes(t, p) = q BY <2>1
  <2>3. QED BY <1>1, <2>2
<1>2. CASE Persists(p)
  <2>1. PICK w \in Transactions(n) : Written(t, p, w) /\ writes(t, p) = <<w>> BY <1>2, WritesIs
  <2>2. q \o writes(t, p) = Append(q, w) BY <2>1, AppendAt
  <2>3. StoredOn(d, r, Append(q, w)) = IF r \in DOMAIN w.data THEN w.data[r] ELSE StoredOn(d, r, q)
    BY <2>1, StoredAppend
  <2>4. w.data = IF p.shouldDoFullDBWrite THEN p.store ELSE p.queue BY <2>1 DEF Written
  <2>5. DOMAIN p.store = Record BY DEF Pages
  <2>6. QED BY <1>2, <2>2, <2>3, <2>4, <2>5
<1>3. QED BY <1>1, <1>2

\* Another tab goes on holding what it held.
LEMMA OtherHeld ==
  ASSUME TypeInv, NEW t \in Tab, NEW s, tab' = [tab EXCEPT ![t] = s], NEW u \in Tab \ {t}, NEW r \in Record,
         Passive(t, s, u, r), latest'[r] = latest[r], Held(u, r)
  PROVE  Held(u, r)'
<1>1. tab'[u] = tab[u] BY BoundsIs
<1>2. r \in UnderWay(u)' => r \in UnderWay(u) BY OtherUnder
<1>3. QED BY <1>1, <1>2 DEF Held

LEMMA OthersHeld ==
  ASSUME TypeInv, HeldInv, NEW t \in Tab, NEW s, tab' = [tab EXCEPT ![t] = s], UNCHANGED latest, lost \subseteq lost',
         \A u \in Tab \ {t} : \A r \in Record \ lost' : Passive(t, s, u, r),
         \A r \in Record \ lost' : Safe(r) \/ Held(t, r) => Safe(r)' \/ Held(t, r)'
  PROVE  HeldInv'
<1>1. SUFFICES ASSUME NEW r \in Record, r \notin lost' PROVE Safe(r)' \/ \E u \in Tab : Held(u, r)'
  BY DEF HeldInv
<1>2. Safe(r) \/ \E u \in Tab : Held(u, r) BY <1>1 DEF HeldInv
<1>3. CASE Safe(r) \/ Held(t, r) BY <1>1, <1>3
<1>4. ASSUME NEW u \in Tab \ {t}, Held(u, r) PROVE Held(u, r)'
  <2>1. Passive(t, s, u, r) BY <1>1
  <2>2. u \in Tab \ {t} /\ latest'[r] = latest[r] BY <1>4
  <2>3. QED BY <1>4, <2>1, <2>2, OtherHeld
<1>5. QED BY <1>2, <1>3, <1>4

\* A step of t's that the others do not see.
LEMMA AloneHeld ==
  ASSUME TypeInv, HeldInv, NEW t \in Tab, NEW s, tab' = [tab EXCEPT ![t] = s], UNCHANGED latest, lost \subseteq lost',
         \/ s.version = tab[t].version /\ s.unheard = tab[t].unheard
         \/ s.unheard = NoChanges /\ DOMAIN tab[t].unheard \subseteq lost',
         \A u \in Tab \ {t} : inbox'[u] = inbox[u],
         \A r \in Record \ lost' : Safe(r) \/ Held(t, r) => Safe(r)' \/ Held(t, r)'
  PROVE  HeldInv'
<1>1. \A u \in Tab \ {t} : \A r \in Record \ lost' : Passive(t, s, u, r) BY DEF Passive
<1>2. QED BY <1>1, OthersHeld

\* The database is left alone.
LEMMA SafeKept ==
  ASSUME UNCHANGED <<disk, idb, latest>>
  PROVE  \A r \in Record : Safe(r)' <=> Safe(r)
<1>1. QED BY DEF Safe, Stored

LEMMA LoadsHeld ==
  ASSUME TypeInv, HeldInv, NEW t \in Tab, Loads(t)
  PROVE  HeldInv'
<1> DEFINE s == [tab[t] EXCEPT !.phase = "loaded"]
           m == announce(tab[t].version)
<1>1. /\ tab[t].phase = "loading" /\ tab' = [tab EXCEPT ![t] = s] /\ inbox' = posted(t, m)
      /\ lost \subseteq lost' /\ UNCHANGED <<disk, idb, latest>>
  BY DEF Loads
<1>2. tab[t] \in Pages(edits) /\ PageOK(tab[t]) /\ DOMAIN NoChanges = {} BY PageIs, DiffIs
<1>3. m \in Messages(edits) /\ m.changes = NoChanges BY PageIs, MessageIs
<1>4. s.version = tab[t].version /\ s.unheard = tab[t].unheard BY <1>2 DEF Pages
<1> HIDE DEF s, m
<1>5. \A u \in Tab \ {t} : inbox'[u] = IF tab[u].phase \in {"loading", "loaded"} THEN Append(inbox[u], m) ELSE inbox[u]
  BY <1>1, PostedPassive
<1>6. \A u \in Tab \ {t} : \A r \in Record \ lost' : Passive(t, s, u, r) BY <1>3, <1>4, <1>5 DEF Passive
<1>7. \A r \in Record : ~Held(t, r) BY <1>1, <1>2 DEF Held, PageOK
<1>8. \A r \in Record : Safe(r)' <=> Safe(r) BY <1>1, SafeKept
<1>9. \A r \in Record \ lost' : Safe(r) \/ Held(t, r) => Safe(r)' \/ Held(t, r)' BY <1>7, <1>8
<1>10. QED BY <1>1, <1>6, <1>9, OthersHeld

LEMMA ReportHeld ==
  ASSUME TypeInv, ShownInv, HeldInv, NEW t \in Tab, Report(t)
  PROVE  HeldInv'
<1> DEFINE s == heard(tab[t])
           m == diff(tab[t].version, tab[t].unheard)
<1>1. /\ tab[t].phase = "loaded" /\ tab' = [tab EXCEPT ![t] = s] /\ inbox' = posted(t, m)
      /\ UNCHANGED <<disk, idb, latest, lost>>
  BY DEF Report, ghosts
<1>2. tab[t] \in Pages(edits) /\ edits \in Nat BY PageIs
<1>3. /\ s.unheard = NoChanges /\ s.phase = tab[t].phase /\ s.version = tab[t].version /\ s.store = tab[t].store
      /\ s.isReloading = tab[t].isReloading /\ s.queue = Over(tab[t].unheard, tab[t].queue)
      /\ s.shouldDoFullDBWrite = tab[t].shouldDoFullDBWrite
  BY <1>2, HeardIs
<1> HIDE DEF s
<1>4. /\ DOMAIN s.queue = DOMAIN tab[t].unheard \cup DOMAIN tab[t].queue
      /\ \A x \in DOMAIN s.queue : s.queue[x] = IF x \in DOMAIN tab[t].unheard THEN tab[t].unheard[x] ELSE tab[t].queue[x]
  <2>1. tab[t] \in Pages(edits) BY PageIs
  <2>2. edits \in Nat BY PageIs
  <2>3. QED BY <2>1, <2>2, HeardQueue DEF s
<1>5. tab'[t] = s /\ inbox'[t] = inbox[t] BY <1>1, BoundsIs, PostedIs
<1>6. \A u \in Tab \ {t} : inbox'[u] = IF tab[u].phase \in {"loading", "loaded"} THEN Append(inbox[u], m) ELSE inbox[u]
  BY <1>1, PostedPassive
<1>7. \A u \in Tab \ {t} : \A r \in Record \ lost' : Passive(t, s, u, r)
  BY <1>3, <1>6 DEF Passive
<1>8. \A r \in Record : Safe(r)' <=> Safe(r) BY <1>1, SafeKept
<1>9. ASSUME NEW r \in Record \ lost', Held(t, r) PROVE Held(t, r)'
  <2>1. Owned(t, r) BY <1>1 DEF ShownInv, PairOK
  <2>2. r \in UnderWay(t)' => r \in UnderWay(t) BY <1>1, <1>3, <1>5, OwnUnder
  <2>3. QED BY <1>1, <1>3, <1>4, <1>5, <1>9, <2>1, <2>2 DEF Held, Owned
<1>10. \A r \in Record \ lost' : Safe(r) \/ Held(t, r) => Safe(r)' \/ Held(t, r)' BY <1>8, <1>9
<1>11. QED BY <1>1, <1>7, <1>10, OthersHeld

LEMMA SessionChangesHeld ==
  ASSUME TypeInv, HeldInv, NEW t \in Tab, SessionChanges(t)
  PROVE  HeldInv'
<1> DEFINE s == [tab[t] EXCEPT !.queued = TRUE, !.timer = TRUE]
<1>1. /\ tab' = [tab EXCEPT ![t].queued = TRUE, ![t].timer = TRUE] /\ UNCHANGED <<inbox, disk, idb, latest, lost>>
  BY DEF SessionChanges, ghosts
<1>2. tab[t] \in Pages(edits) /\ tab \in [Tab -> Pages(edits)] BY PageIs, BoundsIs
<1>3. tab' = [tab EXCEPT ![t] = s] /\ tab'[t] = s BY <1>1, <1>2 DEF Pages
<1>4. /\ SameFace(tab[t], s) /\ s.phase = tab[t].phase /\ s.queue = tab[t].queue
      /\ s.shouldDoFullDBWrite = tab[t].shouldDoFullDBWrite
  BY <1>1, <1>2 DEF Pages, SameFace
<1> HIDE DEF s
<1>5. \A r \in Record : Safe(r)' <=> Safe(r) BY <1>1, SafeKept
<1>6. ASSUME NEW r \in Record \ lost', Held(t, r) PROVE Held(t, r)'
  <2>1. r \in UnderWay(t)' => r \in UnderWay(t) BY <1>1, <1>3, <1>4, OwnUnder DEF SameFace
  <2>2. QED BY <1>1, <1>3, <1>4, <1>6, <2>1 DEF Held, SameFace
<1>7. \A r \in Record \ lost' : Safe(r) \/ Held(t, r) => Safe(r)' \/ Held(t, r)' BY <1>5, <1>6
<1>8. QED BY <1>1, <1>3, <1>4, <1>7, AloneHeld DEF SameFace

LEMMA IgnoresHeld ==
  ASSUME TypeInv, HeldInv, NEW t \in Tab, Ignores(t)
  PROVE  HeldInv'
<1> DEFINE s == tab[t]
<1>1. /\ inbox[t] # <<>> /\ tab[t].phase # "loaded" /\ inbox' = [inbox EXCEPT ![t] = Tail(@)]
      /\ UNCHANGED <<tab, disk, idb, latest, lost>>
  BY DEF Ignores, ghosts
<1>2. tab' = [tab EXCEPT ![t] = s] BY <1>1, BoundsIs
<1>3. tab[t].phase = "loading" /\ PageOK(tab[t]) /\ DOMAIN NoChanges = {} BY <1>1, DiffIs DEF TypeInv, InboxOK
<1>4. \A r \in Record : ~Held(t, r) BY <1>3 DEF Held, PageOK
<1>5. \A r \in Record : Safe(r)' <=> Safe(r) BY <1>1, SafeKept
<1>6. \A u \in Tab \ {t} : inbox'[u] = inbox[u] BY <1>1 DEF TypeInv, InboxOK
<1>7. \A r \in Record \ lost' : Safe(r) \/ Held(t, r) => Safe(r)' \/ Held(t, r)' BY <1>4, <1>5
<1>8. QED BY <1>1, <1>2, <1>6, <1>7, AloneHeld

LEMMA HearsNewerHeld ==
  ASSUME TypeInv, HeldInv, NEW t \in Tab, HearsNewer(t)
  PROVE  HeldInv'
<1> DEFINE s == [tab[t] EXCEPT !.isReloading = TRUE, !.leaving = TRUE]
<1>1. /\ inbox' = [inbox EXCEPT ![t] = Tail(@)]
      /\ tab' = [tab EXCEPT ![t].isReloading = TRUE, ![t].leaving = TRUE]
      /\ lost' = lost \cup GivenUp(t, idb) /\ UNCHANGED <<disk, idb, latest>>
  BY DEF HearsNewer
<1>2. tab[t] \in Pages(edits) /\ tab \in [Tab -> Pages(edits)] BY PageIs, BoundsIs
<1>3. tab' = [tab EXCEPT ![t] = s] BY <1>1, <1>2
<1>4. s.version = tab[t].version /\ s.unheard = tab[t].unheard BY <1>2 DEF Pages
<1> HIDE DEF s
<1>5. \A r \in Record : Safe(r)' <=> Safe(r) BY <1>1, SafeKept
<1>6. ASSUME NEW r \in Record \ lost', Held(t, r) PROVE Safe(r)
  <2>1. Pending(t, r) BY <1>6, HeldIsPending
  <2>2. QED BY <1>1, <2>1 DEF GivenUp, Safe
<1>7. \A u \in Tab \ {t} : inbox'[u] = inbox[u] BY <1>1 DEF TypeInv, InboxOK
<1>8. \A r \in Record \ lost' : Safe(r) \/ Held(t, r) => Safe(r)' \/ Held(t, r)' BY <1>5, <1>6
<1>9. QED BY <1>1, <1>3, <1>4, <1>7, <1>8, AloneHeld

LEMMA HearsSameHeld ==
  ASSUME TypeInv, ShownInv, HeldInv, NEW t \in Tab, HearsSame(t)
  PROVE  HeldInv'
<1> DEFINE m == Head(inbox[t])
<1>1. /\ inbox[t] # <<>> /\ tab[t].phase = "loaded" /\ inbox' = [inbox EXCEPT ![t] = Tail(@)]
      /\ m.version = tab[t].version /\ UNCHANGED <<disk, idb, latest, lost>>
  BY DEF HearsSame, ghosts
<1>2. PICK s \in Pages(edits) :
        /\ tab' = [tab EXCEPT ![t] = s] /\ PageOK(s) /\ s.phase = "loaded" /\ s.version = tab[t].version
        /\ \A r \in Record : s.store[r] = IF r \in DOMAIN m.changes THEN m.changes[r] ELSE tab[t].store[r]
        /\ s.unheard = tab[t].unheard /\ s.isReloading = tab[t].isReloading
        /\ SameWork(tab[t], s) /\ s.isPersisting = tab[t].isPersisting
  BY HearsSameIs
<1>3. tab'[t] = s /\ tab[t].version \in Nat BY <1>2, BoundsIs, PageIs
<1>4. inbox'[t] = Tail(inbox[t]) /\ \A u \in Tab \ {t} : inbox'[u] = inbox[u] BY <1>1 DEF TypeInv, InboxOK
<1>5. s.queue = tab[t].queue /\ s.shouldDoFullDBWrite = tab[t].shouldDoFullDBWrite BY <1>2 DEF SameWork
<1> HIDE DEF m
<1>6. \A r \in Record : Safe(r)' <=> Safe(r) BY <1>1, SafeKept
<1>7. ASSUME NEW r \in Record \ lost', Held(t, r) PROVE Held(t, r)'
  <2>1. Told(t, r) /\ latest'[r] = latest[r] BY <1>1 DEF ShownInv, PairOK
  <2>2. r \in UnderWay(t)' => r \in UnderWay(t) BY <1>1, <1>2, <1>4, <2>1, TakesHead
  <2>3. r \in DOMAIN m.changes => r \in UnderWay(t)
    <3>1. inbox[t] \in Seq(Messages(edits)) BY PageIs
    <3>2. Tells(m, tab[t].version, r) => Coming(inbox[t], tab[t].version, r) BY <1>1, <3>1, ComingTail DEF m
    <3>3. r \in DOMAIN m.changes => Tells(m, tab[t].version, r) BY <1>1, <1>3 DEF Tells
    <3>4. QED BY <3>2, <3>3, UnderIs
  <2>4. s.store[r] = IF r \in DOMAIN m.changes THEN m.changes[r] ELSE tab[t].store[r] BY <1>2
  <2>5. QED BY <1>1, <1>2, <1>3, <1>5, <1>7, <2>1, <2>2, <2>3, <2>4 DEF Held
<1>8. \A r \in Record \ lost' : Safe(r) \/ Held(t, r) => Safe(r)' \/ Held(t, r)' BY <1>6, <1>7
<1>9. QED BY <1>1, <1>2, <1>4, <1>8, AloneHeld

LEMMA EditHeld ==
  ASSUME TypeInv, HeldInv, NEW t \in Tab, NEW e \in Record, Edit(t, e)
  PROVE  HeldInv'
<1>1. /\ tab[t].phase = "loaded" /\ UNCHANGED <<inbox, disk, idb>>
      /\ latest' = [latest EXCEPT ![e] = edits']
      /\ lost' = IF tab[t].isReloading \/ \E u \in Tab : tab[u].version > tab[t].version THEN lost \cup {e} ELSE lost \ {e}
  BY DEF Edit
<1>2. PICK s \in Pages(edits') :
        /\ tab' = [tab EXCEPT ![t] = s] /\ s.phase = "loaded" /\ s.version = tab[t].version
        /\ s.store = [tab[t].store EXCEPT ![e] = edits']
        /\ DOMAIN s.unheard = DOMAIN tab[t].unheard \cup {e} /\ s.unheard[e] = edits'
        /\ \A x \in DOMAIN tab[t].unheard : x # e => s.unheard[x] = tab[t].unheard[x]
        /\ SameWork(tab[t], s) /\ s.isReloading = tab[t].isReloading
  BY EditIs
<1>3. tab'[t] = s BY <1>2, BoundsIs
<1>4. tab[t].store \in [Record -> 0 .. edits] /\ latest \in [Record -> 0 .. edits] BY PageIs, BoundsIs
<1>5. s.queue = tab[t].queue /\ s.shouldDoFullDBWrite = tab[t].shouldDoFullDBWrite BY <1>2 DEF SameWork
<1>6. SUFFICES ASSUME NEW r \in Record, r \notin lost' PROVE Safe(r)' \/ \E u \in Tab : Held(u, r)'
  BY DEF HeldInv
<1>7. CASE r # e
  <2>1. r \notin lost /\ latest'[r] = latest[r] /\ s.store[r] = tab[t].store[r] BY <1>1, <1>2, <1>4, <1>6, <1>7
  <2>2. Safe(r) \/ \E u \in Tab : Held(u, r) BY <1>6, <2>1 DEF HeldInv
  <2>3. CASE Safe(r) BY <1>1, <2>1, <2>3 DEF Safe, Stored
  <2>4. CASE Held(t, r)
    <3>1. r \in UnderWay(t)' => r \in UnderWay(t) BY <1>1, <1>2, OwnUnder
    <3>2. Held(t, r)' BY <1>1, <1>2, <1>3, <1>5, <1>7, <2>1, <2>4, <3>1 DEF Held
    <3>3. QED BY <3>2
  <2>5. ASSUME NEW u \in Tab \ {t}, Held(u, r) PROVE Held(u, r)'
    <3>1. Passive(t, s, u, r) BY <1>1, <1>2, <1>7 DEF Passive
    <3>2. QED BY <1>2, <2>1, <2>5, <3>1, OtherHeld
  <2>6. QED BY <2>2, <2>3, <2>4, <2>5
<1>8. CASE r = e
  <2>1. ~s.isReloading /\ r \in DOMAIN s.unheard /\ s.unheard[r] = latest'[r] BY <1>1, <1>2, <1>4, <1>6, <1>8
  <2>2. Held(t, r)' BY <1>3, <2>1 DEF Held
  <2>3. QED BY <2>2
<1>9. QED BY <1>7, <1>8

\* A page that persists has loaded and not been closed.
LEMMA PersistsLoaded ==
  ASSUME TypeInv, NEW t \in Tab, tab[t].phase \notin {"closed", "loading"}, ~tab[t].isPersisting
  PROVE  tab[t].phase = "loaded"
<1>1. PageOK(tab[t]) /\ tab[t].phase \in Phases BY PageIs
<1>2. QED BY <1>1 DEF PageOK, Phases

LEMMA PersistsHeld ==
  ASSUME TypeInv, ShownInv, HeldInv, NEW t \in Tab, UpToDate(t), tab[t].phase \notin {"closed", "loading"},
         tab' = [tab EXCEPT ![t] = persistIfNeeded(@)], idb' = idb \o writes(t, tab[t]),
         UNCHANGED <<inbox, disk, ghosts>>
  PROVE  HeldInv'
<1> DEFINE p == tab[t]
           s == persistIfNeeded(p)
<1>1. p \in Pages(edits) /\ edits \in Nat /\ idb \in Seq(Transactions(edits)) BY PageIs, BoundsIs
<1>2. SameFace(p, s) /\ s.phase = p.phase /\ (~Persists(p) => SameWork(p, s)) BY <1>1, PersistIs
<1>3. tab' = [tab EXCEPT ![t] = s] /\ tab'[t] = s BY BoundsIs
<1>4. UNCHANGED <<latest, lost>> BY DEF ghosts
<1> HIDE DEF s
<1>5. ASSUME NEW r \in Record \ lost', Safe(r) \/ Held(t, r) PROVE Safe(r)' \/ Held(t, r)'
  <2>1. Safe(r) <=> StoredOn(disk, r, idb) = latest[r] BY StoredHolds DEF Safe
  <2>2. Safe(r)' <=> StoredOn(disk, r, idb \o writes(t, p)) = latest[r] BY <1>4, StoredHolds DEF Safe
  <2>3. StoredOn(disk, r, idb \o writes(t, p)) =
           IF ~Persists(p) THEN StoredOn(disk, r, idb)
           ELSE IF p.shouldDoFullDBWrite THEN p.store[r]
           ELSE IF r \in DOMAIN p.queue THEN p.queue[r] ELSE StoredOn(disk, r, idb)
    BY <1>1, StoredWrites
  <2>4. r \notin UnderWay(t) BY UpToDateIs
  <2>5. Shown(t, r) /\ Owned(t, r) BY <1>4 DEF ShownInv, PairOK
  <2>6. CASE ~Persists(p)
    <3>1. r \in UnderWay(t)' => r \in UnderWay(t) BY <1>2, <1>3, OwnUnder DEF SameFace
    <3>2. Held(t, r) => Held(t, r)' BY <1>2, <1>3, <1>4, <2>6, <3>1 DEF Held, SameFace, SameWork
    <3>3. QED BY <1>5, <2>1, <2>2, <2>3, <2>6, <3>2
  <2>7. CASE Persists(p)
    <3>1. p.phase = "loaded" /\ ~p.isReloading BY <2>7, PersistsLoaded DEF Persists
    <3>2. p.store[r] = latest[r] BY <2>4, <2>5, <3>1 DEF Shown
    <3>3. CASE p.shouldDoFullDBWrite BY <2>2, <2>3, <2>7, <3>2, <3>3
    <3>4. CASE ~p.shouldDoFullDBWrite /\ r \in DOMAIN p.unheard
      <4>1. p.unheard[r] = latest[r] BY <2>5, <3>4 DEF Owned
      <4>2. Held(t, r)' BY <1>2, <1>3, <1>4, <3>1, <3>4, <4>1 DEF Held, SameFace
      <4>3. QED BY <4>2
    <3>5. CASE ~p.shouldDoFullDBWrite /\ r \notin DOMAIN p.unheard
      <4>1. r \in DOMAIN p.queue => p.queue[r] = latest[r] BY <2>5, <3>5 DEF Owned
      <4>2. Held(t, r) => r \in DOMAIN p.queue BY <3>5 DEF Held
      <4>3. QED BY <1>5, <2>1, <2>2, <2>3, <2>7, <3>5, <4>1, <4>2
    <3>6. QED BY <3>3, <3>4, <3>5
  <2>8. QED BY <2>6, <2>7
<1>6. s.version = tab[t].version /\ s.unheard = tab[t].unheard BY <1>2 DEF SameFace
<1>7. QED BY <1>3, <1>4, <1>5, <1>6, AloneHeld

LEMMA PersistTimerHeld ==
  ASSUME TypeInv, ShownInv, HeldInv, NEW t \in Tab, PersistTimer(t)
  PROVE  HeldInv'
<1>1. PageOK(tab[t]) /\ ~NoTab.timer BY PageIs, NoTabIs
<1>2. tab[t].phase \notin {"closed", "loading"} BY <1>1 DEF PersistTimer, PageOK
<1>3. QED BY <1>2, PersistsHeld DEF PersistTimer

LEMMA HideHeld ==
  ASSUME TypeInv, ShownInv, HeldInv, NEW t \in Tab, Hide(t)
  PROVE  HeldInv'
<1>1. QED BY PersistsHeld DEF Hide

LEMMA HearsOlderHeld ==
  ASSUME TypeInv, ShownInv, HeldInv, NEW t \in Tab, HearsOlder(t)
  PROVE  HeldInv'
<1> DEFINE p == [tab[t] EXCEPT !.shouldDoFullDBWrite = TRUE]
           s == persistIfNeeded(p)
           m == announce(tab[t].version)
<1>1. /\ inbox[t] # <<>> /\ tab[t].phase = "loaded" /\ inbox' = [posted(t, m) EXCEPT ![t] = Tail(@)]
      /\ tab' = [tab EXCEPT ![t] = s] /\ idb' = idb \o writes(t, p)
      /\ UnderWay(t) \subseteq lost' /\ lost \subseteq lost' /\ UNCHANGED <<disk, latest>>
  BY DEF HearsOlder
<1>2. tab[t] \in Pages(edits) /\ edits \in Nat /\ idb \in Seq(Transactions(edits)) /\ tab[t].version \in Nat
  BY PageIs, BoundsIs
<1>3. /\ p \in Pages(edits) /\ SameFace(tab[t], p) /\ p.phase = "loaded" /\ p.queue = tab[t].queue /\ p.shouldDoFullDBWrite
  BY <1>1, <1>2 DEF Pages, SameFace
<1> HIDE DEF p
<1>4. SameFace(p, s) /\ s.phase = "loaded" /\ (~Persists(p) => SameWork(p, s)) BY <1>2, <1>3, PersistIs
<1> HIDE DEF s
<1>5. tab'[t] = s BY <1>1, BoundsIs
<1>6. inbox'[t] = Tail(inbox[t]) /\ \A u \in Tab \ {t} : inbox'[u] = posted(t, m)[u]
  <2>1. posted(t, m) = [u \in Tab |-> posted(t, m)[u]] BY DEF posted
  <2>2. posted(t, m)[t] = inbox[t] BY PostedIs
  <2>3. QED BY <1>1, <2>1, <2>2
<1>7. \A u \in Tab \ {t} : inbox'[u] = IF tab[u].phase \in {"loading", "loaded"} THEN Append(inbox[u], m) ELSE inbox[u]
  BY <1>6, PostedPassive
<1>8. m \in Messages(edits) /\ m.changes = NoChanges BY <1>2, MessageIs
<1>9. s.version = tab[t].version /\ s.unheard = tab[t].unheard /\ s.store = tab[t].store /\ s.isReloading = tab[t].isReloading
  BY <1>3, <1>4 DEF SameFace
<1>10. \A u \in Tab \ {t} : \A r \in Record \ lost' : Passive(t, s, u, r) BY <1>7, <1>8, <1>9 DEF Passive
<1>11. ASSUME NEW r \in Record \ lost', Safe(r) \/ Held(t, r) PROVE Safe(r)' \/ Held(t, r)'
  <2>1. Safe(r) <=> StoredOn(disk, r, idb) = latest[r] BY StoredHolds DEF Safe
  <2>2. Safe(r)' <=> StoredOn(disk, r, idb \o writes(t, p)) = latest[r] BY <1>1, StoredHolds DEF Safe
  <2>3. StoredOn(disk, r, idb \o writes(t, p)) =
           IF ~Persists(p) THEN StoredOn(disk, r, idb)
           ELSE IF p.shouldDoFullDBWrite THEN p.store[r]
           ELSE IF r \in DOMAIN p.queue THEN p.queue[r] ELSE StoredOn(disk, r, idb)
    BY <1>2, <1>3, StoredWrites
  <2>4. r \notin UnderWay(t) /\ r \notin lost BY <1>1
  <2>5. Shown(t, r) /\ Told(t, r) /\ latest'[r] = latest[r] BY <1>1, <2>4 DEF ShownInv, PairOK
  <2>6. CASE ~Persists(p)
    <3>1. r \in UnderWay(t)' => r \in UnderWay(t) BY <1>1, <1>6, <1>9, <2>5, TakesHead
    <3>2. s.queue = tab[t].queue /\ s.shouldDoFullDBWrite BY <1>3, <1>4, <2>6 DEF SameWork
    <3>3. Held(t, r) => Held(t, r)' BY <1>1, <1>4, <1>5, <1>9, <2>4, <3>1, <3>2 DEF Held
    <3>4. QED BY <1>11, <2>1, <2>2, <2>3, <2>6, <3>3
  <2>7. CASE Persists(p)
    <3>1. ~tab[t].isReloading /\ p.store = tab[t].store BY <1>3, <2>7 DEF Persists, SameFace
    <3>2. tab[t].store[r] = latest[r] BY <1>1, <2>4, <2>5, <3>1 DEF Shown
    <3>3. QED BY <1>3, <2>2, <2>3, <2>7, <3>1, <3>2
  <2>8. QED BY <2>6, <2>7
<1>12. QED BY <1>1, <1>10, <1>11, OthersHeld

LEMMA CloseHeld ==
  ASSUME TypeInv, ShownInv, HeldInv, NEW t \in Tab, Close(t)
  PROVE  HeldInv'
<1> DEFINE h == heard(tab[t])
           s == flushAndDispose(h)
           m == diff(tab[t].version, tab[t].unheard)
<1>1. /\ tab[t].phase = "loaded" /\ UpToDate(t) /\ idb' = idb \o writes(t, h)
      /\ inbox' = (IF tab[t].unheard = NoChanges THEN inbox ELSE posted(t, m))
      /\ UNCHANGED <<disk, latest, lost>>
  BY DEF Close, ghosts
<1>2. /\ h \in Pages(edits) /\ PageOK(h) /\ Flushed(h, s) /\ tab' = [tab EXCEPT ![t] = s]
  BY CloseIs
<1>3. tab[t] \in Pages(edits) /\ edits \in Nat /\ idb \in Seq(Transactions(edits)) BY PageIs, BoundsIs
<1>4. /\ h.unheard = NoChanges /\ h.version = tab[t].version /\ h.store = tab[t].store
      /\ h.isReloading = tab[t].isReloading /\ h.queue = Over(tab[t].unheard, tab[t].queue)
      /\ h.shouldDoFullDBWrite = tab[t].shouldDoFullDBWrite
  BY <1>3, HeardIs
<1> HIDE DEF h, s
<1>5. /\ DOMAIN h.queue = DOMAIN tab[t].unheard \cup DOMAIN tab[t].queue
      /\ \A x \in DOMAIN h.queue : h.queue[x] = IF x \in DOMAIN tab[t].unheard THEN tab[t].unheard[x] ELSE tab[t].queue[x]
  <2>1. tab[t] \in Pages(edits) BY PageIs
  <2>2. edits \in Nat BY PageIs
  <2>3. QED BY <2>1, <2>2, HeardQueue DEF h
<1>6. tab'[t] = s BY <1>2, BoundsIs
<1>7. s.unheard = NoChanges BY <1>2, <1>3, <1>4, NoTabIs DEF Flushed, SameFace
<1>8. \A u \in Tab \ {t} : \A r \in Record \ lost' : Passive(t, s, u, r)
  <2>1. CASE tab[t].unheard = NoChanges
    <3>1. inbox' = inbox /\ DOMAIN tab[t].unheard = {} BY <1>1, <2>1, DiffIs
    <3>2. QED BY <1>7, <3>1 DEF Passive
  <2>2. CASE tab[t].unheard # NoChanges
    <3>1. \A u \in Tab \ {t} : inbox'[u] = posted(t, m)[u] BY <1>1, <2>2
    <3>2. \A u \in Tab \ {t} : inbox'[u] = IF tab[u].phase \in {"loading", "loaded"} THEN Append(inbox[u], m) ELSE inbox[u]
      BY <3>1, PostedPassive
    <3>3. QED BY <1>7, <3>2 DEF Passive
  <2>3. QED BY <2>1, <2>2
<1>9. ASSUME NEW r \in Record \ lost', Safe(r) \/ Held(t, r) PROVE Safe(r)' \/ Held(t, r)'
  <2>1. Safe(r) <=> StoredOn(disk, r, idb) = latest[r] BY StoredHolds DEF Safe
  <2>2. Safe(r)' <=> StoredOn(disk, r, idb \o writes(t, h)) = latest[r] BY <1>1, StoredHolds DEF Safe
  <2>3. StoredOn(disk, r, idb \o writes(t, h)) =
           IF ~Persists(h) THEN StoredOn(disk, r, idb)
           ELSE IF h.shouldDoFullDBWrite THEN h.store[r]
           ELSE IF r \in DOMAIN h.queue THEN h.queue[r] ELSE StoredOn(disk, r, idb)
    BY <1>2, <1>3, StoredWrites
  <2>4. r \notin UnderWay(t) BY <1>1, UpToDateIs
  <2>5. Shown(t, r) /\ Owned(t, r) BY <1>1 DEF ShownInv, PairOK
  <2>6. r \in DOMAIN h.queue => h.queue[r] = latest[r] BY <1>5, <2>5 DEF Owned
  <2>7. Held(t, r) => \/ r \in DOMAIN h.queue
                      \/ h.shouldDoFullDBWrite /\ h.store[r] = latest[r]
    BY <1>4, <1>5 DEF Held
  <2>8. CASE Persists(h)
    <3>1. h.shouldDoFullDBWrite => h.store[r] = latest[r]
      BY <1>1, <1>4, <2>4, <2>5, <2>8 DEF Persists, Shown
    <3>2. QED BY <1>9, <2>1, <2>2, <2>3, <2>6, <2>7, <2>8, <3>1
  <2>9. CASE ~Persists(h) /\ h.isPersisting
    <3>1. s.phase = "closing" /\ SameFace(h, s) /\ SameWork(h, s) BY <1>2, <1>3, <2>9, NoTabIs DEF Flushed
    <3>2. s.queue = h.queue /\ s.shouldDoFullDBWrite = h.shouldDoFullDBWrite /\ s.store = h.store /\ s.isReloading = h.isReloading
      BY <3>1 DEF SameFace, SameWork
    <3>3. Held(t, r) => Held(t, r)' BY <1>1, <1>4, <1>6, <2>6, <2>7, <3>1, <3>2 DEF Held
    <3>4. QED BY <1>9, <2>1, <2>2, <2>3, <2>9, <3>3
  <2>10. CASE ~Persists(h) /\ ~h.isPersisting
    <3>1. h.isReloading \/ (~h.shouldDoFullDBWrite /\ ~h.queued) BY <2>10 DEF Persists
    <3>2. ~h.isReloading => DOMAIN h.queue = {} BY <1>2, <3>1, DiffIs DEF PageOK
    <3>3. ~Held(t, r) BY <1>4, <2>7, <3>1, <3>2 DEF Held
    <3>4. QED BY <1>9, <2>1, <2>2, <2>3, <2>10, <3>3
  <2>11. QED BY <2>8, <2>9, <2>10
<1>10. QED BY <1>1, <1>2, <1>8, <1>9, OthersHeld

\* t ends a write: what the others see of it, and what it holds then.
LEMMA EndsAlone ==
  ASSUME TypeInv, NEW t \in Tab, idb # <<>>, Head(idb).kind # "read", Head(idb).tab = t,
         NEW p \in Pages(edits), Ended(tab[t], p), finishes(t, p)
  PROVE  \/ finished(p).version = tab[t].version /\ finished(p).unheard = tab[t].unheard
         \/ finished(p).unheard = NoChanges /\ DOMAIN tab[t].unheard = {}
<1> DEFINE s == finished(p)
<1>1. /\ tab[t].phase \in {"loaded", "closing", "flushing"}
      /\ tab[t].phase = "loaded" => s = p
      /\ tab[t].phase = "closing" => Flushed(p, s)
      /\ tab[t].phase = "flushing" => s = NoTab
  BY FinishesIs
<1>2. SameFace(tab[t], p) BY DEF Ended
<1>3. PageOK(tab[t]) /\ edits \in Nat /\ DOMAIN NoChanges = {} BY PageIs, DiffIs
<1> HIDE DEF s
<1>4. QED BY <1>1, <1>2, <1>3, NoTabIs DEF PageOK, SameFace, Flushed, s

LEMMA CommitsHeld ==
  ASSUME TypeInv, ShownInv, HeldInv, Commits
  PROVE  HeldInv'
<1>1. /\ idb # <<>> /\ Head(idb).kind # "read" /\ UNCHANGED <<inbox, latest, lost>>
      /\ disk' = Over(Head(idb).data, disk)
      /\ IF Head(idb).tab = None THEN idb' = Tail(idb) /\ UNCHANGED tab
         ELSE finishes(Head(idb).tab, persisted(tab[Head(idb).tab]))
  BY DEF Commits, ghosts
<1>2. idb \in Seq(Transactions(edits)) /\ Head(idb) \in Transactions(edits) /\ Tail(idb) \in Seq(Transactions(edits))
  BY <1>1, BoundsIs, TailAt
<1>3. \A r \in Record : StoredOn(disk', r, Tail(idb)) = StoredOn(disk, r, idb)
  <2> DEFINE c == Head(idb).data
  <2>1. c \in Diffs(edits) /\ disk \in [Record -> 0 .. edits] BY <1>2, BoundsIs DEF Transactions
  <2>2. c \in Diffs(edits) BY <2>1
  <2> HIDE DEF c
  <2>3. \A r \in Record : Over(c, disk)[r] = IF r \in DOMAIN c THEN c[r] ELSE disk[r]
    BY <2>1, <2>2, OverWhole
  <2>4. \A r \in Record : disk'[r] = IF r \in DOMAIN Head(idb).data THEN Head(idb).data[r] ELSE disk[r]
    BY <1>1, <2>3 DEF c
  <2>5. QED BY <1>1, <1>2, <2>4, StoredTail
<1>4. CASE Head(idb).tab = None
  <2>1. UNCHANGED <<tab, inbox, latest, lost>> /\ idb' = Tail(idb) BY <1>1, <1>4
  <2>2. \A r \in Record : Safe(r)' <=> Safe(r) BY <1>3, <2>1, StoredHolds DEF Safe
  <2>3. \A r \in Record, u \in Tab : Held(u, r)' <=> Held(u, r) BY <2>1 DEF Held, UnderWay
  <2>4. QED BY <2>1, <2>2, <2>3 DEF HeldInv
<1>5. CASE Head(idb).tab # None
  <2>1. PICK t \in Tab : Head(idb).tab = t BY <1>2, <1>5 DEF Transactions
  <2> DEFINE p == persisted(tab[t])
             s == finished(p)
  <2>2. finishes(t, p) BY <1>1, <1>5, <2>1
  <2>3. tab[t] \in Pages(edits) /\ edits \in Nat /\ PageOK(tab[t]) /\ DOMAIN NoChanges = {} BY PageIs, DiffIs
  <2>4. p \in Pages(edits) /\ Ended(tab[t], p) /\ p.shouldDoFullDBWrite = tab[t].shouldDoFullDBWrite BY <2>3, EndedIs
  <2> HIDE DEF p
  <2>5. /\ tab' = [tab EXCEPT ![t] = s]
        /\ tab[t].phase \in {"loaded", "closing", "flushing"}
        /\ tab[t].phase = "loaded" => s = p /\ idb' = Tail(idb)
        /\ tab[t].phase = "closing" => Flushed(p, s) /\ idb' = Tail(idb) \o writes(t, p)
        /\ tab[t].phase = "flushing" => s = NoTab /\ idb' = Tail(idb)
    BY <1>1, <2>1, <2>2, <2>4, FinishesIs
  <2>6. \/ s.version = tab[t].version /\ s.unheard = tab[t].unheard
        \/ s.unheard = NoChanges /\ DOMAIN tab[t].unheard = {}
    BY <1>1, <2>1, <2>2, <2>4, EndsAlone
  <2> HIDE DEF s
  <2>7. tab'[t] = s BY <2>5, BoundsIs
  <2>8. /\ SameFace(tab[t], p) /\ p.phase = tab[t].phase /\ p.queue = tab[t].queue /\ p.queued = tab[t].queued
        /\ ~p.isPersisting
    BY <2>4 DEF Ended
  <2>9. /\ p.version = tab[t].version /\ p.store = tab[t].store /\ p.unheard = tab[t].unheard /\ p.isReloading = tab[t].isReloading
    BY <2>8 DEF SameFace
  <2>10. ASSUME NEW r \in Record \ lost', Safe(r) \/ Held(t, r) PROVE Safe(r)' \/ Held(t, r)'
    <3>1. Safe(r) <=> StoredOn(disk', r, Tail(idb)) = latest[r] BY <1>3, StoredHolds DEF Safe
    <3>2. Safe(r)' <=> StoredOn(disk', r, idb') = latest[r] BY <1>1, StoredHolds DEF Safe
    <3>3. CASE tab[t].phase = "loaded"
      <4>1. r \in UnderWay(t)' => r \in UnderWay(t) BY <1>1, <2>5, <2>9, <3>3, OwnUnder
      <4>2. Held(t, r) => Held(t, r)' BY <1>1, <2>4, <2>5, <2>7, <2>8, <2>9, <3>3, <4>1 DEF Held
      <4>3. QED BY <2>5, <2>10, <3>1, <3>2, <3>3, <4>2
    <3>4. CASE tab[t].phase = "flushing"
      <4>1. ~Held(t, r) BY <2>3, <3>4 DEF Held, PageOK
      <4>2. QED BY <2>5, <2>10, <3>1, <3>2, <3>4, <4>1
    <3>5. CASE tab[t].phase = "closing"
      <4>1. StoredOn(disk', r, Tail(idb) \o writes(t, p)) =
              IF ~Persists(p) THEN StoredOn(disk', r, Tail(idb))
              ELSE IF p.shouldDoFullDBWrite THEN p.store[r]
              ELSE IF r \in DOMAIN p.queue THEN p.queue[r] ELSE StoredOn(disk', r, Tail(idb))
        <5> DEFINE q == Tail(idb)
        <5>1. q \in Seq(Transactions(edits)) BY <1>2
        <5>2. p \in Pages(edits) BY <2>4
        <5>3. edits \in Nat /\ r \in Record BY <2>3
        <5> HIDE DEF q
        <5>4. StoredOn(disk', r, q \o writes(t, p)) =
                IF ~Persists(p) THEN StoredOn(disk', r, q)
                ELSE IF p.shouldDoFullDBWrite THEN p.store[r]
                ELSE IF r \in DOMAIN p.queue THEN p.queue[r] ELSE StoredOn(disk', r, q)
          BY <5>1, <5>2, <5>3, StoredWrites
        <5>5. QED BY <5>4 DEF q
      <4>2. Owned(t, r) /\ Waits(t, r) BY <1>1 DEF ShownInv, PairOK
      <4>3. DOMAIN tab[t].unheard = {} BY <2>3, <3>5 DEF PageOK
      <4>4. r \in DOMAIN p.queue => p.queue[r] = latest[r] BY <2>8, <4>2, <4>3 DEF Owned
      <4>5. Held(t, r) => /\ ~p.isReloading
                          /\ r \in DOMAIN p.queue \/ (p.shouldDoFullDBWrite /\ p.store[r] = latest[r])
        BY <2>4, <2>8, <2>9, <4>3 DEF Held
      <4>6. CASE Persists(p)
        <5>1. p.store[r] = latest[r] BY <2>9, <3>5, <4>2, <4>6 DEF Persists, Waits
        <5>2. QED BY <2>5, <2>10, <3>1, <3>2, <3>5, <4>1, <4>4, <4>5, <4>6, <5>1
      <4>7. CASE ~Persists(p)
        <5>1. p.isReloading \/ (~p.shouldDoFullDBWrite /\ ~p.queued) BY <2>8, <4>7 DEF Persists
        <5>2. ~p.isReloading => DOMAIN p.queue = {} BY <2>3, <2>8, <5>1 DEF PageOK
        <5>3. ~Held(t, r) BY <4>5, <5>1, <5>2
        <5>4. QED BY <2>5, <2>10, <3>1, <3>2, <3>5, <4>1, <4>7, <5>3
      <4>8. QED BY <4>6, <4>7
    <3>6. QED BY <2>5, <3>3, <3>4, <3>5
  <2>11. lost \subseteq lost' /\ UNCHANGED latest /\ \A u \in Tab \ {t} : inbox'[u] = inbox[u] BY <1>1
  <2>12. QED BY <2>5, <2>6, <2>10, <2>11, AloneHeld
<1>6. QED BY <1>4, <1>5

LEMMA FailsHeld ==
  ASSUME TypeInv, ShownInv, HeldInv, Fails
  PROVE  HeldInv'
<1>1. PICK t \in Tab : /\ Head(idb).tab = t /\ finishes(t, failed(tab[t]))
                       /\ lost' = IF tab[t].phase = "flushing" \/ tab[t].isReloading THEN lost \cup GivenUp(t, idb') ELSE lost
  BY DEF Fails
<1>2. idb # <<>> /\ Head(idb).kind # "read" /\ UNCHANGED <<inbox, disk, latest>> BY DEF Fails
<1> DEFINE p == failed(tab[t])
           s == finished(p)
<1>3. tab[t] \in Pages(edits) /\ edits \in Nat /\ PageOK(tab[t]) /\ DOMAIN NoChanges = {} BY PageIs, DiffIs
<1>4. p \in Pages(edits) /\ Ended(tab[t], p) /\ p.shouldDoFullDBWrite BY <1>3, EndedIs
<1>5. finishes(t, p) BY <1>1
<1> HIDE DEF p
<1>6. /\ tab' = [tab EXCEPT ![t] = s]
      /\ tab[t].phase \in {"loaded", "closing", "flushing"}
      /\ tab[t].phase = "loaded" => s = p /\ idb' = Tail(idb)
      /\ tab[t].phase = "closing" => Flushed(p, s) /\ idb' = Tail(idb) \o writes(t, p)
      /\ tab[t].phase = "flushing" => s = NoTab /\ idb' = Tail(idb)
  BY <1>1, <1>2, <1>4, <1>5, FinishesIs
<1>7. \/ s.version = tab[t].version /\ s.unheard = tab[t].unheard
      \/ s.unheard = NoChanges /\ DOMAIN tab[t].unheard = {}
  BY <1>1, <1>2, <1>4, <1>5, EndsAlone
<1> HIDE DEF s
<1>8. tab'[t] = s BY <1>6, BoundsIs
<1>9. /\ SameFace(tab[t], p) /\ p.phase = tab[t].phase /\ p.queue = tab[t].queue /\ ~p.isPersisting
  BY <1>4 DEF Ended
<1>10. /\ p.version = tab[t].version /\ p.store = tab[t].store /\ p.unheard = tab[t].unheard /\ p.isReloading = tab[t].isReloading
  BY <1>9 DEF SameFace
<1>11. idb \in Seq(Transactions(edits)) /\ Tail(idb) \in Seq(Transactions(edits)) /\ 1 \in DOMAIN idb /\ Head(idb) = idb[1]
  BY <1>2, BoundsIs, TailAt
<1>12. ASSUME NEW r \in Record, Safe(r), StoredOn(disk, r, Tail(idb)) # latest[r] PROVE Writing(t, r)
  <2>1. StoredOn(disk, r, idb) = latest[r] BY <1>12, StoredHolds DEF Safe
  <2>2. r \in DOMAIN Head(idb).data /\ Head(idb).data[r] = latest[r] BY <1>2, <1>11, <1>12, <2>1, StoredTail
  <2>3. QED BY <1>1, <1>11, <2>2 DEF Writing
<1>13. lost \subseteq lost' BY <1>1
<1>14. ASSUME NEW r \in Record \ lost', Safe(r) \/ Held(t, r) PROVE Safe(r)' \/ Held(t, r)'
  <2>1. Safe(r)' <=> StoredOn(disk, r, idb') = latest[r] BY <1>2, StoredHolds DEF Safe
  <2>2. CASE (tab[t].phase = "flushing" \/ tab[t].isReloading)
    <3>1. idb' = Tail(idb)
      <4>1. tab[t].phase = "closing" => ~Persists(p) BY <1>10, <2>2 DEF Persists
      <4>2. tab[t].phase = "closing" => writes(t, p) = <<>> BY <1>3, <1>4, <4>1, WritesIs
      <4>3. QED BY <1>6, <1>11, <4>2
    <3>2. CASE Writing(t, r) \/ Pending(t, r)
      <4>1. Stored(r, idb') = latest[r] BY <1>1, <2>2, <3>2 DEF GivenUp
      <4>2. QED BY <2>1, <4>1, StoredHolds
    <3>3. CASE ~Writing(t, r) /\ ~Pending(t, r)
      <4>1. Safe(r) BY <1>14, <3>3, HeldIsPending
      <4>2. QED BY <1>12, <2>1, <3>1, <3>3, <4>1
    <3>4. QED BY <3>2, <3>3
  <2>3. CASE tab[t].phase = "closing" /\ ~tab[t].isReloading
    <3>1. Persists(p) BY <1>4, <1>9, <1>10, <2>3 DEF Persists
    <3>2. StoredOn(disk, r, Tail(idb) \o writes(t, p)) = p.store[r]
      <4> DEFINE q == Tail(idb)
      <4>1. q \in Seq(Transactions(edits)) BY <1>11
      <4>2. p \in Pages(edits) BY <1>4
      <4>3. edits \in Nat /\ r \in Record BY <1>3
      <4> HIDE DEF q
      <4>4. StoredOn(disk, r, q \o writes(t, p)) = p.store[r] BY <1>4, <3>1, <4>1, <4>2, <4>3, StoredWrites
      <4>5. QED BY <4>4 DEF q
    <3>3. Waits(t, r) BY <1>13 DEF ShownInv, PairOK
    <3>4. QED BY <1>6, <1>10, <2>1, <2>3, <3>2, <3>3 DEF Waits
  <2>4. CASE tab[t].phase = "loaded" /\ ~tab[t].isReloading
    <3>1. r \in UnderWay(t)' => r \in UnderWay(t) BY <1>2, <1>6, <1>10, <2>4, OwnUnder
    <3>2. Held(t, r) => Held(t, r)' BY <1>2, <1>4, <1>6, <1>8, <1>9, <1>10, <2>4, <3>1 DEF Held
    <3>3. CASE Writing(t, r)
      <4>1. InFlight(t, r) BY <1>13 DEF ShownInv, PairOK
      <4>2. tab[t].store[r] = latest[r] /\ r \notin UnderWay(t)' BY <2>4, <3>1, <3>3, <4>1 DEF InFlight
      <4>3. Held(t, r)' BY <1>2, <1>4, <1>6, <1>8, <1>9, <1>10, <2>4, <4>2 DEF Held
      <4>4. QED BY <4>3
    <3>4. CASE ~Writing(t, r) BY <1>6, <1>12, <1>14, <2>1, <2>4, <3>2, <3>4
    <3>5. QED BY <3>3, <3>4
  <2>5. QED BY <1>6, <2>2, <2>3, <2>4
<1>15. \A u \in Tab \ {t} : inbox'[u] = inbox[u] BY <1>2
<1>16. QED BY <1>2, <1>6, <1>7, <1>13, <1>14, <1>15, AloneHeld

LEMMA ReadsHeld ==
  ASSUME TypeInv, HeldInv, Reads
  PROVE  HeldInv'
<1>1. /\ idb # <<>> /\ Head(idb).kind = "read" /\ idb' = Tail(idb)
      /\ tab' = [tab EXCEPT ![Head(idb).tab].store = disk]
      /\ UNCHANGED <<inbox, disk, latest, lost>>
  BY DEF Reads, ghosts
<1>2. /\ idb \in Seq(Transactions(edits)) /\ QueueOK(idb, tab) /\ tab \in [Tab -> Pages(edits)]
      /\ 1 \in DOMAIN idb /\ Head(idb) = idb[1] /\ DOMAIN NoChanges = {}
  BY <1>1, BoundsIs, TailAt, DiffIs
<1>3. Head(idb).tab \in Tab /\ tab[Head(idb).tab].phase = "loading" /\ Head(idb).data = NoChanges
  BY <1>1, <1>2 DEF QueueOK
<1>4. PICK t \in Tab : Head(idb).tab = t BY <1>3
<1>5. tab[t] \in Pages(edits) /\ PageOK(tab[t]) BY PageIs
<1> DEFINE s == [tab[t] EXCEPT !.store = disk]
<1>6. tab' = [tab EXCEPT ![t] = s] BY <1>1, <1>4
<1>7. s.version = tab[t].version /\ s.unheard = tab[t].unheard BY <1>5 DEF Pages
<1> HIDE DEF s
<1>8. ASSUME NEW r \in Record \ lost', Safe(r) \/ Held(t, r) PROVE Safe(r)'
  <2>1. ~Held(t, r) BY <1>2, <1>3, <1>4, <1>5 DEF Held, PageOK
  <2>2. r \notin DOMAIN Head(idb).data BY <1>2, <1>3
  <2>3. StoredOn(disk, r, Tail(idb)) = StoredOn(disk, r, idb) BY <1>1, <1>2, <2>2, StoredTail
  <2>4. QED BY <1>1, <1>8, <2>1, <2>3, StoredHolds DEF Safe
<1>9. lost \subseteq lost' /\ UNCHANGED latest /\ \A u \in Tab \ {t} : inbox'[u] = inbox[u] BY <1>1
<1>10. QED BY <1>6, <1>7, <1>8, <1>9, AloneHeld

LEMMA OpenHeld ==
  ASSUME TypeInv, HeldInv, NEW t \in Tab, Open(t)
  PROVE  HeldInv'
<1> DEFINE s == [NoTab EXCEPT !.phase = "loading", !.version = release]
<1>1. /\ tab[t].phase = "closed" /\ tab' = [tab EXCEPT ![t] = s] /\ idb' = Append(idb, reading(t))
      /\ UNCHANGED <<inbox, disk, latest, lost>>
  BY DEF Open, IsOpen, ghosts
<1>2. PageOK(tab[t]) /\ DOMAIN NoChanges = {} BY PageIs, DiffIs
<1>3. s.unheard = NoChanges BY DEF NoTab
<1> HIDE DEF s
<1>4. DOMAIN tab[t].unheard \subseteq lost' BY <1>1, <1>2 DEF PageOK
<1>5. reading(t) \in Transactions(edits) /\ reading(t).data = NoChanges
  <2>1. NoChanges \in Diffs(edits) BY DiffIs
  <2>2. QED BY <2>1 DEF reading, Transactions
<1>6. ASSUME NEW r \in Record \ lost', Safe(r) \/ Held(t, r) PROVE Safe(r)'
  <2>1. ~Held(t, r) BY <1>1, <1>2, NoTabIs DEF Held, PageOK
  <2>2. idb \in Seq(Transactions(edits)) BY BoundsIs
  <2>3. StoredOn(disk, r, Append(idb, reading(t))) =
          IF r \in DOMAIN reading(t).data THEN reading(t).data[r] ELSE StoredOn(disk, r, idb)
    BY <1>5, <2>2, StoredAppend
  <2>4. StoredOn(disk, r, Append(idb, reading(t))) = StoredOn(disk, r, idb) BY <1>2, <1>5, <2>3
  <2>5. QED BY <1>1, <1>6, <2>1, <2>4, StoredHolds DEF Safe
<1>7. lost \subseteq lost' /\ UNCHANGED latest /\ \A u \in Tab \ {t} : inbox'[u] = inbox[u] BY <1>1
<1>8. QED BY <1>1, <1>3, <1>4, <1>6, <1>7, AloneHeld

LEMMA OrphanedAt ==
  ASSUME NEW t, NEW q, NEW l
  PROVE  /\ DOMAIN orphaned(t, q, l) = DOMAIN q
         /\ \A i \in DOMAIN q : /\ q[i].tab # t => orphaned(t, q, l)[i] = q[i]
                                /\ q[i].tab = t => orphaned(t, q, l)[i].data = IF l THEN q[i].data ELSE NoChanges
<1>1. QED BY DEF orphaned

LEMMA CloseUnloadedHeld ==
  ASSUME TypeInv, HeldInv, NEW t \in Tab, CloseUnloaded(t)
  PROVE  HeldInv'
<1>1. /\ tab[t].phase = "loading" /\ tab' = [tab EXCEPT ![t] = NoTab] /\ inbox' = [inbox EXCEPT ![t] = <<>>]
      /\ idb' = orphaned(t, idb, FALSE) /\ UNCHANGED <<disk, latest, lost>>
  BY DEF CloseUnloaded, ghosts
<1>2. PageOK(tab[t]) /\ DOMAIN NoChanges = {} /\ idb \in Seq(Transactions(edits)) /\ QueueOK(idb, tab)
      /\ tab \in [Tab -> Pages(edits)]
  BY PageIs, DiffIs, BoundsIs
<1>3. NoTab.unheard = NoChanges /\ DOMAIN tab[t].unheard \subseteq lost' BY <1>1, <1>2 DEF PageOK, NoTab
<1>4. \A u \in Tab \ {t} : inbox'[u] = inbox[u] BY <1>1 DEF TypeInv, InboxOK
<1>5. /\ orphaned(t, idb, FALSE) \in Seq(Transactions(edits)) /\ DOMAIN orphaned(t, idb, FALSE) = DOMAIN idb
      /\ \A i \in DOMAIN idb :
           /\ idb[i].tab # t => orphaned(t, idb, FALSE)[i] = idb[i]
           /\ idb[i].tab = t => orphaned(t, idb, FALSE)[i].data = NoChanges
  <2>1. orphaned(t, idb, FALSE) \in Seq(Transactions(edits)) BY <1>2, QueueOrphaned
  <2>2. QED BY <2>1 DEF orphaned
<1>6. \A i \in DOMAIN idb : idb[i].tab = t => idb[i].data = NoChanges
  BY <1>1, <1>2 DEF QueueOK, WriteAt, PageOK
<1>7. ASSUME NEW r \in Record \ lost', Safe(r) \/ Held(t, r) PROVE Safe(r)'
  <2>1. ~Held(t, r) BY <1>1, <1>2 DEF Held, PageOK
  <2>2. \A i \in DOMAIN idb : idb'[i].data = idb[i].data BY <1>1, <1>5, <1>6
  <2>3. StoredOn(disk, r, idb') = StoredOn(disk, r, idb)
    <3>1. idb' \in Seq(Transactions(edits)) /\ DOMAIN idb' = DOMAIN idb BY <1>1, <1>5
    <3>2. QED BY <1>2, <2>2, <3>1, StoredKept
  <2>4. QED BY <1>1, <1>7, <2>1, <2>3, StoredHolds DEF Safe
<1>8. lost \subseteq lost' /\ UNCHANGED latest BY <1>1
<1>9. QED BY <1>1, <1>3, <1>4, <1>7, <1>8, AloneHeld

LEMMA UnloadHeld ==
  ASSUME TypeInv, ShownInv, HeldInv, NEW t \in Tab, Unload(t)
  PROVE  HeldInv'
<1>1. /\ tab' = [tab EXCEPT ![t] = NoTab] /\ inbox' = [inbox EXCEPT ![t] = <<>>]
      /\ lost' = lost \cup GivenUp(t, idb') \cup DOMAIN tab[t].unheard /\ UNCHANGED <<disk, latest>>
      /\ tab[t].phase # "closed" /\ UpToDate(t)
  BY DEF Unload, die, IsOpen
<1>2. PICK q \in Seq(Transactions(edits)), l \in BOOLEAN :
        /\ q = (IF tab[t].phase = "loading" THEN idb ELSE idb \o writes(t, tab[t]))
        /\ idb' = orphaned(t, q, l) /\ \E tb \in [Tab -> Pages(edits)] : QueueOK(q, tb)
  BY UnloadIs
<1> DEFINE p == tab[t]
<1>3. p \in Pages(edits) /\ edits \in Nat /\ idb \in Seq(Transactions(edits)) /\ DOMAIN NoChanges = {}
  BY PageIs, BoundsIs, DiffIs
<1>4. /\ idb' \in Seq(Transactions(edits)) /\ DOMAIN idb' = DOMAIN q
      /\ \A i \in DOMAIN q : /\ q[i].tab # t => idb'[i] = q[i]
                             /\ q[i].tab = t => idb'[i].data = IF l THEN q[i].data ELSE NoChanges
  <2>1. PICK tb \in [Tab -> Pages(edits)] : QueueOK(q, tb) BY <1>2
  <2>2. q \in Seq(Transactions(edits)) BY <1>2
  <2>3. tb \in [Tab -> Pages(edits)] BY <2>1
  <2>4. l \in BOOLEAN BY <1>2
  <2>5. orphaned(t, q, l) \in Seq(Transactions(edits)) BY <2>1, <2>2, <2>3, <2>4, QueueOrphaned
  <2>6. /\ DOMAIN orphaned(t, q, l) = DOMAIN q
        /\ \A i \in DOMAIN q : /\ q[i].tab # t => orphaned(t, q, l)[i] = q[i]
                               /\ q[i].tab = t => orphaned(t, q, l)[i].data = IF l THEN q[i].data ELSE NoChanges
    BY OrphanedAt
  <2>7. QED BY <1>2, <2>5, <2>6
<1>5. NoTab.unheard = NoChanges /\ DOMAIN tab[t].unheard \subseteq lost' BY <1>1 DEF NoTab
<1>6. \A u \in Tab \ {t} : inbox'[u] = inbox[u] BY <1>1 DEF TypeInv, InboxOK
<1>7. ASSUME NEW r \in Record \ lost', Safe(r) \/ Held(t, r) PROVE Safe(r)'
  <2>1. Safe(r)' <=> StoredOn(disk, r, idb') = latest[r] BY <1>1, StoredHolds DEF Safe
  <2>2. CASE Writing(t, r) \/ Pending(t, r)
    <3>1. Stored(r, idb') = latest[r] BY <1>1, <2>2 DEF GivenUp
    <3>2. QED BY <2>1, <3>1, StoredHolds
  <2>3. CASE ~Writing(t, r) /\ ~Pending(t, r)
    <3>1. StoredOn(disk, r, idb) = latest[r] BY <1>7, <2>3, HeldIsPending, StoredHolds DEF Safe
    <3>2. r \notin DOMAIN p.unheard /\ Shown(t, r) /\ Owned(t, r) /\ r \notin UnderWay(t)
      BY <1>1, UpToDateIs DEF ShownInv, PairOK
    <3>3. r \in DOMAIN p.queue => p.queue[r] = latest[r] BY <3>2 DEF Owned
    <3>4. p.phase # "loading" /\ Persists(p) => p.phase = "loaded" /\ ~p.isReloading /\ p.store[r] = latest[r]
      BY <1>1, <3>2, PersistsLoaded DEF Persists, Shown
    <3>5. p.phase # "loading" => StoredOn(disk, r, idb \o writes(t, p)) = latest[r]
      BY <1>3, <3>1, <3>3, <3>4, StoredWrites
    <3>6. StoredOn(disk, r, q) = latest[r] BY <1>2, <3>1, <3>5
    <3>7. ~(p.phase # "loading" /\ Writes(p, r, latest[r]))
      BY <1>1, <2>3, <3>4 DEF Writes, Pending
    <3>8. ~HasWrite(q, t, r, latest[r])
      <4>1. ~HasWrite(idb, t, r, latest[r]) BY <2>3, WritingIs
      <4>2. HasWrite(idb \o writes(t, p), t, r, latest[r]) => HasWrite(idb, t, r, latest[r]) \/ Writes(p, r, latest[r])
        BY <1>3, HasWrites
      <4>3. QED BY <1>2, <3>7, <4>1, <4>2
    <3>9. \A i \in DOMAIN q : q[i].tab = t => ~LastOf(r, q, i)
      <4>1. SUFFICES ASSUME NEW i \in DOMAIN q, q[i].tab = t, LastOf(r, q, i) PROVE FALSE
        OBVIOUS
      <4>2. StoredOn(disk, r, q) = q[i].data[r]
        <5>1. q \in Seq(Transactions(edits)) BY <1>2
        <5>2. LastOf(r, q, i) BY <4>1
        <5>3. \A j : LastOf(r, q, j) => StoredOn(disk, r, q) = q[j].data[r] BY <5>1, StoredIs
        <5>4. QED BY <5>2, <5>3
      <4>3. r \in DOMAIN q[i].data BY <4>1 DEF LastOf
      <4>4. QED BY <3>6, <3>8, <4>1, <4>2, <4>3 DEF HasWrite
    <3>10. \A i \in DOMAIN q : idb'[i].data = q[i].data \/ (r \notin DOMAIN idb'[i].data /\ ~LastOf(r, q, i))
      BY <1>3, <1>4, <3>9
    <3>11. q \in Seq(Transactions(edits)) /\ idb' \in Seq(Transactions(edits)) /\ DOMAIN idb' = DOMAIN q BY <1>2, <1>4
    <3>12. StoredOn(disk, r, idb') = StoredOn(disk, r, q) BY <3>10, <3>11, StoredKept
    <3>13. QED BY <2>1, <3>6, <3>12
  <2>4. QED BY <2>2, <2>3
<1>8. lost \subseteq lost' /\ UNCHANGED latest BY <1>1
<1>9. QED BY <1>1, <1>5, <1>6, <1>7, <1>8, AloneHeld

LEMMA InitHeld == Init => HeldInv
<1>1. SUFFICES ASSUME Init, NEW r \in Record PROVE Safe(r)
  BY DEF HeldInv
<1>2. disk[r] = 0 /\ latest[r] = 0 /\ idb = <<>> BY <1>1 DEF Init, Empty
<1>3. QED BY <1>2 DEF Safe, Stored

LEMMA NextHeld == TypeInv /\ ShownInv /\ HeldInv /\ [Next]_vars => HeldInv'
<1> SUFFICES ASSUME TypeInv, ShownInv, HeldInv, [Next]_vars PROVE HeldInv'
  OBVIOUS
<1>1. CASE Database BY <1>1, CommitsHeld, ReadsHeld DEF Database
<1>2. CASE Fails BY <1>2, FailsHeld
<1>3. CASE Release \/ UNCHANGED vars
  <2>1. UNCHANGED <<tab, inbox, disk, idb, latest, lost>> BY <1>3 DEF Release, vars, ghosts
  <2>2. \A r \in Record : Safe(r)' <=> Safe(r) BY <2>1, SafeKept
  <2>3. \A r \in Record, u \in Tab : Held(u, r)' <=> Held(u, r) BY <2>1 DEF Held, UnderWay
  <2>4. QED BY <2>1, <2>2, <2>3 DEF HeldInv
<1>4. ASSUME NEW t \in Tab, TabStep(t) PROVE HeldInv'
  <2>1. CASE Loads(t) BY <2>1, LoadsHeld
  <2>2. CASE Report(t) BY <2>2, ReportHeld
  <2>3. CASE PersistTimer(t) BY <2>3, PersistTimerHeld
  <2>4. CASE Hears(t) BY <2>4, IgnoresHeld, HearsNewerHeld, HearsOlderHeld, HearsSameHeld DEF Hears
  <2>5. QED BY <1>4, <2>1, <2>2, <2>3, <2>4 DEF TabStep
<1>5. ASSUME NEW t \in Tab, PersonStep(t) PROVE HeldInv'
  <2>1. CASE Open(t) BY <2>1, OpenHeld
  <2>2. CASE Close(t) BY <2>2, CloseHeld
  <2>3. CASE CloseUnloaded(t) BY <2>3, CloseUnloadedHeld
  <2>4. CASE Unload(t) BY <2>4, UnloadHeld
  <2>5. CASE Hide(t) BY <2>5, HideHeld
  <2>6. CASE SessionChanges(t) BY <2>6, SessionChangesHeld
  <2>7. ASSUME NEW r \in Record, Edit(t, r) PROVE HeldInv'
    BY <2>7, EditHeld
  <2>8. QED BY <1>5, <2>1, <2>2, <2>3, <2>4, <2>5, <2>6, <2>7 DEF PersonStep
<1>6. QED BY <1>1, <1>2, <1>3, <1>4, <1>5 DEF Next

LEMMA HeldImplies == HeldInv => EditsAccountedFor
<1>1. QED BY HeldIsPending DEF HeldInv, EditsAccountedFor, Safe

\* No edit falls between the queue, the write in flight, the database and
\* close(): whatever fails, is killed, hidden, unloaded or written in between by
\* another tab, a record's last edit is stored, or a page still has it to write,
\* or the code gives it up in one of the ways that lost names
\* (TLLocalSyncClient.ts:284-322, 397-450).
THEOREM LocalEditsAccountedFor == Spec => []EditsAccountedFor
<1>1. Init => TypeInv /\ ShownInv /\ HeldInv BY InitTypes, InitShown, InitHeld
<1>2. TypeInv /\ ShownInv /\ HeldInv /\ [Next]_vars => (TypeInv /\ ShownInv /\ HeldInv)'
  BY NextTypes, NextShown, NextHeld
<1>3. HeldInv => EditsAccountedFor BY HeldImplies
<1>4. QED BY <1>1, <1>2, <1>3, PTL DEF Spec
=============================================================================
