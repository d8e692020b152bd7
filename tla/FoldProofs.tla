----------------------------- MODULE FoldProofs -----------------------------
(***************************************************************************)
(* Folds over finite sets.  FoldSet and FoldLeft stand for a recursive     *)
(* function, chosen by the equation it obeys, and nothing is known of it   *)
(* before there is shown to be a function that does (FoldDefined).  What a *)
(* fold keeps then follows by induction on the set (SubsetInduction),      *)
(* which is stated of a set of sets rather than of a property, so that it  *)
(* can be cited.                                                           *)
(***************************************************************************)
EXTENDS Integers, FiniteSets, FiniteSetTheorems, WellFoundedInduction, TLAPS

\* What holds of the empty set, and of a set whenever it holds of the set without
\* one of its elements, holds of every finite set.
LEMMA SubsetInduction ==
  ASSUME NEW S, IsFiniteSet(S), NEW G, {} \in G,
         \A s \in SUBSET S : s # {} /\ (\A x \in s : s \ {x} \in G) => s \in G
  PROVE  S \in G
<1> DEFINE B == {s \in SUBSET S : s \notin G}
<1>1. SUFFICES ASSUME S \notin G PROVE FALSE
  OBVIOUS
<1>2. IsWellFoundedOn(StrictSubsetOrdering(S), SUBSET S)
  BY FS_StrictSubsetOrderingWellFounded, FS_FiniteSubsetsOfFinite
<1>3. PICK s \in B : \A u \in B : ~(<<u, s>> \in StrictSubsetOrdering(S))
  <2>1. B # {} /\ B \subseteq SUBSET S BY <1>1
  <2>2. QED BY <1>2, <2>1, WFMin
<1>4. \A x \in s : s \ {x} \in G
  <2>1. SUFFICES ASSUME NEW x \in s, s \ {x} \notin G PROVE FALSE
    OBVIOUS
  <2>2. s \ {x} \in B BY <2>1
  <2>3. <<s \ {x}, s>> \in StrictSubsetOrdering(S) BY <2>1, <2>2 DEF StrictSubsetOrdering
  <2>4. QED BY <1>3, <2>2, <2>3
<1>5. QED BY <1>3, <1>4

\* A choice of an element from every set that has one.
Picks(pick, S) == \A s \in SUBSET S : s # {} => pick[s] \in s

\* The recursion of a fold over the subsets of S: step[x] is what x does to a
\* value.
Folds(it, S, base, step, pick) ==
  \A s \in SUBSET S : it[s] = IF s = {} THEN base ELSE step[pick[s]][it[s \ {pick[s]}]]

\* Over a finite set there is such a fold.
LEMMA FoldDefined ==
  ASSUME NEW S, IsFiniteSet(S), NEW R, NEW base \in R, NEW step \in [S -> [R -> R]], NEW pick, Picks(pick, S)
  PROVE  \E it \in [SUBSET S -> R] : Folds(it, S, base, step, pick)
<1>0. \A s \in SUBSET S : s # {} => pick[s] \in s
  BY DEF Picks
<1> DEFINE P == (SUBSET S) \X R
           Closed(Q) == /\ <<{}, base>> \in Q
                        /\ \A s \in SUBSET S, v \in R :
                             s # {} /\ <<s \ {pick[s]}, v>> \in Q => <<s, step[pick[s]][v]>> \in Q
           I == {p \in P : \A Q \in SUBSET P : Closed(Q) => p \in Q}
           Only(s) == \E v \in R : \A w \in R : <<s, w>> \in I <=> w = v
           G == {s \in SUBSET S : Only(s)}
<1> HIDE DEF P
<1>p. \A s \in SUBSET S, v \in R : <<s, v>> \in P
  BY DEF P
<1>q. \A s \in SUBSET S, v \in R : s # {} => step[pick[s]][v] \in R
  <2>1. \A x \in S, v \in R : step[x][v] \in R OBVIOUS
  <2>2. QED BY <2>1, <1>0
<1>1. <<{}, base>> \in I /\ \A s \in SUBSET S, v \in R :
        s # {} /\ <<s \ {pick[s]}, v>> \in I => <<s, step[pick[s]][v]>> \in I
  BY <1>p, <1>q
<1>2. Only({})
  <2>1. SUFFICES ASSUME NEW w \in R, w # base, <<{}, w>> \in I PROVE FALSE
    BY <1>1
  <2>2. Closed(P \ {<<{}, w>>})
    <3>1. \A s \in SUBSET S, v \in R : s # {} => <<s, step[pick[s]][v]>> \in P
      BY <1>p, <1>q
    <3>2. QED BY <1>p, <2>1, <3>1
  <2>3. QED BY <2>1, <2>2
<1>3. ASSUME NEW s \in SUBSET S, s # {}, \A x \in s : s \ {x} \in G
      PROVE  Only(s)
  <2>1. PICK v \in R : \A w \in R : <<s \ {pick[s]}, w>> \in I <=> w = v
    BY <1>0, <1>3
  <2>2. <<s, step[pick[s]][v]>> \in I /\ step[pick[s]][v] \in R
    BY <1>1, <1>3, <1>q, <2>1
  <2>3. SUFFICES ASSUME NEW w \in R, w # step[pick[s]][v], <<s, w>> \in I PROVE FALSE
    BY <2>2
  <2>4. Closed(I \ {<<s, w>>})
    <3>1. <<{}, base>> \in I \ {<<s, w>>} BY <1>1, <1>3
    <3>2. ASSUME NEW u \in SUBSET S, NEW x \in R, u # {}, <<u \ {pick[u]}, x>> \in I \ {<<s, w>>}
          PROVE  <<u, step[pick[u]][x]>> \in I \ {<<s, w>>}
      <4>1. <<u, step[pick[u]][x]>> \in I BY <1>1, <3>2
      <4>2. u = s => x = v BY <2>1, <3>2
      <4>3. QED BY <4>1, <4>2, <2>3
    <3>3. QED BY <3>1, <3>2
  <2>5. I \ {<<s, w>>} \in SUBSET P OBVIOUS
  <2>6. QED BY <2>3, <2>4, <2>5
<1>4. \A s \in SUBSET S : Only(s)
  <2>1. SUFFICES ASSUME NEW s \in SUBSET S PROVE s \in G
    OBVIOUS
  <2>2. IsFiniteSet(s) BY FS_Subset
  <2>3. \A u \in SUBSET s : u # {} /\ (\A x \in u : u \ {x} \in G) => u \in G
    BY <1>3
  <2>4. {} \in G BY <1>2
  <2> HIDE DEF G
  <2>5. QED BY <2>2, <2>3, <2>4, SubsetInduction
<1> DEFINE it == [s \in SUBSET S |-> CHOOSE v \in R : <<s, v>> \in I]
<1>5. \A s \in SUBSET S : it[s] \in R /\ <<s, it[s]>> \in I /\ \A w \in R : <<s, w>> \in I => w = it[s]
  <2> HIDE DEF I
  <2>1. QED BY <1>4
<1>6. it \in [SUBSET S -> R] BY <1>5
<1>7. it[{}] = base BY <1>1, <1>5
<1>8. ASSUME NEW s \in SUBSET S, s # {} PROVE it[s] = step[pick[s]][it[s \ {pick[s]}]]
  <2>1. <<s \ {pick[s]}, it[s \ {pick[s]}]>> \in I /\ it[s \ {pick[s]}] \in R
    BY <1>5
  <2>2. step[pick[s]][it[s \ {pick[s]}]] \in R BY <1>8, <1>q, <2>1
  <2> HIDE DEF I, it
  <2>3. QED BY <1>1, <1>5, <1>8, <2>1, <2>2
<1> HIDE DEF it
<1>9. QED BY <1>6, <1>7, <1>8 DEF Folds

\* A finite set of integers has a greatest element.
LEMMA GreatestOf ==
  ASSUME NEW S \in SUBSET Int, IsFiniteSet(S), S # {}
  PROVE  \E x \in S : \A y \in S : x >= y
<1> DEFINE G == {s \in SUBSET S : s # {} => \E x \in s : \A y \in s : x >= y}
<1>1. ASSUME NEW s \in SUBSET S, s # {}, \A x \in s : s \ {x} \in G PROVE s \in G
  <2>1. PICK x \in s : TRUE BY <1>1
  <2>2. CASE s \ {x} = {}
    <3>1. \A y \in s : x >= y BY <2>1, <2>2
    <3>2. QED BY <2>1, <3>1
  <2>3. CASE s \ {x} # {}
    <3>1. PICK z \in s \ {x} : \A y \in s \ {x} : z >= y BY <1>1, <2>1, <2>3
    <3>2. x \in Int /\ z \in Int BY <2>1, <3>1
    <3>3. CASE x >= z
      <4>1. \A y \in s : x >= y BY <3>1, <3>2, <3>3
      <4>2. QED BY <2>1, <4>1
    <3>4. CASE ~(x >= z)
      <4>1. \A y \in s : z >= y BY <3>1, <3>2, <3>4
      <4>2. QED BY <3>1, <4>1
    <3>5. QED BY <3>3, <3>4
  <2>4. QED BY <2>2, <2>3
<1>2. S \in G
  <2>1. {} \in G OBVIOUS
  <2> HIDE DEF G
  <2>2. QED BY <1>1, <2>1, SubsetInduction
<1>3. QED BY <1>2

\* What holds of 0, and of i whenever it holds of i - 1, holds up to n.
LEMMA CountingUp ==
  ASSUME NEW n \in Nat, NEW G, 0 \in G, \A i \in 1 .. n : i - 1 \in G => i \in G
  PROVE  \A i \in 0 .. n : i \in G
<1> DEFINE S == {i \in 0 .. n : \A j \in 0 .. i : j \in G}
<1>1. S \in SUBSET Int /\ 0 \in S /\ IsFiniteSet(S)
  <2>1. S \subseteq 0 .. n /\ 0 \in Int /\ n \in Int OBVIOUS
  <2>2. 0 \in S OBVIOUS
  <2>3. IsFiniteSet(S) BY <2>1, FS_Interval, FS_Subset
  <2>4. QED BY <2>1, <2>2, <2>3
<1>2. PICK x \in S : \A y \in S : x >= y BY <1>1, GreatestOf
<1>3. x = n
  <2>1. SUFFICES ASSUME x # n PROVE FALSE OBVIOUS
  <2>2. x + 1 \in 1 .. n /\ x + 1 - 1 = x /\ x \in G BY <1>2, <2>1
  <2>3. x + 1 \in G BY <2>2
  <2>4. \A j \in 0 .. x + 1 : j \in G BY <1>2, <2>3
  <2>5. x + 1 \in S BY <2>2, <2>4
  <2>6. QED BY <1>2, <2>5
<1>4. QED BY <1>2, <1>3

GreatestIn(s) == CHOOSE x \in s : \A y \in s : x >= y

LEMMA GreatestIsIn ==
  ASSUME NEW n \in Nat
  PROVE  /\ IsFiniteSet(1 .. n)
         /\ \A s \in SUBSET (1 .. n) : s # {} => GreatestIn(s) \in s
         /\ \A i \in 1 .. n : GreatestIn(1 .. i) = i /\ (1 .. i) \ {i} = 1 .. i - 1
<1>1. IsFiniteSet(1 .. n)
  <2>1. 1 \in Int /\ n \in Int OBVIOUS
  <2>2. QED BY <2>1, FS_Interval
<1>2. ASSUME NEW s \in SUBSET (1 .. n), s # {} PROVE GreatestIn(s) \in s
  <2>1. IsFiniteSet(s) BY <1>1, FS_Subset
  <2>2. \E x \in s : \A y \in s : x >= y BY <1>2, <2>1, GreatestOf
  <2>3. QED BY <2>2 DEF GreatestIn
<1>3. ASSUME NEW i \in 1 .. n PROVE GreatestIn(1 .. i) = i /\ (1 .. i) \ {i} = 1 .. i - 1
  <2>1. i \in 1 .. i /\ \A y \in 1 .. i : i >= y OBVIOUS
  <2>2. \A x \in 1 .. i : x >= i => x = i OBVIOUS
  <2>3. GreatestIn(1 .. i) = i BY <2>1, <2>2 DEF GreatestIn
  <2>4. QED BY <2>3
<1>4. QED BY <1>1, <1>2, <1>3

\* A fold over 1 .. n that takes the greatest element first, which is how
\* FoldLeft goes through a sequence.
FoldsDown(it, n, base, step) ==
  \A s \in SUBSET (1 .. n) :
    it[s] = IF s = {} THEN base ELSE step[GreatestIn(s)][it[s \ {GreatestIn(s)}]]

LEMMA SequenceFold ==
  ASSUME NEW n \in Nat, NEW R, NEW base \in R, NEW step \in [1 .. n -> [R -> R]]
  PROVE  \E it \in [SUBSET (1 .. n) -> R] : FoldsDown(it, n, base, step)
<1> DEFINE S == 1 .. n
           pick == [s \in SUBSET S |-> GreatestIn(s)]
<1>1. Picks(pick, S) BY GreatestIsIn DEF Picks
<1>2. PICK it \in [SUBSET S -> R] : Folds(it, S, base, step, pick)
  <2> HIDE DEF pick
  <2>1. QED BY <1>1, FoldDefined, GreatestIsIn
<1>3. QED BY <1>2 DEF Folds, FoldsDown
=============================================================================
