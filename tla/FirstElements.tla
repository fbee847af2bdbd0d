---------------------------- MODULE FirstElements ----------------------------
(***************************************************************************)
(* Facts about sets of numbers: about the first few elements of a set, for *)
(* the modules that take the first few of what is missing                  *)
(* (missing[:window_packets] in the code), and induction, for the decoder. *)
(***************************************************************************)
EXTENDS Integers, TLAPS, FiniteSetTheorems

First(S, n) == {s \in S : Cardinality({t \in S : t < s}) < n}

\* A larger element has more elements below it.
LEMMA RankGrows ==
  ASSUME NEW S \in SUBSET Int, IsFiniteSet(S), NEW x \in S, NEW y \in S, x < y
  PROVE  /\ Cardinality({t \in S : t < x}) \in Nat
         /\ Cardinality({t \in S : t < y}) \in Nat
         /\ Cardinality({t \in S : t < x}) < Cardinality({t \in S : t < y})
<1> DEFINE below(z) == {t \in S : t < z}
<1>0. ASSUME NEW t \in S, t < x
      PROVE  t < y
  <2>1. t \in Int /\ x \in Int /\ y \in Int
    OBVIOUS
  <2> QED BY <1>0, <2>1
<1>1. below(x) \in SUBSET S /\ below(y) \in SUBSET S /\ below(x) \cup {x} \in SUBSET below(y)
  BY <1>0
<1>2. IsFiniteSet(below(x)) /\ IsFiniteSet(below(y)) /\ x \notin below(x)
  BY <1>1, FS_Subset
<1> HIDE DEF below
<1>3. Cardinality(below(x)) \in Nat /\ Cardinality(below(y)) \in Nat
  BY <1>2, FS_CardinalityType
<1>4. Cardinality(below(x) \cup {x}) = Cardinality(below(x)) + 1
  BY <1>2, FS_AddElement
<1>5. Cardinality(below(x) \cup {x}) <= Cardinality(below(y))
  BY <1>1, <1>2, FS_Subset
<1> QED BY <1>3, <1>4, <1>5 DEF below

\* missing[:n] has no more than n elements.
LEMMA FirstSize ==
  ASSUME NEW S \in SUBSET Int, IsFiniteSet(S), NEW n \in Nat
  PROVE  /\ First(S, n) \subseteq S /\ IsFiniteSet(First(S, n))
         /\ Cardinality(First(S, n)) \in Nat /\ Cardinality(First(S, n)) <= n
<1> DEFINE T == First(S, n)
           rank == [s \in T |-> Cardinality({t \in S : t < s})]
<1>1. T \in SUBSET S
  BY DEF First
<1>2. IsFiniteSet(T) /\ Cardinality(T) \in Nat
  BY <1>1, FS_Subset, FS_CardinalityType
<1>3. rank \in [T -> 0 .. n - 1]
  <2> SUFFICES ASSUME NEW s \in T
               PROVE  Cardinality({t \in S : t < s}) \in 0 .. n - 1
    OBVIOUS
  <2>1. {t \in S : t < s} \in SUBSET S
    OBVIOUS
  <2>2. Cardinality({t \in S : t < s}) \in Nat
    BY <2>1, FS_Subset, FS_CardinalityType
  <2>3. Cardinality({t \in S : t < s}) < n
    BY DEF First
  <2> QED BY <2>2, <2>3
<1>4. ASSUME NEW x \in T, NEW y \in T, x # y
      PROVE  rank[x] # rank[y]
  <2>1. x \in Int /\ y \in Int /\ x \in S /\ y \in S
    BY <1>1
  <2>2. CASE x < y
    BY <2>1, <2>2, RankGrows
  <2>3. CASE y < x
    BY <2>1, <2>3, RankGrows
  <2> QED BY <2>1, <2>2, <2>3, <1>4
<1> HIDE DEF rank, T
<1>5. IsFiniteSet(0 .. n - 1) /\ Cardinality(0 .. n - 1) = n
  BY FS_Interval
<1>6. ~(Cardinality(0 .. n - 1) < Cardinality(T))
  BY <1>2, <1>3, <1>4, <1>5, FS_PigeonHole
<1> QED BY <1>1, <1>2, <1>5, <1>6 DEF T

\* A subset of the elements below s that has n elements keeps s out of the
\* first n.
LEMMA NotAmongFirst ==
  ASSUME NEW S \in SUBSET Int, IsFiniteSet(S), NEW n \in Nat, NEW s \in S,
         NEW K \in SUBSET S, \A k \in K : k < s, Cardinality(K) >= n
  PROVE  s \notin First(S, n)
<1> DEFINE below == {t \in S : t < s}
<1>1. below \in SUBSET S /\ K \in SUBSET below
  OBVIOUS
<1>2. IsFiniteSet(below) /\ IsFiniteSet(K)
  BY <1>1, FS_Subset
<1>3. Cardinality(below) \in Nat /\ Cardinality(K) \in Nat /\ Cardinality(K) <= Cardinality(below)
  BY <1>1, <1>2, FS_Subset, FS_CardinalityType
<1>4. ~(Cardinality(below) < n)
  BY <1>3
<1> QED BY <1>4 DEF First

\* Growing by at least one element counts.
LEMMA StrictlyMore ==
  ASSUME NEW T, IsFiniteSet(T), NEW S \in SUBSET T, S # T
  PROVE  /\ Cardinality(S) \in Nat /\ Cardinality(T) \in Nat
         /\ Cardinality(S) + 1 <= Cardinality(T)
<1>1. Cardinality(S) \in Nat /\ Cardinality(T) \in Nat
  BY FS_Subset, FS_CardinalityType
<1>2. Cardinality(S) <= Cardinality(T) /\ Cardinality(S) # Cardinality(T)
  BY FS_Subset
<1> QED BY <1>1, <1>2

\* A nonempty set of naturals has a least element.
LEMMA LeastElement ==
  ASSUME NEW S \in SUBSET Nat, S # {}
  PROVE  \E least \in S : \A y \in S : least <= y
<1> DEFINE R == OpToRel(<, Nat)
<1>1. IsWellFoundedOn(R, Nat)
  BY NatLessThanWellFounded
<1> HIDE DEF R
<1>2. PICK least \in S : \A y \in S : ~(<<y, least>> \in R)
  BY <1>1, WFMin
<1>3. ASSUME NEW y \in S PROVE least <= y
  <2>1. ~(y < least)
    BY <1>2 DEF R, OpToRel
  <2> QED BY <2>1
<1> QED BY <1>3

\* Induction from n down to 0, for a set in place of a predicate: a set that
\* contains each number all larger ones of which it contains is everything.
LEMMA DownwardInduction ==
  ASSUME NEW n \in Nat, NEW T,
         \A k \in 0 .. n : (\A m \in k + 1 .. n : m \in T) => k \in T
  PROVE  \A k \in 0 .. n : k \in T
<1> DEFINE Missed == {d \in 0 .. n : n - d \notin T}
<1>1. SUFFICES ASSUME NEW k \in 0 .. n, k \notin T PROVE FALSE
  OBVIOUS
<1>2. Missed \in SUBSET Nat /\ n - k \in Missed
  <2>1. n - (n - k) = k /\ n - k \in 0 .. n
    OBVIOUS
  <2> QED BY <1>1, <2>1
<1>3. PICK d \in Missed : \A e \in Missed : d <= e
  BY <1>2, LeastElement
<1>4. ASSUME NEW m \in n - d + 1 .. n PROVE m \in T
  <2>1. n - m \in 0 .. n /\ n - (n - m) = m /\ ~(d <= n - m)
    OBVIOUS
  <2>2. n - m \notin Missed
    BY <1>3, <2>1
  <2> QED BY <2>1, <2>2
<1>5. n - d \in 0 .. n
  OBVIOUS
<1> QED BY <1>4, <1>5

\* So missing[:n] is empty only when nothing is missing.
LEMMA FirstNonempty ==
  ASSUME NEW S \in SUBSET Nat, S # {}, IsFiniteSet(S), NEW n \in Nat \ {0}
  PROVE  First(S, n) # {}
<1>1. PICK least \in S : \A y \in S : least <= y
  BY LeastElement
<1>2. {t \in S : t < least} = {}
  <2>1. ASSUME NEW t \in S, t < least PROVE FALSE
    <3>1. least <= t /\ t \in Int /\ least \in Int
      BY <1>1
    <3> QED BY <2>1, <3>1
  <2> QED BY <2>1
<1>3. Cardinality({t \in S : t < least}) = 0
  BY <1>2, FS_EmptySet
<1> QED BY <1>3 DEF First
=============================================================================
