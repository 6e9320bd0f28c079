----------------------------- MODULE BoundedSets -----------------------------
(***************************************************************************)
(* Facts about the least and the greatest element of a bounded set of      *)
(* integers, for the operators Min and Max of FiniteSetsExt that the       *)
(* components are built from.                                              *)
(***************************************************************************)
EXTENDS FiniteSetsExt, FiniteSetTheorems, WellFoundedInduction, TLAPS

\* A nonempty set of naturals has a least element: the initial segments below
\* its members have a minimal one under strict inclusion.
LEMMA LeastNatural ==
    ASSUME NEW S \in SUBSET Nat, S # {}
    PROVE  \E m \in S : \A x \in S : m <= x
<1> DEFINE Below == {0..x : x \in S}
<1>1. Below \subseteq FiniteSubsetsOf(Nat)
  <2> SUFFICES ASSUME NEW x \in S  PROVE 0..x \in FiniteSubsetsOf(Nat)
    OBVIOUS
  <2>1. IsFiniteSet(0..x)
    BY FS_Interval
  <2>2. 0..x \subseteq Nat
    OBVIOUS
  <2>3. QED
    BY <2>1, <2>2 DEF FiniteSubsetsOf
<1>2. Below # {}
  OBVIOUS
<1>3. \E w \in Below : \A v \in Below : ~(<<v, w>> \in StrictSubsetOrdering(Nat))
  <2> HIDE DEF Below
  <2> QED  BY <1>1, <1>2, FS_StrictSubsetOrderingWellFounded, WFMin
<1>4. PICK m \in S : \A v \in Below : ~(<<v, 0..m>> \in StrictSubsetOrdering(Nat))
  BY <1>3
<1>5. ASSUME NEW x \in S, x < m  PROVE FALSE
  <2>1. 0..x \subseteq 0..m /\ 0..x \subseteq Nat /\ 0..m \subseteq Nat
    BY <1>5
  <2>2. 0..x # 0..m
    <3>1. m \in 0..m /\ m \notin 0..x
      BY <1>5
    <3>2. QED
      BY <3>1
  <2>3. <<0..x, 0..m>> \in StrictSubsetOrdering(Nat)
    BY <2>1, <2>2 DEF StrictSubsetOrdering
  <2>4. QED
    BY <2>3, <1>4
<1>6. QED
  BY <1>5

\* Min of a nonempty set of integers bounded below is its least element.
LEMMA MinInt ==
    ASSUME NEW b \in Int, NEW S \in SUBSET Int, S # {}, \A x \in S : b <= x
    PROVE  Min(S) \in S /\ \A x \in S : Min(S) <= x
<1> DEFINE T == {x - b : x \in S}
<1>1. \A x \in S : x \in Int /\ x - b \in Nat
  OBVIOUS
<1>2. PICK m \in T : \A x \in T : m <= x
  <2>1. T \in SUBSET Nat /\ T # {}
    BY <1>1
  <2>2. QED
    <3> HIDE DEF T
    <3> QED  BY <2>1, LeastNatural
<1>3. PICK s \in S : m = s - b
  BY <1>2
<1>4. \A x \in S : s <= x
  <2> TAKE x \in S
  <2>1. s - b <= x - b
    BY <1>2, <1>3
  <2>2. QED
    BY <2>1, <1>1
<1>5. QED
  BY <1>4 DEF Min

\* Max of a nonempty set of integers bounded above is its greatest element.
LEMMA MaxInt ==
    ASSUME NEW b \in Int, NEW S \in SUBSET Int, S # {}, \A x \in S : x <= b
    PROVE  Max(S) \in S /\ \A x \in S : x <= Max(S)
<1> DEFINE T == {b - x : x \in S}
<1>1. \A x \in S : x \in Int /\ b - x \in Nat
  OBVIOUS
<1>2. PICK m \in T : \A x \in T : m <= x
  <2>1. T \in SUBSET Nat /\ T # {}
    BY <1>1
  <2>2. QED
    <3> HIDE DEF T
    <3> QED  BY <2>1, LeastNatural
<1>3. PICK s \in S : m = b - s
  BY <1>2
<1>4. \A x \in S : x <= s
  <2> TAKE x \in S
  <2>1. b - s <= b - x
    BY <1>2, <1>3
  <2>2. QED
    BY <2>1, <1>1
<1>5. QED
  BY <1>4 DEF Max

\* Min of two integers is the smaller one.
LEMMA MinPair ==
    ASSUME NEW a \in Int, NEW b \in Int
    PROVE  Min({a, b}) = IF a <= b THEN a ELSE b
<1>1. CASE a <= b
  <2>1. a \in {a, b} /\ \A x \in {a, b} : a <= x
    BY <1>1
  <2>2. QED
    BY <2>1, <1>1 DEF Min
<1>2. CASE b < a
  <2>1. b \in {a, b} /\ \A x \in {a, b} : b <= x
    BY <1>2
  <2>2. QED
    BY <2>1, <1>2 DEF Min
<1>3. QED
  BY <1>1, <1>2

\* Max of two integers is the greater one.
LEMMA MaxPair ==
    ASSUME NEW a \in Int, NEW b \in Int
    PROVE  Max({a, b}) = IF a <= b THEN b ELSE a
<1>1. CASE a <= b
  <2>1. b \in {a, b} /\ \A x \in {a, b} : b >= x
    BY <1>1
  <2>2. QED
    BY <2>1, <1>1 DEF Max
<1>2. CASE b < a
  <2>1. a \in {a, b} /\ \A x \in {a, b} : a >= x
    BY <1>2
  <2>2. QED
    BY <2>1, <1>2 DEF Max
<1>3. QED
  BY <1>1, <1>2

=============================================================================
