------------------------------ MODULE OrderLemmas ------------------------------
(***************************************************************************)
(* Facts about numbers and finite sets of them that several proofs need.   *)
(***************************************************************************)
EXTENDS Integers, WellFoundedInduction, FiniteSetTheorems, TLAPS

\* A set of natural numbers has a least one: what holds of all of them is proved by looking at the
\* least counterexample.
LEMMA LeastNatural ==
  ASSUME NEW T \in SUBSET Nat, T # {}
  PROVE  \E m \in T : \A k \in T : m <= k
<1> DEFINE R == OpToRel(<, Nat)
<1>1. IsWellFoundedOn(R, Nat)
  BY NatLessThanWellFounded
<1>2. \A i, j \in Nat : i < j => <<i, j>> \in R
  BY DEF OpToRel
<1> HIDE DEF R
<1>3. PICK m \in T : \A k \in T : ~(<<k, m>> \in R)
  BY <1>1, WFMin
<1>4. ASSUME NEW k \in T PROVE m <= k
  <2>1. k \in Nat /\ m \in Nat
    OBVIOUS
  <2>2. ~(k < m)
    BY <1>2, <1>3, <2>1
  <2>3. QED
    BY <2>1, <2>2
<1>5. QED
  BY <1>4

LEMMA GreatestNatural ==
  ASSUME NEW b \in Nat, NEW T \in SUBSET (0 .. b), T # {}
  PROVE  \E m \in T : \A k \in T : k <= m
<1> DEFINE Mirror == {x \in Nat : x <= b /\ b - x \in T}
<1>1. Mirror \in SUBSET Nat /\ Mirror # {}
  <2>1. PICK t \in T : TRUE
    OBVIOUS
  <2>2. b - t \in Nat /\ b - t <= b /\ b - (b - t) = t
    BY <2>1
  <2>3. QED
    BY <2>1, <2>2
<1>2. PICK x \in Mirror : \A y \in Mirror : x <= y
  BY <1>1, LeastNatural
<1>3. x \in Nat /\ x <= b /\ b - x \in T
  BY <1>2
<1>4. ASSUME NEW k \in T PROVE k <= b - x
  <2>1. k \in Int /\ b - k \in Nat /\ b - k <= b /\ b - (b - k) = k
    OBVIOUS
  <2>2. b - k \in Mirror
    BY <2>1
  <2>3. x <= b - k
    BY <1>2, <2>2
  <2>4. QED
    BY <1>3, <2>1, <2>3
<1>5. QED
  BY <1>3, <1>4

-------------------------------------------------------------------------------
(* The first of a finite set of numbers.                                    *)

\* Those greater than a number.
Above(numbers, i) == {j \in numbers : j > i}

\* The first n of a set of numbers, from the greatest down.
Leading(numbers, n) == {i \in numbers : Cardinality(Above(numbers, i)) < n}

LEMMA AboveIsFinite ==
  ASSUME NEW b \in Nat, NEW S \in SUBSET (1 .. b), NEW i
  PROVE  /\ IsFiniteSet(S) /\ Cardinality(S) \in Nat
         /\ IsFiniteSet(Above(S, i)) /\ Cardinality(Above(S, i)) \in Nat
         /\ i \in S => Cardinality(Above(S, i)) < Cardinality(S)
<1>1. IsFiniteSet(1 .. b)
  BY FS_Interval
<1>2. IsFiniteSet(S) /\ Cardinality(S) \in Nat
  BY <1>1, FS_Subset, FS_CardinalityType
<1>3. Above(S, i) \in SUBSET S
  BY DEF Above
<1>4. /\ IsFiniteSet(Above(S, i)) /\ Cardinality(Above(S, i)) \in Nat
      /\ Cardinality(Above(S, i)) <= Cardinality(S)
      /\ Cardinality(S) = Cardinality(Above(S, i)) => S = Above(S, i)
  BY <1>2, <1>3, FS_Subset, FS_CardinalityType
<1>5. i \in S => Above(S, i) # S
  BY DEF Above
<1>6. QED
  BY <1>2, <1>4, <1>5

\* The first n are all of a set, if it has no more.
LEMMA LeadingOfFew ==
  ASSUME NEW b \in Nat, NEW S \in SUBSET (1 .. b), NEW n \in Nat, Cardinality(S) <= n
  PROVE  Leading(S, n) = S
<1>1. ASSUME NEW i \in S PROVE Cardinality(Above(S, i)) < n
  <2>1. /\ Cardinality(S) \in Nat /\ Cardinality(Above(S, i)) \in Nat
        /\ Cardinality(Above(S, i)) < Cardinality(S)
    BY AboveIsFinite
  <2>2. QED
    BY <2>1
<1>2. QED
  BY <1>1 DEF Leading

LEMMA LeadingOfNone ==
  ASSUME NEW b \in Nat, NEW S \in SUBSET (1 .. b) PROVE Leading(S, 0) = {}
<1>1. ASSUME NEW i \in S PROVE ~(Cardinality(Above(S, i)) < 0)
  <2>1. Cardinality(Above(S, i)) \in Nat
    BY AboveIsFinite
  <2>2. QED
    BY <2>1
<1>2. QED
  BY <1>1 DEF Leading

\* What comes to a set takes nothing else to its first n.
LEMMA LeadingOfMore ==
  ASSUME NEW b \in Nat, NEW S \in SUBSET (1 .. b), NEW R \in SUBSET S, NEW n \in Nat
  PROVE  Leading(S, n) \cap R \subseteq Leading(R, n)
<1>1. ASSUME NEW i \in R, Cardinality(Above(S, i)) < n PROVE Cardinality(Above(R, i)) < n
  <2>1. IsFiniteSet(Above(S, i)) /\ Cardinality(Above(S, i)) \in Nat
    BY AboveIsFinite
  <2>2. Above(R, i) \in SUBSET Above(S, i)
    BY DEF Above
  <2>3. Cardinality(Above(R, i)) <= Cardinality(Above(S, i)) /\ Cardinality(Above(R, i)) \in Nat
    BY <2>1, <2>2, FS_Subset, FS_CardinalityType
  <2>4. QED
    BY <1>1, <2>1, <2>3
<1>2. QED
  BY <1>1 DEF Leading

\* When one goes that is not among the first n, no other comes among them.
LEMMA LeadingOfLess ==
  ASSUME NEW b \in Nat, NEW S \in SUBSET (1 .. b), NEW n \in Nat, NEW e \in S, e \notin Leading(S, n)
  PROVE  Leading(S \ {e}, n) \subseteq Leading(S, n)
<1> DEFINE R == S \ {e}
<1>1. R \in SUBSET (1 .. b) /\ e \in Int /\ \A i \in S : i \in Int
  OBVIOUS
<1>2. ASSUME NEW i \in R, Cardinality(Above(R, i)) < n PROVE Cardinality(Above(S, i)) < n
  <2>1. CASE e < i
    <3>1. Above(R, i) = Above(S, i)
      BY <1>1, <2>1 DEF Above
    <3>2. QED
      BY <1>2, <3>1
  <2>2. CASE e > i
    <3>1. Above(S, e) \in SUBSET Above(R, i)
      <4>1. ASSUME NEW j \in S, j > e PROVE j \in R /\ j > i
        BY <1>1, <2>2, <4>1
      <4>2. QED
        BY <4>1 DEF Above
    <3>2. IsFiniteSet(Above(R, i)) /\ Cardinality(Above(R, i)) \in Nat
      BY <1>1, AboveIsFinite
    <3>3. Cardinality(Above(S, e)) <= Cardinality(Above(R, i)) /\ Cardinality(Above(S, e)) \in Nat
      BY <3>1, <3>2, FS_Subset, FS_CardinalityType
    <3>4. Cardinality(Above(S, e)) < n
      BY <1>2, <3>2, <3>3
    <3>5. QED
      BY <3>4 DEF Leading
  <2>3. e < i \/ e > i
    BY <1>1
  <2>4. QED
    BY <2>1, <2>2, <2>3
<1>3. QED
  BY <1>2 DEF Leading

\* With one place more, the first n grow by the greatest that is not among them.
LEMMA LeadingGrow ==
  ASSUME NEW b \in Nat, NEW S \in SUBSET (1 .. b), NEW n \in Nat, Cardinality(Leading(S, n)) = n
  PROVE  Leading(S, n + 1) = S \/ Cardinality(Leading(S, n + 1)) = n + 1
<1> DEFINE T == Leading(S, n)
<1>1. \A i \in S : Cardinality(Above(S, i)) \in Nat
  BY AboveIsFinite
<1>2. T \in SUBSET S /\ \A i \in S : i \in T <=> Cardinality(Above(S, i)) < n
  BY DEF Leading
<1> HIDE DEF T
<1>3. CASE T = S
  <2>1. \A i \in S : Cardinality(Above(S, i)) < n + 1
    BY <1>1, <1>2, <1>3
  <2>2. QED
    BY <2>1 DEF Leading
<1>4. CASE T # S
  <2>1. PICK m \in S \ T : \A k \in S \ T : k <= m
    <3>1. S \ T \in SUBSET (0 .. b) /\ S \ T # {}
      <4>1. \A x \in S : x \in 0 .. b
        OBVIOUS
      <4>2. QED
        BY <1>2, <1>4, <4>1
    <3>2. QED
      BY <3>1, GreatestNatural
  <2>2. ASSUME NEW i \in S, NEW j \in S, i < j
        PROVE  /\ Cardinality(Above(S, j)) < Cardinality(Above(S, i))
               /\ Cardinality(Above(S, j)) \in Nat /\ Cardinality(Above(S, i)) \in Nat
    <3>1. IsFiniteSet(Above(S, i)) /\ Cardinality(Above(S, i)) \in Nat
      BY AboveIsFinite
    <3>2. Above(S, j) \in SUBSET Above(S, i) /\ j \in Above(S, i) /\ j \notin Above(S, j)
      <4>1. \A x \in S : x \in Int
        OBVIOUS
      <4>2. \A x \in S : x > j => x > i
        BY <2>2, <4>1
      <4>3. j > i /\ ~(j > j)
        BY <2>2, <4>1
      <4>4. QED
        BY <4>2, <4>3 DEF Above
    <3>3. /\ Cardinality(Above(S, j)) <= Cardinality(Above(S, i)) /\ Cardinality(Above(S, j)) \in Nat
          /\ Cardinality(Above(S, i)) = Cardinality(Above(S, j)) => Above(S, i) = Above(S, j)
      BY <3>1, <3>2, FS_Subset, FS_CardinalityType
    <3>4. QED
      BY <3>1, <3>2, <3>3
  <2>3. Above(S, m) = T
    <3>1. ASSUME NEW k \in S, k > m PROVE k \in T
      BY <2>1, <3>1
    <3>2. ASSUME NEW k \in T PROVE k > m
      <4>1. k \in S /\ m \in S /\ k # m /\ k \in Int /\ m \in Int
        BY <1>2, <2>1
      <4>2. CASE k < m
        <5>1. Cardinality(Above(S, m)) < Cardinality(Above(S, k)) /\ Cardinality(Above(S, k)) < n
          BY <1>2, <2>2, <3>2, <4>1, <4>2
        <5>2. Cardinality(Above(S, m)) < n
          BY <1>1, <4>1, <5>1
        <5>3. QED
          BY <1>2, <2>1, <5>2
      <4>3. QED
        BY <4>1, <4>2
    <3>3. QED
      BY <1>2, <3>1, <3>2 DEF Above
  <2>4. Cardinality(Above(S, m)) = n
    BY <2>3 DEF T
  <2>5. Leading(S, n + 1) = T \cup {m}
    <3>1. \A i \in T : Cardinality(Above(S, i)) < n + 1
      BY <1>1, <1>2
    <3>2. ASSUME NEW i \in S \ T, i # m PROVE ~(Cardinality(Above(S, i)) < n + 1)
      <4>1. i < m /\ i \in S /\ m \in S
        BY <2>1, <3>2
      <4>2. Cardinality(Above(S, m)) < Cardinality(Above(S, i)) /\ Cardinality(Above(S, i)) \in Nat
        BY <2>2, <4>1
      <4>3. QED
        BY <2>4, <4>2
    <3>3. Leading(S, n + 1) = {i \in S : Cardinality(Above(S, i)) < n + 1}
      BY DEF Leading
    <3>4. m \in S /\ Cardinality(Above(S, m)) < n + 1
      BY <2>1, <2>4
    <3>5. \A i \in S : Cardinality(Above(S, i)) < n + 1 <=> i \in T \cup {m}
      BY <3>1, <3>2, <3>4
    <3>6. QED
      BY <1>2, <2>1, <3>3, <3>5
  <2>6. IsFiniteSet(T) /\ m \notin T
    <3>1. IsFiniteSet(S)
      BY AboveIsFinite
    <3>2. QED
      BY <1>2, <2>1, <3>1, FS_Subset
  <2>7. Cardinality(T \cup {m}) = Cardinality(T) + 1
    BY <2>6, FS_AddElement
  <2>8. QED
    BY <2>5, <2>7 DEF T
<1>5. QED
  BY <1>3, <1>4

\* The first n are n of them, or all.
LEMMA LeadingAreFull ==
  ASSUME NEW b \in Nat, NEW S \in SUBSET (1 .. b), NEW n \in Nat
  PROVE  Leading(S, n) = S \/ Cardinality(Leading(S, n)) = n
<1> DEFINE T == {k \in Nat : ~(Leading(S, k) = S \/ Cardinality(Leading(S, k)) = k)}
<1>1. SUFFICES ASSUME T # {} PROVE FALSE
  OBVIOUS
<1>2. PICK k \in T : \A i \in T : k <= i
  BY <1>1, LeastNatural
<1>3. CASE k = 0
  BY <1>2, <1>3, LeadingOfNone, FS_EmptySet
<1>4. CASE k > 0
  <2>1. k - 1 \in Nat /\ k - 1 \notin T /\ (k - 1) + 1 = k
    BY <1>2, <1>4
  <2>2. CASE Leading(S, k - 1) = S
    <3>1. \A i \in S : Cardinality(Above(S, i)) \in Nat
      BY AboveIsFinite
    <3>2. \A i \in S : Cardinality(Above(S, i)) < k - 1
      BY <2>2 DEF Leading
    <3>3. \A i \in S : Cardinality(Above(S, i)) < k
      BY <2>1, <3>1, <3>2
    <3>4. Leading(S, k) = S
      BY <3>3 DEF Leading
    <3>5. QED
      BY <1>2, <3>4
  <2>3. CASE Cardinality(Leading(S, k - 1)) = k - 1
    <3>1. Leading(S, (k - 1) + 1) = S \/ Cardinality(Leading(S, (k - 1) + 1)) = (k - 1) + 1
      BY <2>1, <2>3, LeadingGrow
    <3>2. QED
      BY <1>2, <2>1, <3>1
  <2>4. QED
    BY <2>1, <2>2, <2>3
<1>5. QED
  BY <1>2, <1>3, <1>4

===============================================================================
