--------------------------- MODULE PositionsProofs ----------------------------
(***************************************************************************)
(* Facts about the places of a finite set of positions: there is a k-th    *)
(* one for each k up to its size, every position is one of them, and those *)
(* of an interval are its numbers in order.                                *)
(***************************************************************************)
EXTENDS Positions, FiniteSetTheorems, WellFoundedInduction, NaturalsInduction, TLAPS

\* A set of numbers that is not empty has a least one.
LEMMA Least ==
  ASSUME NEW T, T \subseteq Nat, T # {}
  PROVE  \E x \in T : \A y \in T : x <= y
<1> DEFINE R == OpToRel(<, Nat)
<1>1. PICK x \in T : \A y \in T : ~ (<<y, x>> \in R)
  BY NatLessThanWellFounded, WFMin
<1>2. \A y \in T : ~(y < x)
  BY <1>1 DEF OpToRel
<1>3. x \in Nat /\ \A y \in T : y \in Nat
  OBVIOUS
<1> HIDE DEF R
<1> QED
  BY <1>2, <1>3

\* A finite set of positions has a k-th one for each k up to its size.
LEMMA PlaceExists ==
  ASSUME NEW n \in Nat, NEW S \in SUBSET (1 .. n), NEW k \in 1 .. Cardinality(S)
  PROVE  Place(S, k) \in S /\ Cardinality({j \in S : j < Place(S, k)}) = k - 1
<1> DEFINE B(m) == {j \in S : j < m}
           T == {m \in Nat : Cardinality(B(m)) >= k}
<1>0. \A j \in S : j \in Nat /\ 1 <= j /\ j <= n
  OBVIOUS
<1>1. IsFiniteSet(S) /\ Cardinality(S) \in Nat
  <2>1. IsFiniteSet(1 .. n)
    BY FS_Interval
  <2> QED
    BY <2>1, FS_Subset, FS_CardinalityType
<1>2. \A m \in Nat : IsFiniteSet(B(m)) /\ Cardinality(B(m)) \in Nat
  <2>1. \A m \in Nat : B(m) \subseteq S
    OBVIOUS
  <2> HIDE DEF B
  <2> QED
    BY <1>1, <2>1, FS_Subset, FS_CardinalityType
<1>3. T \subseteq Nat /\ T # {}
  <2>0. n + 1 \in Nat /\ \A j \in S : j < n + 1
    BY <1>0
  <2>1. B(n + 1) = S /\ n + 1 \in Nat
    BY <2>0
  <2> HIDE DEF B
  <2> QED
    BY <1>1, <2>1
<1>4. PICK m \in T : \A y \in T : m <= y
  BY <1>3, Least
<1>5. m \in Nat /\ Cardinality(B(m)) >= k
  BY <1>4
<1>6. m # 0
  <2>0. \A j \in S : ~(j < 0)
    BY <1>0
  <2>1. B(0) = {}
    BY <2>0
  <2> HIDE DEF B
  <2>2. Cardinality(B(0)) = 0
    BY <2>1, FS_EmptySet
  <2> QED
    BY <1>5, <2>2
<1>7. m - 1 \in Nat /\ ~(Cardinality(B(m - 1)) >= k)
  <2>1. m - 1 \in Nat /\ ~(m <= m - 1)
    BY <1>5, <1>6
  <2> HIDE DEF B
  <2>2. m - 1 \notin T
    BY <1>4, <2>1
  <2> QED
    BY <2>1, <2>2
<1>8. /\ m - 1 \notin S => B(m) = B(m - 1)
      /\ m - 1 \in S => B(m) = B(m - 1) \cup {m - 1} /\ m - 1 \notin B(m - 1)
  <2>1. m \in Nat /\ m - 1 \in Nat /\ ~(m - 1 < m - 1) /\ m - 1 < m
    BY <1>5, <1>7
  <2>2. ASSUME NEW j \in S PROVE (j < m <=> j < m - 1 \/ j = m - 1)
    <3>1. j \in Nat
      BY <1>0
    <3> QED
      BY <2>1, <3>1
  <2> QED
    BY <2>1, <2>2
<1>9. m - 1 \in S /\ Cardinality(B(m)) = Cardinality(B(m - 1)) + 1
  <2> HIDE DEF B
  <2> QED
    BY <1>2, <1>5, <1>7, <1>8, FS_AddElement
<1>10. Cardinality(B(m - 1)) = k - 1
  <2> HIDE DEF B
  <2> QED
    BY <1>2, <1>5, <1>7, <1>9
<1> QED
  BY <1>9, <1>10 DEF Place

\* A later position has more positions below it.
LEMMA MoreBelow ==
  ASSUME NEW n \in Nat, NEW S \in SUBSET (1 .. n), NEW x \in S, NEW y \in S, x < y
  PROVE  Cardinality({j \in S : j < x}) < Cardinality({j \in S : j < y})
<1> DEFINE A == {j \in S : j < x}
           B == {j \in S : j < y}
<1>0. \A j \in S : j \in Nat
  OBVIOUS
<1>1. x \notin A /\ A \cup {x} \subseteq B
  <2>1. \A j \in S : j < x => j < y
    BY <1>0
  <2>2. ~(x < x)
    BY <1>0
  <2> QED
    BY <2>1, <2>2
<1>2. IsFiniteSet(S) /\ A \subseteq S /\ B \subseteq S
  <2>1. IsFiniteSet(1 .. n)
    BY FS_Interval
  <2> QED
    BY <2>1, FS_Subset
<1> HIDE DEF A, B
<1>3. IsFiniteSet(A) /\ IsFiniteSet(B) /\ Cardinality(A) \in Nat /\ Cardinality(B) \in Nat
  BY <1>2, FS_Subset, FS_CardinalityType
<1>4. Cardinality(A \cup {x}) = Cardinality(A) + 1 /\ Cardinality(A \cup {x}) <= Cardinality(B)
  BY <1>1, <1>3, FS_AddElement, FS_Subset
<1>5. Cardinality(A) < Cardinality(B)
  BY <1>3, <1>4
<1> QED
  BY <1>5 DEF A, B

\* Every position is the k-th one for some k.
LEMMA PlaceOnto ==
  ASSUME NEW n \in Nat, NEW S \in SUBSET (1 .. n), NEW x \in S
  PROVE  \E k \in 1 .. Cardinality(S) : Place(S, k) = x
<1> DEFINE B(y) == {j \in S : j < y}
<1>1. IsFiniteSet(S) /\ Cardinality(S) \in Nat
  <2>1. IsFiniteSet(1 .. n)
    BY FS_Interval
  <2> QED
    BY <2>1, FS_Subset, FS_CardinalityType
<1>2. Cardinality(B(x)) \in Nat /\ Cardinality(B(x)) < Cardinality(S)
  <2>1. x \notin B(x) /\ B(x) \subseteq S /\ B(x) # S
    BY x \in Nat
  <2> HIDE DEF B
  <2> QED
    BY <1>1, <2>1, FS_Subset, FS_CardinalityType
<1>3. PICK k \in 1 .. Cardinality(S) : k - 1 = Cardinality(B(x))
  <2>1. PICK m \in Nat : m = Cardinality(B(x)) /\ m < Cardinality(S)
    BY <1>2
  <2>2. PICK k : k = m + 1
    OBVIOUS
  <2>3. k \in 1 .. Cardinality(S) /\ k - 1 = m
    BY <1>1, <2>1, <2>2
  <2> QED
    BY <2>1, <2>3
<1>4. PICK p \in S : p = Place(S, k) /\ Cardinality(B(p)) = Cardinality(B(x))
  BY <1>3, PlaceExists
<1>5. Cardinality(B(p)) \in Nat /\ Cardinality(B(x)) \in Nat
  <2> HIDE DEF B
  <2> QED
    BY <1>2, <1>4
<1>6. p < x => Cardinality(B(p)) < Cardinality(B(x))
  BY MoreBelow
<1>7. x < p => Cardinality(B(x)) < Cardinality(B(p))
  BY MoreBelow
<1>8. p = x
  <2>1. p \in Nat /\ x \in Nat
    OBVIOUS
  <2> HIDE DEF B
  <2> QED
    BY <1>4, <1>5, <1>6, <1>7, <2>1
<1> QED
  BY <1>4, <1>8

\* The places of an interval.
LEMMA PlaceInInterval ==
  ASSUME NEW a \in Nat, NEW b \in Nat, a <= b, NEW k \in 1 .. b - a
  PROVE  Cardinality(a + 1 .. b) = b - a /\ Place(a + 1 .. b, k) = a + k
<1> DEFINE S == a + 1 .. b
           B(y) == {j \in S : j < y}
<1>1. Cardinality(S) = b - a
  <2>1. a + 1 \in Int /\ b \in Int
    OBVIOUS
  <2>2. Cardinality(a + 1 .. b) = IF a + 1 > b THEN 0 ELSE b - (a + 1) + 1
    BY <2>1, FS_Interval
  <2> QED
    BY <2>2
<1>2. S \in SUBSET (1 .. b) /\ k \in 1 .. Cardinality(S)
  BY <1>1
<1>3. Place(S, k) \in S /\ Cardinality(B(Place(S, k))) = k - 1
  BY <1>2, PlaceExists
<1>4. ASSUME NEW y \in S PROVE Cardinality(B(y)) = y - 1 - a
  <2>1. B(y) = a + 1 .. y - 1 /\ a + 1 \in Int /\ y - 1 \in Int
    OBVIOUS
  <2>2. Cardinality(a + 1 .. y - 1) = IF a + 1 > y - 1 THEN 0 ELSE (y - 1) - (a + 1) + 1
    BY <2>1, FS_Interval
  <2>3. y \in Nat /\ y >= a + 1
    OBVIOUS
  <2> HIDE DEF B
  <2>4. Cardinality(B(y)) = (y - 1) - (a + 1) + 1
    BY <2>1, <2>2, <2>3
  <2> QED
    BY <2>3, <2>4
<1>5. PICK p \in S : p = Place(S, k) /\ Cardinality(B(p)) = k - 1
  BY <1>3
<1>6. p - 1 - a = k - 1 /\ p \in Nat
  BY <1>4, <1>5
<1>7. p = a + k
  BY <1>6
<1> QED
  BY <1>1, <1>5, <1>7

=============================================================================
