---------------------------- MODULE LeastNumber ----------------------------
(***************************************************************************)
(* A set of numbers has a least one.  The proofs that need an induction    *)
(* take it from here: look at the first place where things go wrong.       *)
(***************************************************************************)
EXTENDS Integers, FiniteSetTheorems, TLAPS

Below(S, x) == {y \in S : y < x}

\* Of two elements, the larger has more below it.
LEMMA BelowGrows ==
    ASSUME NEW S \in SUBSET Nat, IsFiniteSet(S), NEW x \in S, NEW y \in S, x < y
    PROVE  Cardinality(Below(S, x)) < Cardinality(Below(S, y))
<1>1. IsFiniteSet(Below(S, y)) /\ Cardinality(Below(S, y)) \in Nat
  BY FS_Subset, FS_CardinalityType DEF Below
<1>2. Below(S, x) \in SUBSET Below(S, y) /\ x \in Below(S, y) /\ x \notin Below(S, x)
  <2>1. x \in Nat /\ y \in Nat
    OBVIOUS
  <2>2. \A z \in Nat : z < x => z < y
    BY <2>1
  <2>3. \A z \in Below(S, x) : z \in Below(S, y)
    BY <2>2 DEF Below
  <2>4. x \in Below(S, y) /\ x \notin Below(S, x)
    BY <2>1 DEF Below
  <2> QED
    BY <2>3, <2>4
<1>3. /\ IsFiniteSet(Below(S, x)) /\ Cardinality(Below(S, x)) \in Nat
      /\ Cardinality(Below(S, x)) <= Cardinality(Below(S, y))
      /\ Cardinality(Below(S, y)) # Cardinality(Below(S, x))
  BY <1>1, <1>2, FS_Subset, FS_CardinalityType
<1> QED
  BY <1>1, <1>3

\* A finite set of numbers has a least one: otherwise each element has some elements
\* below it, fewer than all, and no two the same number of them.
LEMMA LeastOfFinite ==
    ASSUME NEW S \in SUBSET Nat, IsFiniteSet(S), S # {}
    PROVE  \E m \in S : \A n \in S : m <= n
<1> SUFFICES ASSUME \A m \in S : Below(S, m) # {}
             PROVE  FALSE
  BY DEF Below
<1> DEFINE k == Cardinality(S)
           rank == [x \in S |-> Cardinality(Below(S, x))]
<1>1. k \in Nat /\ k # 0
  BY FS_CardinalityType, FS_EmptySet
<1>2. ASSUME NEW x \in S
      PROVE  Cardinality(Below(S, x)) \in 1..(k - 1)
  <2>1. Below(S, x) \in SUBSET S /\ Below(S, x) # S
    BY DEF Below
  <2>2. IsFiniteSet(Below(S, x)) /\ Cardinality(Below(S, x)) \in Nat
    BY <2>1, FS_Subset, FS_CardinalityType
  <2>3. Cardinality(Below(S, x)) <= k /\ Cardinality(Below(S, x)) # k
    BY <2>1, FS_Subset
  <2>4. Cardinality(Below(S, x)) # 0
    BY <2>2, FS_EmptySet
  <2> QED
    BY <1>1, <2>2, <2>3, <2>4
<1>3. rank \in [S -> 1..(k - 1)]
  BY <1>2
<1>4. IsFiniteSet(1..(k - 1)) /\ Cardinality(1..(k - 1)) < k
  <2>1. 1 \in Int /\ k - 1 \in Int
    BY <1>1
  <2>2. /\ IsFiniteSet(1..(k - 1))
        /\ Cardinality(1..(k - 1)) = IF 1 > k - 1 THEN 0 ELSE (k - 1) - 1 + 1
    BY <2>1, FS_Interval
  <2> HIDE DEF k
  <2> QED
    BY <1>1, <2>2
<1>5. PICK x \in S, y \in S : x # y /\ rank[x] = rank[y]
  <2> HIDE DEF rank, k
  <2>1. Cardinality(1..(k - 1)) < Cardinality(S)
    BY <1>4 DEF k
  <2> QED
    BY <1>3, <1>4, <2>1, FS_PigeonHole
<1>6. Cardinality(Below(S, x)) = Cardinality(Below(S, y))
  BY <1>5
<1>7. Cardinality(Below(S, x)) \in Nat
  BY <1>2
<1>8. x < y \/ y < x
  BY <1>5
<1> QED
  BY <1>6, <1>7, <1>8, BelowGrows

\* Every set of numbers has a least one.
LEMMA LeastExists ==
    ASSUME NEW S \in SUBSET Nat, S # {}
    PROVE  \E m \in S : \A n \in S : m <= n
<1>1. PICK s \in S : TRUE
  OBVIOUS
<1> DEFINE T == {x \in S : x <= s}
<1>2. T \in SUBSET Nat /\ T # {} /\ IsFiniteSet(T)
  <2>1. T \in SUBSET Nat /\ T # {} /\ s \in Nat /\ \A x \in T : x <= s
    <3>1. s \in T
      BY <1>1
    <3> QED
      BY <1>1, <3>1
  <2> HIDE DEF T
  <2> QED
    BY <2>1, FS_BoundedSetOfNaturals
<1>3. PICK m \in T : \A n \in T : m <= n
  BY <1>2, LeastOfFinite
<1>4. ASSUME NEW n \in S
      PROVE  m <= n
  BY <1>3
<1> QED
  BY <1>3, <1>4
=============================================================================
