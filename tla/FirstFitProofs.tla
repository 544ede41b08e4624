--------------------------- MODULE FirstFitProofs ---------------------------
(***************************************************************************)
(* What the search operators of FirstFit return.                           *)
(***************************************************************************)
EXTENDS FirstFit, TLAPS, FiniteSetTheorems

\* A search over a table with a suitable entry returns one, and no suitable
\* entry comes before it.
LEMMA LowestIsLeast ==
  ASSUME NEW S \in SUBSET Nat, S # {}
  PROVE  /\ Lowest(S) \in S
         /\ \A y \in S : Lowest(S) <= y
<1> DEFINE Below(x) == {y \in S : y < x}
           F == {Below(x) : x \in S}
<1>1. \A x \in S : IsFiniteSet(Below(x))
  <2> SUFFICES ASSUME NEW x \in S PROVE IsFiniteSet(Below(x))
    OBVIOUS
  <2>1. x \in Nat /\ \A s \in Below(x) : s <= x
    OBVIOUS
  <2>2. Below(x) \in SUBSET Nat
    OBVIOUS
  <2> QED
    BY <2>1, <2>2, FS_BoundedSetOfNaturals
<1>2. F \subseteq FiniteSubsetsOf(S) /\ F # {}
  BY <1>1 DEF FiniteSubsetsOf
<1> HIDE DEF F
<1>3. PICK D \in F : \A E \in F : ~(<<E, D>> \in StrictSubsetOrdering(S))
  BY <1>2, FS_StrictSubsetOrderingWellFounded, WFMin
<1>4. PICK x \in S : D = Below(x)
  BY DEF F
<1>5. ASSUME NEW y \in S, y < x PROVE FALSE
  <2>1. Below(y) \in F
    BY DEF F
  <2>2. Below(y) \subseteq Below(x) /\ y \in Below(x) /\ y \notin Below(y)
    <3>1. y < x /\ ~(y < y) /\ \A z \in S : z < y => z < x
      BY <1>5, S \subseteq Nat
    <3> QED
      BY <3>1
  <2>3. <<Below(y), Below(x)>> \in StrictSubsetOrdering(S)
    <3>1. Below(y) \in SUBSET S /\ Below(x) \in SUBSET S
      OBVIOUS
    <3> HIDE DEF Below
    <3> QED
      BY <2>2, <3>1 DEF StrictSubsetOrdering
  <2> QED
    BY <1>3, <1>4, <2>1, <2>3
<1>6. \A y \in S : x <= y
  BY <1>5
<1> QED
  BY <1>6 DEF Lowest

\* Entries of a table are passed in increasing order, one at a time.
LEMMA RankIncreases ==
  ASSUME NEW S \in SUBSET Nat, IsFiniteSet(S), NEW x \in S, NEW y \in S, x < y
  PROVE  /\ Rank(S, x) \in Nat /\ Rank(S, y) \in Nat
         /\ Rank(S, x) < Rank(S, y)
<1> DEFINE A == {z \in S : z < x}
           B == {z \in S : z < y}
<1>1. IsFiniteSet(B)
  BY FS_Subset
<1>2. A \in SUBSET B
  <2>1. \A z \in S : z < x => z < y
    BY S \subseteq Nat
  <2> QED
    BY <2>1
<1>3. A # B
  <2>1. x \in B /\ x \notin A
    BY S \subseteq Nat
  <2> QED
    BY <2>1
<1> HIDE DEF A, B
<1>4. /\ Cardinality(A) \in Nat /\ Cardinality(B) \in Nat
      /\ Cardinality(A) <= Cardinality(B) /\ Cardinality(A) # Cardinality(B)
  BY <1>1, <1>2, <1>3, FS_Subset, FS_CardinalityType
<1> QED
  BY <1>4 DEF A, B, Rank

\* A table with more than k suitable entries has one that exactly k others
\* come before.
LEMMA RankOnto ==
  ASSUME NEW S \in SUBSET Nat, IsFiniteSet(S),
         NEW k \in Nat, k < Cardinality(S)
  PROVE  \E x \in S : Rank(S, x) = k
<1> DEFINE N == Cardinality(S)
           f == [x \in S |-> Rank(S, x)]
<1>0. N \in Nat
  BY FS_CardinalityType
<1>1. \A x \in S : Rank(S, x) \in 0 .. N - 1
  <2> SUFFICES ASSUME NEW x \in S PROVE Rank(S, x) \in 0 .. N - 1
    OBVIOUS
  <2> DEFINE A == {z \in S : z < x}
  <2>1. A \in SUBSET S /\ A # S
    BY S \subseteq Nat, x \in S, ~(x < x)
  <2> HIDE DEF A
  <2>2. Cardinality(A) \in Nat /\ Cardinality(A) <= N /\ Cardinality(A) # N
    BY <2>1, FS_Subset, FS_CardinalityType
  <2> QED
    BY <2>2, <1>0 DEF A, Rank
<1>2. f \in Injection(S, 0 .. N - 1)
  <2>1. \A x, y \in S : Rank(S, x) = Rank(S, y) => x = y
    <3> SUFFICES ASSUME NEW x \in S, NEW y \in S, x # y
                 PROVE  Rank(S, x) # Rank(S, y)
      OBVIOUS
    <3>1. x < y \/ y < x
      BY S \subseteq Nat
    <3> QED
      BY <3>1, RankIncreases
  <2> QED
    BY <1>1, <2>1 DEF Injection, IsInjective
<1>3. IsFiniteSet(0 .. N - 1) /\ Cardinality(0 .. N - 1) = N
  <2> HIDE DEF N
  <2>1. PICK top \in Int : top = N - 1
    BY <1>0
  <2>2. /\ IsFiniteSet(0 .. top)
        /\ Cardinality(0 .. top) = IF 0 > top THEN 0 ELSE top - 0 + 1
    <3>1. 0 \in Int
      OBVIOUS
    <3> QED
      BY <3>1, FS_Interval
  <2>3. (IF 0 > top THEN 0 ELSE top - 0 + 1) = N
    BY <1>0, <2>1
  <2> QED
    BY <2>1, <2>2, <2>3
<1>4. f \in Surjection(S, 0 .. N - 1)
  BY <1>2, <1>3, FS_Injection
<1>5. k \in 0 .. N - 1
  BY <1>0
<1> QED
  BY <1>4, <1>5 DEF Surjection

\* A loop that keeps G from each index to the next ends with it.
LEMMA LoopEnds ==
  ASSUME NEW N \in Nat, NEW G, 0 \in G,
         \A i \in 0 .. N - 1 : i \in G => i + 1 \in G
  PROVE  \A i \in 0 .. N : i \in G
<1> DEFINE Bad == {i \in 0 .. N : i \notin G}
<1> SUFFICES ASSUME Bad # {} PROVE FALSE
  OBVIOUS
<1>1. Bad \in SUBSET Nat
  OBVIOUS
<1> DEFINE k == Lowest(Bad)
<1>2. k \in Bad /\ \A y \in Bad : k <= y
  <2> HIDE DEF Bad
  <2> QED
    BY <1>1, LowestIsLeast
<1> HIDE DEF k
<1>3. k \in 1 .. N
  BY <1>2
<1>4. k - 1 \in 0 .. N - 1 /\ ~(k <= k - 1)
  BY <1>3
<1>5. k - 1 \in G
  BY <1>2, <1>4
<1>6. k \in G
  BY <1>3, <1>4, <1>5
<1> QED
  BY <1>2, <1>6

=============================================================================
