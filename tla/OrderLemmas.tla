---------------------------- MODULE OrderLemmas ----------------------------
(***************************************************************************)
(* Facts about sets of numbers in their order, for the proofs about the    *)
(* segment pool (the index of a segment in available_segments) and the     *)
(* service (the order in which a grant is announced); induction over       *)
(* numbers, for the task queue and the codec.                              *)
(***************************************************************************)
EXTENDS Integers, FiniteSetTheorems, WellFoundedInduction, TLAPS

(* A set of natural numbers that is not empty has a least element: the     *)
(* induction over numbers of the proofs about lists, sequences and steps.  *)
LEMMA Least ==
  ASSUME NEW T, T \subseteq Nat, T # {}
  PROVE  \E m \in T : \A k \in T : ~ (k < m)
<1>1. PICK m \in T : \A k \in T : ~ (<<k, m>> \in OpToRel(<, Nat))
  BY WFMin, NatLessThanWellFounded
<1> QED
  BY <1>1 DEF OpToRel

(* f begins with b and goes on, up to m, with the step w.                  *)
Iterates(f, m, b, w) ==
  /\ DOMAIN f = 0 .. m
  /\ f[0] = b
  /\ \A i \in 1 .. m : f[i] = w[<<i, f[i - 1]>>]

(* Recursion over numbers: a step from values to values can be iterated.   *)
LEMMA IterationExists ==
  ASSUME NEW D, NEW b \in D, NEW w \in [Nat \X D -> D], NEW m \in Nat
  PROVE  \E f \in [0 .. m -> D] : Iterates(f, m, b, w)
<1> DEFINE T == {k \in Nat : ~ \E f \in [0 .. k -> D] : Iterates(f, k, b, w)}
<1>1. ASSUME T # {}
      PROVE  FALSE
  <2>1. PICK k \in T : \A j \in T : ~ (j < k)
    <3> T \subseteq Nat
      OBVIOUS
    <3> HIDE DEF T
    <3> QED
      BY <1>1, Least
  <2>2. k # 0
    <3>1. Iterates([i \in 0 .. 0 |-> b], 0, b, w)
      BY DEF Iterates
    <3>2. [i \in 0 .. 0 |-> b] \in [0 .. 0 -> D]
      OBVIOUS
    <3> QED
      BY <2>1, <3>1, <3>2
  <2>3. k \in Nat /\ k - 1 \in Nat /\ k - 1 < k
    BY <2>1, <2>2
  <2>4. PICK f \in [0 .. k - 1 -> D] : Iterates(f, k - 1, b, w)
    BY <2>1, <2>3
  <2> DEFINE g == [i \in 0 .. k |-> IF i = k THEN w[<<k, f[k - 1]>>] ELSE f[i]]
  <2>5. k - 1 \in 0 .. k - 1 /\ f[k - 1] \in D
    BY <2>3, <2>4
  <2>6. w[<<k, f[k - 1]>>] \in D
    BY <2>3, <2>5
  <2>7. g \in [0 .. k -> D]
    BY <2>3, <2>4, <2>6
  <2>8. g[0] = b
    <3>1. f[0] = b
      BY <2>4 DEF Iterates
    <3>2. 0 \in 0 .. k /\ 0 # k
      BY <2>2, <2>3
    <3> QED
      BY <3>1, <3>2
  <2>9. ASSUME NEW i \in 1 .. k
        PROVE  g[i] = w[<<i, g[i - 1]>>]
    <3>1. g[i - 1] = f[i - 1]
      <4>1. i - 1 \in 0 .. k /\ i - 1 # k
        BY <2>3
      <4> QED
        BY <4>1
    <3>2. CASE i = k
      <4>1. g[k] = w[<<k, f[k - 1]>>]
        BY <2>3
      <4> QED
        BY <3>1, <3>2, <4>1
    <3>3. CASE i # k
      <4>1. i \in 1 .. k - 1
        BY <2>3, <3>3
      <4>2. f[i] = w[<<i, f[i - 1]>>]
        BY <2>4, <4>1 DEF Iterates
      <4>3. g[i] = f[i]
        BY <2>3, <3>3
      <4> QED
        BY <3>1, <4>2, <4>3
    <3> QED
      BY <3>2, <3>3
  <2> HIDE DEF g
  <2>10. Iterates(g, k, b, w)
    BY <2>7, <2>8, <2>9 DEF Iterates
  <2> QED
    BY <2>1, <2>7, <2>10
<1> QED
  BY <1>1

(* Induction along a function on numbers.                                  *)
LEMMA StepsStay ==
  ASSUME NEW D, NEW m \in Nat, NEW f, f[0] \in D,
         \A i \in 1 .. m : f[i - 1] \in D => f[i] \in D
  PROVE  \A i \in 0 .. m : f[i] \in D
<1> DEFINE T == {i \in 0 .. m : f[i] \notin D}
<1>1. ASSUME T # {}
      PROVE  FALSE
  <2>1. PICK i \in T : \A j \in T : ~ (j < i)
    <3> T \subseteq Nat
      OBVIOUS
    <3> HIDE DEF T
    <3> QED
      BY <1>1, Least
  <2>2. i \in 1 .. m /\ f[i] \notin D
    BY <2>1
  <2>3. i - 1 \in 0 .. m /\ i - 1 < i
    BY <2>2
  <2>4. f[i - 1] \in D
    BY <2>1, <2>3
  <2> QED
    BY <2>2, <2>4
<1> QED
  BY <1>1

(* Induction over the numbers up to m.                                     *)
LEMMA UpTo ==
  ASSUME NEW m \in Nat, NEW T, 0 \in T, \A i \in 1 .. m : i - 1 \in T => i \in T
  PROVE  \A i \in 0 .. m : i \in T
<1> DEFINE R == {i \in 0 .. m : i \notin T}
<1>1. ASSUME R # {}
      PROVE  FALSE
  <2>1. PICK i \in R : \A j \in R : ~ (j < i)
    <3> R \subseteq Nat
      OBVIOUS
    <3> HIDE DEF R
    <3> QED
      BY <1>1, Least
  <2>2. i \in 1 .. m /\ i \notin T
    BY <2>1
  <2>3. i - 1 \in 0 .. m /\ i - 1 < i
    BY <2>2
  <2>4. i - 1 \in T
    BY <2>1, <2>3
  <2> QED
    BY <2>2, <2>4
<1> QED
  BY <1>1

(* In a finite set of numbers, an element has fewer elements below it than *)
(* the set has, and more than any smaller element has.                     *)
LEMMA RankBounds ==
  ASSUME NEW A, A \subseteq Int, IsFiniteSet(A), NEW s \in A
  PROVE  /\ Cardinality({r \in A : r < s}) \in Nat
         /\ Cardinality({r \in A : r < s}) < Cardinality(A)
<1> DEFINE B == {r \in A : r < s}
<1>1. B \in SUBSET A /\ s \notin B
  OBVIOUS
<1>2. IsFiniteSet(B) /\ Cardinality(B) <= Cardinality(A) /\ Cardinality(B) # Cardinality(A)
  BY <1>1, FS_Subset
<1>3. Cardinality(A) \in Nat /\ Cardinality(B) \in Nat
  BY <1>2, FS_CardinalityType
<1> QED
  BY <1>2, <1>3

LEMMA RankIncreases ==
  ASSUME NEW A, A \subseteq Int, IsFiniteSet(A), NEW s \in A, NEW r \in A, r < s
  PROVE  Cardinality({x \in A : x < r}) < Cardinality({x \in A : x < s})
<1> DEFINE B == {x \in A : x < s}
<1>1. B \subseteq Int /\ r \in B /\ B \in SUBSET A
  OBVIOUS
<1>2. IsFiniteSet(B)
  BY <1>1, FS_Subset
<1>3. Cardinality({x \in B : x < r}) < Cardinality(B)
  BY <1>1, <1>2, RankBounds
<1>4. \A x \in A : x < r => x < s
  OBVIOUS
<1>5. {x \in B : x < r} = {x \in A : x < r}
  BY <1>4
<1> QED
  BY <1>3, <1>5

(* A finite set of numbers can be listed in increasing order: the element  *)
(* with j - 1 elements below it is the j-th.                               *)
LEMMA OrderedListing ==
  ASSUME NEW A, A \subseteq Int, IsFiniteSet(A)
  PROVE  \E seq \in [1 .. Cardinality(A) -> A] :
           \A j, k \in 1 .. Cardinality(A) : j < k => seq[j] < seq[k]
<1> DEFINE n == Cardinality(A)
           rank == [s \in A |-> Cardinality({r \in A : r < s}) + 1]
           ranks == {rank[s] : s \in A}
           seq == [j \in 1 .. n |-> CHOOSE s \in A : rank[s] = j]
<1>1. n \in Nat
  BY FS_CardinalityType
<1>2. rank \in [A -> 1 .. n]
  <2>1. ASSUME NEW s \in A
        PROVE  Cardinality({r \in A : r < s}) + 1 \in 1 .. n
    <3> DEFINE below == Cardinality({r \in A : r < s})
    <3>1. below \in Nat /\ below < n
      BY RankBounds
    <3> HIDE DEF below
    <3>2. below + 1 \in 1 .. n
      BY <1>1, <3>1
    <3> QED
      BY <3>2 DEF below
  <2> QED
    BY <2>1
<1>3. \A r, s \in A : r < s => rank[r] < rank[s]
  <2> SUFFICES ASSUME NEW r \in A, NEW s \in A, r < s
               PROVE  rank[r] < rank[s]
    OBVIOUS
  <2>1. Cardinality({x \in A : x < r}) < Cardinality({x \in A : x < s})
    BY RankIncreases
  <2>2. Cardinality({x \in A : x < r}) \in Nat /\ Cardinality({x \in A : x < s}) \in Nat
    BY RankBounds
  <2> QED
    BY <2>1, <2>2
<1>4. ranks = 1 .. n
  <2>1. IsFiniteSet(1 .. n) /\ Cardinality(1 .. n) = n
    BY <1>1, FS_Interval
  <2>2. ranks \in SUBSET (1 .. n)
    BY <1>2
  <2>3. IsFiniteSet(ranks)
    BY <2>1, <2>2, FS_Subset
  <2>4. rank \in Bijection(A, ranks)
    <3>1. \A r, s \in A : rank[r] = rank[s] => r = s
      BY <1>2, <1>3
    <3> QED
      BY <1>2, <3>1 DEF Bijection, Injection, Surjection, IsInjective
  <2>5. Cardinality(ranks) = n
    BY <2>4, FS_Bijection DEF ExistsBijection
  <2> QED
    BY <2>1, <2>2, <2>5, FS_Subset
<1>5. \A j \in 1 .. n : seq[j] \in A /\ rank[seq[j]] = j
  BY <1>4
<1>6. \A j, k \in 1 .. n : j < k => seq[j] < seq[k]
  <2> SUFFICES ASSUME NEW j \in 1 .. n, NEW k \in 1 .. n, j < k
               PROVE  seq[j] < seq[k]
    OBVIOUS
  <2>1. seq[j] \in A /\ seq[k] \in A /\ rank[seq[j]] = j /\ rank[seq[k]] = k
    BY <1>5
  <2> HIDE DEF seq, rank
  <2>2. seq[k] < seq[j] => rank[seq[k]] < rank[seq[j]]
    BY <1>3, <2>1
  <2>3. seq[j] # seq[k]
    BY <2>1
  <2>4. ~ (k < j)
    BY <1>1
  <2>5. ~ (seq[k] < seq[j])
    BY <2>1, <2>2, <2>4
  <2>6. seq[j] \in Int /\ seq[k] \in Int
    BY <2>1
  <2> QED
    BY <2>3, <2>5, <2>6
<1>7. seq \in [1 .. n -> A]
  BY <1>5
<1> QED
  BY <1>6, <1>7
=============================================================================
