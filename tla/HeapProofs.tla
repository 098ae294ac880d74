------------------------------- MODULE HeapProofs -------------------------------
(***************************************************************************)
(* Proofs about Heap, for every size of the heap and every set of          *)
(* requests.  The inductive invariant IInv says that the blocks tile the   *)
(* heap, that both tags of a block agree and are even, that the blocks in  *)
(* use are the ones the program owns, that the statistics are the sums of  *)
(* the tags, and that no two free blocks are neighbours.                   *)
(*                                                                         *)
(* Splitting, marking and merging all replace a run of blocks by others    *)
(* with the same ends; Rewritten says once what such a step does to the    *)
(* walk along the tags.  Within Heap_Free the last part of the invariant   *)
(* has exceptions, which the two merges remove one by one (Loose).         *)
(*                                                                         *)
(* Starts and MapThenSumSet are recursive functions: that such a function  *)
(* exists is proved by induction first, then CHOOSE unfolds.               *)
(***************************************************************************)
EXTENDS Heap, FiniteSetTheorems, WellFoundedInduction, TLAPS

-----------------------------------------------------------------------------
(* Induction over the natural numbers, as sets.                            *)

(* A non-empty set of natural numbers has a least element. *)
LEMMA LeastExists ==
  ASSUME NEW S \in SUBSET Nat, S # {}
  PROVE  \E x \in S : \A y \in S : x <= y
<1>1. \E x \in S : \A y \in S : ~(<<y, x>> \in OpToRel(<, Nat))
  BY NatLessThanWellFounded, WFMin
<1>2. \A x, y \in Nat : y < x => <<y, x>> \in OpToRel(<, Nat)
  BY DEF OpToRel
<1>3. PICK x \in S : \A y \in S : ~(<<y, x>> \in OpToRel(<, Nat))
  BY <1>1
<1>4. \A y \in S : ~(y < x)
  BY <1>2, <1>3
<1>5. QED
  BY <1>4

LEMMA SetInduction ==
  ASSUME NEW S \in SUBSET Nat, 0 \in S, \A n \in S : n + 1 \in S
  PROVE  S = Nat
<1> SUFFICES ASSUME Nat \ S # {} PROVE FALSE
  OBVIOUS
<1>1. PICK x \in Nat \ S : \A y \in Nat \ S : x <= y
  BY LeastExists
<1>2. x # 0 /\ x - 1 \in Nat
  OBVIOUS
<1>3. x - 1 \in S
  BY <1>1, <1>2
<1>4. QED
  BY <1>1, <1>2, <1>3

LEMMA Size == /\ HEAP_SIZE \in Nat /\ HEAP_SIZE >= 4 /\ HEAP_SIZE % 2 = 0
              /\ Requests \subseteq Nat /\ Data \subseteq Int /\ WordAfterHeap \in Nat
  BY HeapAssumption DEF HeapAssumption

Heaps == [0..HEAP_SIZE - 1 -> Int]

After(h, i) == i + abs(h[i]) + 2

(* The walk of Starts, as a function. *)
WalkOf(h, f) == f = [i \in Nat |-> IF i >= HEAP_SIZE THEN {} ELSE {i} \cup f[i + abs(h[i]) + 2]]

LEMMA WalkExists ==
  ASSUME NEW h \in Heaps
  PROVE  \E f : WalkOf(h, f)
<1> DEFINE Good(f, k) == \A i \in Nat : i >= HEAP_SIZE - k =>
             f[i] = IF i >= HEAP_SIZE THEN {} ELSE {i} \cup f[i + abs(h[i]) + 2]
           K == {k \in Nat : \E f \in [Nat -> SUBSET Nat] : Good(f, k)}
<1>0. \A i \in 0..HEAP_SIZE - 1 : abs(h[i]) \in Nat
  BY DEF Heaps, abs
<1>1. 0 \in K
  <2>1. Good([i \in Nat |-> {}], 0)
    BY Size
  <2>2. [i \in Nat |-> {}] \in [Nat -> SUBSET Nat]
    OBVIOUS
  <2>3. QED
    BY <2>1, <2>2
<1>2. ASSUME NEW k \in K PROVE k + 1 \in K
  <2>1. k \in Nat /\ \E f \in [Nat -> SUBSET Nat] : Good(f, k)
    OBVIOUS
  <2>2. PICK f \in [Nat -> SUBSET Nat] : Good(f, k)
    BY <2>1
  <2> DEFINE j == HEAP_SIZE - (k + 1)
             g == [f EXCEPT ![j] = {j} \cup f[j + abs(h[j]) + 2]]
  <2>3. CASE j < 0
    <3>1. Good(f, k + 1)
      BY <2>1, <2>2, <2>3, Size
    <3> HIDE DEF Good
    <3>2. QED
      BY <2>1, <3>1
  <2>4. CASE j >= 0
    <3>1. j \in 0..HEAP_SIZE - 1 /\ j \in Nat
      BY <2>1, <2>4, Size
    <3>2. j + abs(h[j]) + 2 \in Nat /\ j + abs(h[j]) + 2 > j
      BY <1>0, <3>1
    <3>3. g \in [Nat -> SUBSET Nat]
      BY <3>1, <3>2
    <3>4. g[j] = {j} \cup g[j + abs(h[j]) + 2]
      BY <3>1, <3>2
    <3>5. ASSUME NEW i \in Nat, i >= HEAP_SIZE - (k + 1)
          PROVE  g[i] = IF i >= HEAP_SIZE THEN {} ELSE {i} \cup g[i + abs(h[i]) + 2]
      <4>1. CASE i = j
        BY <3>1, <3>4, <4>1, Size
      <4>2. CASE i # j
        <5>1. g[i] = f[i] /\ i >= HEAP_SIZE - k
          BY <2>1, <3>1, <3>5, <4>2, Size
        <5>2. f[i] = IF i >= HEAP_SIZE THEN {} ELSE {i} \cup f[i + abs(h[i]) + 2]
          BY <2>2, <5>1
        <5>3. i < HEAP_SIZE => i + abs(h[i]) + 2 \in Nat /\ i + abs(h[i]) + 2 # j
          BY <1>0, <2>1, <3>1, <5>1, Size
        <5>4. i < HEAP_SIZE => g[i + abs(h[i]) + 2] = f[i + abs(h[i]) + 2]
          BY <3>1, <5>3
        <5>5. CASE i < HEAP_SIZE
          BY <5>1, <5>2, <5>4, <5>5, Size
        <5>6. CASE i >= HEAP_SIZE
          BY <5>1, <5>2, <5>6
        <5>7. QED
          BY <5>5, <5>6, Size
      <4>3. QED
        BY <4>1, <4>2
    <3>6. Good(g, k + 1)
      BY <3>5
    <3> HIDE DEF Good, g
    <3>7. QED
      BY <2>1, <3>3, <3>6
  <2>5. QED
    <3>1. j \in Int
      BY <2>1, Size
    <3> HIDE DEF Good, j
    <3>2. QED
      BY <2>3, <2>4, <3>1
<1> HIDE DEF Good
<1>3. K \in SUBSET Nat
  OBVIOUS
<1>4. K = Nat
  <2> HIDE DEF K
  <2>1. QED
    BY <1>1, <1>2, <1>3, SetInduction
<1>5. PICK f \in [Nat -> SUBSET Nat] : Good(f, HEAP_SIZE)
  BY <1>4, Size
<1>6. \A i \in Nat : f[i] = IF i >= HEAP_SIZE THEN {} ELSE {i} \cup f[i + abs(h[i]) + 2]
  BY <1>5, Size DEF Good
<1>7. WalkOf(h, f)
  BY <1>6 DEF WalkOf
<1>8. QED
  BY <1>7

LEMMA StartsWalk ==
  ASSUME NEW h \in Heaps
  PROVE  \E f : WalkOf(h, f) /\ Starts(h) = f[0]
<1> DEFINE f == CHOOSE g : WalkOf(h, g)
<1>1. WalkOf(h, f)
  BY WalkExists
<1>2. Starts(h) = f[0]
  BY Zenon DEF Starts, WalkOf
<1>3. QED
  BY <1>1, <1>2

-----------------------------------------------------------------------------
(* The blocks that start at the indices S fill the array: each ends where  *)
(* the next one starts.                                                    *)

Tiles(h, S) ==
  /\ S \subseteq 0..HEAP_SIZE - 1
  /\ 0 \in S
  /\ \A i \in S : After(h, i) \in S \cup {HEAP_SIZE}
  /\ \A i, j \in S : i < j => After(h, i) <= j

LEMMA Afters ==
  ASSUME NEW h \in Heaps, NEW S, Tiles(h, S), NEW i \in S
  PROVE  /\ i \in 0..HEAP_SIZE - 1
         /\ h[i] \in Int
         /\ abs(h[i]) \in Nat
         /\ After(h, i) = i + abs(h[i]) + 2
         /\ After(h, i) \in i + 2..HEAP_SIZE
<1>1. i \in 0..HEAP_SIZE - 1 /\ h[i] \in Int
  BY DEF Tiles, Heaps
<1>2. abs(h[i]) \in Nat
  BY <1>1 DEF abs
<1>3. After(h, i) <= HEAP_SIZE
  <2>1. After(h, i) \in S \cup {HEAP_SIZE} /\ S \subseteq 0..HEAP_SIZE - 1
    BY DEF Tiles
  <2>2. \A x \in S \cup {HEAP_SIZE} : x <= HEAP_SIZE
    BY <2>1, Size
  <2>3. QED
    BY <2>1, <2>2
<1>4. QED
  BY <1>1, <1>2, <1>3, Size DEF After

(* Starts finds exactly the blocks that fill the array. *)
LEMMA StartsAre ==
  ASSUME NEW h \in Heaps, NEW S, Tiles(h, S)
  PROVE  Starts(h) = S
<1>1. PICK f : WalkOf(h, f) /\ Starts(h) = f[0]
  BY StartsWalk
<1>2. \A i \in Nat : f[i] = IF i >= HEAP_SIZE THEN {} ELSE {i} \cup f[After(h, i)]
  BY <1>1 DEF WalkOf, After
<1> DEFINE K == {k \in Nat : \A i \in S \cup {HEAP_SIZE} :
                               i >= HEAP_SIZE - k => f[i] = {j \in S : j >= i}}
<1>3. \A j \in S : j \in Nat /\ j < HEAP_SIZE
  BY Size DEF Tiles
<1>4. f[HEAP_SIZE] = {j \in S : j >= HEAP_SIZE}
  <2>1. f[HEAP_SIZE] = {}
    <3>1. HEAP_SIZE \in Nat /\ HEAP_SIZE >= HEAP_SIZE
      BY Size
    <3>2. QED
      BY <1>2, <3>1
  <2>2. QED
    BY <1>3, <2>1, Size
<1>5. 0 \in K
  BY <1>3, <1>4, Size
<1>6. ASSUME NEW k \in K PROVE k + 1 \in K
  <2>1. ASSUME NEW i \in S \cup {HEAP_SIZE}, i >= HEAP_SIZE - (k + 1)
        PROVE  f[i] = {j \in S : j >= i}
    <3>1. CASE i \in S
      <4>1. i \in Nat /\ i < HEAP_SIZE /\ After(h, i) \in i + 2..HEAP_SIZE
            /\ After(h, i) \in S \cup {HEAP_SIZE}
        BY <1>3, <3>1, Afters DEF Tiles
      <4>2. f[i] = {i} \cup f[After(h, i)]
        <5>1. i \in Nat /\ ~(i >= HEAP_SIZE)
          BY <4>1, Size
        <5>2. QED
          BY <1>2, <5>1
      <4>3. After(h, i) >= HEAP_SIZE - k
        BY <2>1, <4>1, Size
      <4>4. f[After(h, i)] = {j \in S : j >= After(h, i)}
        BY <4>1, <4>3
      <4>5. \A j \in S : j >= i <=> (j = i \/ j >= After(h, i))
        BY <1>3, <3>1, <4>1 DEF Tiles
      <4>6. QED
        BY <3>1, <4>2, <4>4, <4>5
    <3>2. QED
      BY <1>4, <3>1
  <2>2. QED
    BY <2>1
<1>7. K = Nat
  <2>1. K \in SUBSET Nat
    OBVIOUS
  <2> HIDE DEF K
  <2>2. QED
    BY <1>5, <1>6, <2>1, SetInduction
<1>8. f[0] = {j \in S : j >= 0}
  BY <1>7, Size DEF Tiles
<1>9. QED
  BY <1>1, <1>3, <1>8

(* A block that is not the first one has a neighbour in front. *)
LEMMA Before ==
  ASSUME NEW h \in Heaps, NEW S, Tiles(h, S), NEW i \in S, i # 0
  PROVE  \E j \in S : After(h, j) = i
<1> DEFINE D == {i - j : j \in {j \in S : j < i}}
<1>1. \A j \in S : j \in Nat /\ j < HEAP_SIZE
  BY Size DEF Tiles
<1>2. D \in SUBSET Nat /\ D # {}
  BY <1>1 DEF Tiles
<1>3. PICK d \in D : \A e \in D : d <= e
  BY <1>2, LeastExists
<1>4. PICK j \in S : j < i /\ d = i - j
  OBVIOUS
<1>5. After(h, j) <= i /\ After(h, j) \in S \cup {HEAP_SIZE} /\ After(h, j) \in j + 2..HEAP_SIZE
  BY <1>4, Afters DEF Tiles
<1>6. ASSUME After(h, j) < i PROVE FALSE
  <2>1. After(h, j) \in S
    BY <1>1, <1>5, <1>6, Size
  <2>2. i - After(h, j) \in D
    BY <1>6, <2>1
  <2>3. i - After(h, j) < i - j
    BY <1>1, <1>5
  <2>4. QED
    BY <1>1, <1>3, <1>4, <1>5, <2>2, <2>3
<1>7. QED
  BY <1>1, <1>5, <1>6, Size

-----------------------------------------------------------------------------
(* Sums of tags.                                                           *)

LEMMA SmallerSubsets ==
  ASSUME NEW S, IsFiniteSet(S), NEW T \in SUBSET S
  PROVE  /\ IsFiniteSet(T)
         /\ Cardinality(T) \in Nat
         /\ Cardinality(T) <= Cardinality(S)
         /\ \A x \in T : Cardinality(T \ {x}) = Cardinality(T) - 1
<1>1. IsFiniteSet(T) /\ Cardinality(T) <= Cardinality(S)
  BY FS_Subset
<1>2. Cardinality(T) \in Nat
  BY <1>1, FS_CardinalityType
<1>3. ASSUME NEW x \in T PROVE Cardinality(T \ {x}) = Cardinality(T) - 1
  BY <1>1, FS_RemoveElement
<1>4. QED
  BY <1>1, <1>2, <1>3

(* Induction over the subsets of a finite set. *)
LEMMA SubsetInduction ==
  ASSUME NEW S, IsFiniteSet(S), NEW K,
         \A T \in SUBSET S : (\A x \in T : T \ {x} \in K) => T \in K
  PROVE  SUBSET S \subseteq K
<1> DEFINE N == {n \in Nat : \A T \in SUBSET S : Cardinality(T) <= n => T \in K}
<1>1. \A T \in SUBSET S : IsFiniteSet(T) /\ Cardinality(T) \in Nat
  BY SmallerSubsets
<1>2. \A T \in SUBSET S : \A x \in T : Cardinality(T \ {x}) = Cardinality(T) - 1
  BY SmallerSubsets
<1>3. 0 \in N
  <2>1. ASSUME NEW T \in SUBSET S, Cardinality(T) <= 0 PROVE T \in K
    <3>1. T = {}
      BY <1>1, <2>1, FS_EmptySet
    <3>2. QED
      BY <3>1
  <2>2. QED
    BY <2>1
<1>4. ASSUME NEW n \in N PROVE n + 1 \in N
  <2>1. ASSUME NEW T \in SUBSET S, Cardinality(T) <= n + 1 PROVE T \in K
    <3>1. ASSUME NEW x \in T PROVE T \ {x} \in K
      <4>1. T \ {x} \in SUBSET S /\ Cardinality(T \ {x}) <= n
        BY <1>1, <1>2, <2>1
      <4>2. QED
        BY <4>1
    <3>2. QED
      BY <3>1
  <2>2. QED
    BY <2>1
<1>5. N = Nat
  <2>1. N \in SUBSET Nat
    OBVIOUS
  <2> HIDE DEF N
  <2>2. QED
    BY <1>3, <1>4, <2>1, SetInduction
<1>6. QED
  BY <1>1, <1>5

Picked(s) == CHOOSE x \in s : TRUE

LEMMA PickedIn ==
  ASSUME NEW S, S # {} PROVE Picked(S) \in S
  BY DEF Picked

(* The fold of TagSum, as a function. *)
SumOf(f, S, g) ==
  g = [s \in SUBSET S |-> IF s = {} THEN 0
                          ELSE f[CHOOSE x \in s : TRUE] + g[s \ {CHOOSE x \in s : TRUE}]]

LEMMA SumOfStep ==
  ASSUME NEW f, NEW S, NEW g, SumOf(f, S, g), NEW T \in SUBSET S
  PROVE  g[T] = IF T = {} THEN 0 ELSE f[Picked(T)] + g[T \ {Picked(T)}]
<1>1. \A s \in SUBSET S :
        g[s] = IF s = {} THEN 0
               ELSE f[CHOOSE x \in s : TRUE] + g[s \ {CHOOSE x \in s : TRUE}]
  BY DEF SumOf
<1>2. QED
  BY <1>1 DEF Picked

LEMMA SumExists ==
  ASSUME NEW f, NEW S, IsFiniteSet(S)
  PROVE  \E g : SumOf(f, S, g)
<1> DEFINE Step(g, s) == IF s = {} THEN 0 ELSE f[Picked(s)] + g[s \ {Picked(s)}]
           Good(g, n) == /\ g = [s \in SUBSET S |-> g[s]]
                         /\ \A s \in SUBSET S : Cardinality(s) <= n => g[s] = Step(g, s)
           N == {n \in Nat : \E g : Good(g, n)}
<1>1. \A T \in SUBSET S : IsFiniteSet(T) /\ Cardinality(T) \in Nat
                          /\ Cardinality(T) <= Cardinality(S)
  BY SmallerSubsets
<1>2. \A T \in SUBSET S : \A x \in T : Cardinality(T \ {x}) = Cardinality(T) - 1
  BY SmallerSubsets
<1>3. 0 \in N
  <2> DEFINE g == [s \in SUBSET S |-> 0]
  <2>1. Good(g, 0)
    <3>1. ASSUME NEW T \in SUBSET S, Cardinality(T) <= 0 PROVE g[T] = Step(g, T)
      <4>1. T = {}
        BY <1>1, <3>1, FS_EmptySet
      <4>2. QED
        BY <4>1
    <3>2. QED
      BY <3>1
  <2> HIDE DEF Good, g
  <2>2. QED
    BY <2>1
<1>4. ASSUME NEW n \in N PROVE n + 1 \in N
  <2>1. PICK g : Good(g, n)
    OBVIOUS
  <2> DEFINE k == [s \in SUBSET S |-> Step(g, s)]
  <2>2. ASSUME NEW T \in SUBSET S, Cardinality(T) <= n + 1 PROVE k[T] = Step(k, T)
    <3>1. CASE T = {}
      BY <3>1
    <3>2. CASE T # {}
      <4> DEFINE U == T \ {Picked(T)}
      <4>1. U \in SUBSET S /\ Cardinality(U) <= n
        BY <1>1, <1>2, <2>2, <3>2, PickedIn
      <4>2. k[U] = Step(g, U)
        BY <4>1
      <4>3. g[U] = Step(g, U)
        BY <2>1, <4>1
      <4>4. k[T] = f[Picked(T)] + g[U] /\ Step(k, T) = f[Picked(T)] + k[U]
        BY <3>2
      <4>5. k[U] = g[U]
        BY <4>2, <4>3
      <4> HIDE DEF k, Step, U
      <4>6. QED
        BY <4>4, <4>5
    <3>3. QED
      BY <3>1, <3>2
  <2>3. Good(k, n + 1)
    BY <2>2
  <2>4. n + 1 \in Nat
    OBVIOUS
  <2> HIDE DEF Good, k
  <2>5. QED
    BY <2>3, <2>4
<1>5. N = Nat
  <2>1. N \in SUBSET Nat
    OBVIOUS
  <2> HIDE DEF N
  <2>2. QED
    BY <1>3, <1>4, <2>1, SetInduction
<1>6. Cardinality(S) \in N
  BY <1>1, <1>5
<1>7. PICK g : Good(g, Cardinality(S))
  BY <1>6
<1>8. g = [s \in SUBSET S |-> Step(g, s)]
  BY <1>1, <1>7
<1>9. SumOf(f, S, g)
  BY <1>8, Zenon DEF SumOf, Picked
<1>10. QED
  BY <1>9

LEMMA SumIs ==
  ASSUME NEW f, NEW S, IsFiniteSet(S)
  PROVE  \E g : SumOf(f, S, g) /\ TagSum(f, S) = g[S]
<1> DEFINE g == CHOOSE g : SumOf(f, S, g)
<1>1. SumOf(f, S, g)
  BY SumExists
<1>2. TagSum(f, S) = g[S]
  BY Zenon DEF SumOf, TagSum, MapThenSumSet, MapThenFoldSet
<1>3. QED
  BY <1>1, <1>2

(* A sum depends on the terms only. *)
LEMMA SumsAgree ==
  ASSUME NEW f, NEW S, NEW g, SumOf(f, S, g),
         NEW e, NEW R, NEW k, SumOf(e, R, k),
         IsFiniteSet(S), S \subseteq R, \A i \in S : f[i] = e[i]
  PROVE  g[S] = k[S]
<1> DEFINE K == {T \in SUBSET S : g[T] = k[T]}
<1>1. ASSUME NEW T \in SUBSET S, \A x \in T : T \ {x} \in K PROVE T \in K
  <2>1. g[T] = IF T = {} THEN 0 ELSE f[Picked(T)] + g[T \ {Picked(T)}]
    BY SumOfStep
  <2>2. k[T] = IF T = {} THEN 0 ELSE e[Picked(T)] + k[T \ {Picked(T)}]
    BY SumOfStep
  <2>3. T # {} => f[Picked(T)] = e[Picked(T)] /\ T \ {Picked(T)} \in K
    BY <1>1, PickedIn
  <2>4. QED
    BY <2>1, <2>2, <2>3
<1>2. SUBSET S \subseteq K
  <2> HIDE DEF K
  <2>1. QED
    BY <1>1, SubsetInduction
<1>3. QED
  BY <1>2

LEMMA SumSame ==
  ASSUME NEW f, NEW e, NEW S, IsFiniteSet(S), \A i \in S : f[i] = e[i]
  PROVE  TagSum(f, S) = TagSum(e, S)
<1>1. PICK g : SumOf(f, S, g) /\ TagSum(f, S) = g[S]
  BY SumIs
<1>2. PICK k : SumOf(e, S, k) /\ TagSum(e, S) = k[S]
  BY SumIs
<1>3. QED
  BY <1>1, <1>2, SumsAgree

LEMMA SumEmpty ==
  ASSUME NEW f PROVE TagSum(f, {}) = 0
<1>1. IsFiniteSet({})
  BY FS_EmptySet
<1>2. PICK g : SumOf(f, {}, g) /\ TagSum(f, {}) = g[{}]
  BY <1>1, SumIs
<1>3. QED
  BY <1>2, SumOfStep

LEMMA SumPicked ==
  ASSUME NEW f, NEW S, IsFiniteSet(S), S # {}
  PROVE  TagSum(f, S) = f[Picked(S)] + TagSum(f, S \ {Picked(S)})
<1> DEFINE U == S \ {Picked(S)}
<1>1. IsFiniteSet(U)
  BY FS_RemoveElement
<1>2. PICK g : SumOf(f, S, g) /\ TagSum(f, S) = g[S]
  BY SumIs
<1>3. PICK k : SumOf(f, U, k) /\ TagSum(f, U) = k[U]
  BY <1>1, SumIs
<1>4. g[S] = f[Picked(S)] + g[U]
  BY <1>2, SumOfStep
<1>5. k[U] = g[U]
  BY <1>1, <1>2, <1>3, SumsAgree
<1>6. QED
  BY <1>2, <1>3, <1>4, <1>5

LEMMA SumInt ==
  ASSUME NEW f, NEW S, IsFiniteSet(S), \A i \in S : f[i] \in Int
  PROVE  TagSum(f, S) \in Int
<1> DEFINE K == {T \in SUBSET S : TagSum(f, T) \in Int}
<1>1. ASSUME NEW T \in SUBSET S, \A x \in T : T \ {x} \in K PROVE T \in K
  <2>1. CASE T = {}
    BY <2>1, SumEmpty
  <2>2. CASE T # {}
    <3>1. Picked(T) \in T /\ IsFiniteSet(T)
      BY <2>2, PickedIn, FS_Subset
    <3>2. TagSum(f, T) = f[Picked(T)] + TagSum(f, T \ {Picked(T)})
      BY <2>2, <3>1, SumPicked
    <3>3. f[Picked(T)] \in Int /\ TagSum(f, T \ {Picked(T)}) \in Int
      BY <1>1, <3>1
    <3>4. QED
      BY <3>2, <3>3
  <2>3. QED
    BY <2>1, <2>2
<1>2. SUBSET S \subseteq K
  <2> HIDE DEF K
  <2>1. QED
    BY <1>1, SubsetInduction
<1>3. QED
  BY <1>2

(* The order of the terms does not matter: any of them can be taken out. *)
LEMMA SumRemove ==
  ASSUME NEW f, NEW S, IsFiniteSet(S), \A i \in S : f[i] \in Int, NEW y \in S
  PROVE  TagSum(f, S) = f[y] + TagSum(f, S \ {y})
<1> DEFINE K == {T \in SUBSET S : \A z \in T : TagSum(f, T) = f[z] + TagSum(f, T \ {z})}
<1>1. ASSUME NEW T \in SUBSET S, \A x \in T : T \ {x} \in K PROVE T \in K
  <2>1. ASSUME NEW z \in T PROVE TagSum(f, T) = f[z] + TagSum(f, T \ {z})
    <3> DEFINE c == Picked(T)
    <3>1. c \in T /\ IsFiniteSet(T)
      BY PickedIn, FS_Subset
    <3>2. TagSum(f, T) = f[c] + TagSum(f, T \ {c})
      BY <3>1, SumPicked
    <3>3. CASE z = c
      BY <3>2, <3>3
    <3>4. CASE z # c
      <4> DEFINE R == TagSum(f, (T \ {z}) \ {c})
      <4>1. (T \ {c}) \ {z} = (T \ {z}) \ {c}
        OBVIOUS
      <4>2. TagSum(f, T \ {c}) = f[z] + R
        BY <1>1, <3>1, <3>4, <4>1
      <4>3. TagSum(f, T \ {z}) = f[c] + R
        BY <1>1, <3>1, <3>4
      <4>4. IsFiniteSet((T \ {z}) \ {c}) /\ (T \ {z}) \ {c} \subseteq S
        BY FS_Subset
      <4>5. f[c] \in Int /\ f[z] \in Int /\ R \in Int
        BY <3>1, <4>4, SumInt
      <4> HIDE DEF c, R
      <4>6. QED
        BY <3>2, <4>2, <4>3, <4>5
    <3>5. QED
      BY <3>3, <3>4
  <2>2. QED
    BY <2>1
<1>2. SUBSET S \subseteq K
  <2> HIDE DEF K
  <2>1. QED
    BY <1>1, SubsetInduction
<1>3. QED
  BY <1>2

-----------------------------------------------------------------------------
(* The two tags of each block agree and are even. *)
Tagged(h, S) == \A i \in S : h[After(h, i) - 1] = h[i] /\ h[i] % 2 = 0

Shape(h, S) == h \in Heaps /\ Tiles(h, S) /\ Tagged(h, S)

(* h2 differs from h only in the blocks between a and b, where its blocks  *)
(* start at R.                                                             *)
Rewritten(h, a, b, h2, R) ==
  /\ h2 \in Heaps
  /\ \A w \in 0..HEAP_SIZE - 1 : w < a \/ w >= b => h2[w] = h[w]
  /\ R \subseteq a..b - 1
  /\ a \in R
  /\ \A i \in R : /\ After(h2, i) \in R \cup {b}
                  /\ h2[After(h2, i) - 1] = h2[i]
                  /\ h2[i] % 2 = 0
  /\ \A i, j \in R : i < j => After(h2, i) <= j

Outside(S, a, b) == {i \in S : i < a \/ i >= b}

(* A block lies on one side of the blocks that are rewritten. *)
LEMMA Untouched ==
  ASSUME NEW h, NEW S, Shape(h, S), NEW a \in S, NEW b \in S \cup {HEAP_SIZE}, a < b,
         NEW h2, NEW R, Rewritten(h, a, b, h2, R), NEW i \in Outside(S, a, b)
  PROVE  /\ i \in S
         /\ i < a => After(h, i) <= a
         /\ \A w \in i..After(h, i) - 1 : h2[w] = h[w]
         /\ After(h2, i) = After(h, i)
<1>1. i \in S /\ h \in Heaps /\ Tiles(h, S)
  BY DEF Outside, Shape
<1>2. i \in 0..HEAP_SIZE - 1 /\ a \in 0..HEAP_SIZE - 1 /\ b \in Nat
  BY <1>1, Size DEF Tiles
<1>3. After(h, i) \in i + 2..HEAP_SIZE
  BY <1>1, Afters
<1>4. i < a => After(h, i) <= a
  BY <1>1 DEF Tiles
<1>5. i < a \/ i >= b
  BY DEF Outside
<1>6. ASSUME NEW w \in i..After(h, i) - 1 PROVE h2[w] = h[w]
  <2>1. w \in 0..HEAP_SIZE - 1 /\ (w < a \/ w >= b)
    BY <1>2, <1>3, <1>4, <1>5, Size
  <2>2. QED
    BY <2>1 DEF Rewritten
<1>7. h2[i] = h[i]
  BY <1>2, <1>3, <1>6, Size
<1>8. After(h2, i) = After(h, i)
  BY <1>7 DEF After
<1>9. QED
  BY <1>1, <1>4, <1>6, <1>8

LEMMA RewrittenShape ==
  ASSUME NEW h, NEW S, Shape(h, S), NEW a \in S, NEW b \in S \cup {HEAP_SIZE}, a < b,
         NEW h2, NEW R, Rewritten(h, a, b, h2, R)
  PROVE  Shape(h2, Outside(S, a, b) \cup R)
<1> DEFINE T == Outside(S, a, b) \cup R
<1>1. h \in Heaps /\ Tiles(h, S) /\ Tagged(h, S) /\ h2 \in Heaps
  BY DEF Shape, Rewritten
<1>2. S \subseteq 0..HEAP_SIZE - 1 /\ 0 \in S /\ b \in Nat /\ b <= HEAP_SIZE /\ HEAP_SIZE \in Nat
  BY <1>1, Size DEF Tiles
<1>3. R \subseteq a..b - 1 /\ a \in R
  BY DEF Rewritten
<1>4. T \subseteq 0..HEAP_SIZE - 1
  <2>1. R \subseteq 0..HEAP_SIZE - 1
    BY <1>2, <1>3
  <2>2. QED
    BY <1>2, <2>1 DEF Outside
<1>5. 0 \in T
  <2>1. CASE a = 0
    BY <1>3, <2>1
  <2>2. CASE a # 0
    <3>1. 0 < a
      BY <1>2, <2>2
    <3>2. QED
      BY <1>2, <3>1 DEF Outside
  <2>3. QED
    BY <2>1, <2>2
<1>6. \A i \in Outside(S, a, b) :
        /\ i \in S
        /\ i \in Int
        /\ i < a => After(h2, i) <= a
        /\ After(h2, i) = After(h, i)
        /\ h2[i] = h[i]
        /\ h2[After(h2, i) - 1] = h[After(h, i) - 1]
        /\ After(h2, i) \in i + 2..HEAP_SIZE
  <2> TAKE i \in Outside(S, a, b)
  <2>1. /\ i \in S
        /\ i < a => After(h, i) <= a
        /\ \A w \in i..After(h, i) - 1 : h2[w] = h[w]
        /\ After(h2, i) = After(h, i)
    BY Untouched
  <2>2. After(h, i) \in i + 2..HEAP_SIZE /\ i \in Int
    BY <1>1, <1>2, <2>1, Afters
  <2>3. i \in i..After(h, i) - 1 /\ After(h, i) - 1 \in i..After(h, i) - 1
    BY <1>2, <2>2
  <2>4. QED
    BY <2>1, <2>2, <2>3
<1>7. ASSUME NEW i \in R
      PROVE  After(h2, i) \in R \cup {b} /\ i \in a..b - 1 /\ After(h2, i) <= b
             /\ After(h2, i) \in Int
  <2>1. After(h2, i) \in R \cup {b} /\ i \in a..b - 1
    BY <1>3 DEF Rewritten
  <2>2. \A x \in R \cup {b} : x \in Int /\ x <= b
    BY <1>2, <1>3
  <2>3. QED
    BY <2>1, <2>2
<1>8. \A i \in T : After(h2, i) \in T \cup {HEAP_SIZE}
  <2>1. ASSUME NEW i \in Outside(S, a, b) PROVE After(h2, i) \in T \cup {HEAP_SIZE}
    <3>1. After(h2, i) \in S \cup {HEAP_SIZE}
      BY <1>1, <1>6 DEF Tiles
    <3>2. (i < a /\ After(h2, i) <= a) \/ (i >= b /\ After(h2, i) >= b)
      <4>1. i \in Int /\ After(h2, i) \in i + 2..HEAP_SIZE
        BY <1>6
      <4>2. QED
        BY <1>2, <1>6, <4>1 DEF Outside
    <3>3. After(h2, i) = a \/ After(h2, i) < a \/ After(h2, i) >= b
      BY <1>2, <1>6, <3>2
    <3>4. QED
      BY <1>3, <3>1, <3>3 DEF Outside
  <2>2. b \in T \cup {HEAP_SIZE}
    BY <1>2 DEF Outside
  <2>3. QED
    BY <1>7, <2>1, <2>2
<1>9. \A i, j \in T : i < j => After(h2, i) <= j
  <2>1. ASSUME NEW i \in T, NEW j \in T, i < j PROVE After(h2, i) <= j
    <3>1. CASE i \in Outside(S, a, b) /\ j \in Outside(S, a, b)
      BY <1>1, <1>6, <2>1, <3>1 DEF Tiles
    <3>2. CASE i \in Outside(S, a, b) /\ j \in R
      <4>1. j \in a..b - 1 /\ i \in Int /\ a \in Int
        BY <1>2, <1>3, <1>6, <3>2
      <4>2. i < a
        BY <1>2, <2>1, <3>2, <4>1 DEF Outside
      <4>3. After(h2, i) <= a /\ After(h2, i) \in i + 2..HEAP_SIZE
        BY <1>6, <3>2, <4>2
      <4>4. QED
        BY <1>2, <4>1, <4>3
    <3>3. CASE i \in R /\ j \in Outside(S, a, b)
      <4>1. i \in a..b - 1 /\ After(h2, i) <= b /\ After(h2, i) \in Int /\ j \in Int
        BY <1>6, <1>7, <3>3
      <4>2. j >= b
        BY <1>2, <2>1, <3>3, <4>1 DEF Outside
      <4>3. QED
        BY <1>2, <4>1, <4>2
    <3>4. CASE i \in R /\ j \in R
      BY <2>1, <3>4 DEF Rewritten
    <3>5. QED
      BY <3>1, <3>2, <3>3, <3>4
  <2>2. QED
    BY <2>1
<1>10. Tagged(h2, T)
  <2>1. ASSUME NEW i \in Outside(S, a, b)
        PROVE  h2[After(h2, i) - 1] = h2[i] /\ h2[i] % 2 = 0
    BY <1>1, <1>6 DEF Tagged
  <2>2. ASSUME NEW i \in R
        PROVE  h2[After(h2, i) - 1] = h2[i] /\ h2[i] % 2 = 0
    BY DEF Rewritten
  <2>3. QED
    BY <2>1, <2>2 DEF Tagged
<1>11. Tiles(h2, T)
  BY <1>4, <1>5, <1>8, <1>9 DEF Tiles
<1>12. QED
  BY <1>1, <1>10, <1>11 DEF Shape

-----------------------------------------------------------------------------
(* The three ways heap.c rewrites tags.                                    *)

LEMMA BlockOf ==
  ASSUME NEW h, NEW S, Shape(h, S), NEW i \in S
  PROVE  /\ i \in 0..HEAP_SIZE - 1
         /\ h[i] \in Int
         /\ h[i] % 2 = 0
         /\ After(h, i) \in i + 2..HEAP_SIZE
         /\ After(h, i) \in S \cup {HEAP_SIZE}
         /\ h[After(h, i) - 1] = h[i]
         /\ h[i] >= 0 => After(h, i) = i + h[i] + 2
         /\ h[i] <= 0 => After(h, i) = i - h[i] + 2
<1>1. h \in Heaps /\ Tiles(h, S) /\ Tagged(h, S)
  BY DEF Shape
<1>2. i \in 0..HEAP_SIZE - 1 /\ h[i] \in Int /\ After(h, i) = i + abs(h[i]) + 2
      /\ After(h, i) \in i + 2..HEAP_SIZE
  BY <1>1, Afters
<1>3. (h[i] >= 0 => abs(h[i]) = h[i]) /\ (h[i] <= 0 => abs(h[i]) = -h[i])
  BY <1>2 DEF abs
<1>4. h[After(h, i) - 1] = h[i] /\ h[i] % 2 = 0
  BY <1>1 DEF Tagged
<1>5. After(h, i) \in S \cup {HEAP_SIZE}
  BY <1>1 DEF Tiles
<1>6. QED
  BY <1>2, <1>3, <1>4, <1>5

LEMMA OutsideOne ==
  ASSUME NEW h, NEW S, Shape(h, S), NEW i \in S
  PROVE  Outside(S, i, After(h, i)) = S \ {i}
<1>1. \A k \in S : k \in Int
  BY Size DEF Shape, Tiles
<1>2. After(h, i) > i /\ After(h, i) \in Int
  BY BlockOf, Size
<1>3. \A k \in S : k > i => k >= After(h, i)
  BY <1>1, <1>2 DEF Shape, Tiles
<1>4. QED
  BY <1>1, <1>2, <1>3 DEF Outside

LEMMA OutsideTwo ==
  ASSUME NEW h, NEW S, Shape(h, S), NEW i \in S, NEW j \in S, After(h, i) = j
  PROVE  Outside(S, i, After(h, j)) = S \ {i, j}
<1>1. \A k \in S : k \in Int
  BY Size DEF Shape, Tiles
<1>2. j > i /\ After(h, j) > j /\ After(h, j) \in Int
  BY BlockOf, Size
<1>3. \A k \in S : (k > i => k >= j) /\ (k > j => k >= After(h, j))
  BY <1>1, <1>2 DEF Shape, Tiles
<1>4. QED
  BY <1>1, <1>2, <1>3 DEF Outside

Twice(h, a, b, x) == [h EXCEPT ![a] = x, ![b] = x]

Cells == 0..HEAP_SIZE - 1

LEMMA TwiceIs ==
  ASSUME NEW h \in Heaps, NEW a \in Cells, NEW b \in Cells, NEW x \in Int
  PROVE  /\ Twice(h, a, b, x) \in Heaps
         /\ Twice(h, a, b, x)[a] = x
         /\ Twice(h, a, b, x)[b] = x
         /\ \A w \in Cells : w # a /\ w # b => Twice(h, a, b, x)[w] = h[w]
<1>1. h \in [Cells -> Int]
  BY DEF Heaps, Cells
<1>2. /\ Twice(h, a, b, x) \in [Cells -> Int]
      /\ \A w \in Cells : Twice(h, a, b, x)[w] = IF w = a \/ w = b THEN x ELSE h[w]
  BY <1>1 DEF Twice
<1>3. QED
  BY <1>1, <1>2 DEF Cells, Heaps

(* Both tags of a block are set to a number of the same size. *)
LEMMA RetagRewrites ==
  ASSUME NEW h, NEW S, Shape(h, S), NEW i \in S, NEW x \in {h[i], -h[i]},
         NEW h2, h2 = Twice(h, i, After(h, i) - 1, x)
  PROVE  Rewritten(h, i, After(h, i), h2, {i}) /\ h2[i] = x /\ After(h2, i) = After(h, i)
<1> DEFINE b == After(h, i)
<1>1. i \in 0..HEAP_SIZE - 1 /\ h[i] \in Int /\ h[i] % 2 = 0 /\ b \in i + 2..HEAP_SIZE
      /\ h \in Heaps /\ b = i + abs(h[i]) + 2
  BY BlockOf, Afters DEF Shape
<1>2. x \in Int /\ x % 2 = 0 /\ abs(x) = abs(h[i])
  BY <1>1 DEF abs
<1> HIDE DEF b
<1> DEFINE c == b - 1
<1>3. h2 = Twice(h, i, c, x)
  BY DEF b
<1>4. c \in Cells /\ i \in Cells /\ i < c /\ b = c + 1
  BY <1>1, Size DEF Cells
<1> HIDE DEF c
<1>5. /\ h2 \in Heaps /\ h2[i] = x /\ h2[c] = x
      /\ \A w \in Cells : w # i /\ w # c => h2[w] = h[w]
  <2>1. h \in Heaps /\ i \in Cells /\ c \in Cells /\ x \in Int
    BY <1>1, <1>2, <1>4
  <2>2. QED
    BY ONLY <1>3, <2>1, TwiceIs
<1>6. \A w \in 0..HEAP_SIZE - 1 : w < i \/ w >= b => h2[w] = h[w]
  <2>1. ASSUME NEW w \in 0..HEAP_SIZE - 1, w < i \/ w >= b PROVE h2[w] = h[w]
    <3>1. w \in Cells /\ w # i /\ w # c
      BY <1>1, <1>4, <2>1, Size DEF Cells
    <3>2. QED
      BY <1>5, <3>1
  <2>2. QED
    BY <2>1
<1>7. After(h2, i) = b
  BY <1>1, <1>2, <1>5 DEF After
<1>8. {i} \subseteq i..b - 1 /\ b - 1 = c
  BY <1>1, <1>4, Size DEF Cells
<1>9. \A k, l \in {i} : k < l => After(h2, k) <= l
  BY <1>1
<1>10. Rewritten(h, i, b, h2, {i})
  BY <1>2, <1>5, <1>6, <1>7, <1>8, <1>9 DEF Rewritten
<1>11. QED
  BY <1>5, <1>7, <1>10 DEF b

(* A free block gives its first n words away and keeps the rest. *)
LEMMA SplitRewrites ==
  ASSUME NEW h, NEW S, Shape(h, S), NEW i \in S, NEW n \in Nat, n > 0, n % 2 = 0,
         h[i] < -n
  PROVE  LET j    == i + n + 2
             rest == h[i] + n + 2
             h2   == Split(h, i, n)
         IN  /\ Rewritten(h, i, After(h, i), h2, {i, j})
             /\ h2[i] = n /\ After(h2, i) = j
             /\ h2[j] = rest /\ After(h2, j) = After(h, i)
             /\ rest <= 0 /\ j > i /\ j < After(h, i)
<1> DEFINE b == After(h, i)
           j    == i + n + 2
           rest == h[i] + n + 2
           h2   == Split(h, i, n)
<1>1. i \in 0..HEAP_SIZE - 1 /\ h[i] \in Int /\ h[i] % 2 = 0 /\ b \in i + 2..HEAP_SIZE
      /\ h \in Heaps /\ b = i - h[i] + 2
  <2>1. h[i] \in Int
    BY BlockOf
  <2>2. h[i] <= 0
    BY <2>1
  <2>3. QED
    BY <2>2, BlockOf DEF Shape
<1>2. rest \in Int /\ rest <= 0 /\ rest % 2 = 0
  BY <1>1
<1>3. j \in Int /\ i + n + 1 = j - 1 /\ i < j - 1 /\ j < b - 1 /\ b - 1 < HEAP_SIZE
      /\ i - h[i] + 1 = b - 1
  BY <1>1, <1>2, Size
<1> DEFINE c == j - 1
           d == b - 1
           g == Twice(h, i, c, n)
<1>4. h2 = Twice(g, j, d, rest)
  BY <1>3 DEF Split, Twice
<1>5. j = i + n + 2 /\ b = j - rest + 2 /\ c = j - 1 /\ d = b - 1
  BY <1>1
<1> HIDE DEF b, j, rest, h2, c, d
<1>6. {i, c, j, d} \subseteq Cells /\ i < c /\ c < j /\ j < d
  BY <1>1, <1>3, <1>5, Size DEF Cells
<1>7. /\ g \in Heaps /\ g[i] = n /\ g[c] = n
      /\ \A w \in Cells : w # i /\ w # c => g[w] = h[w]
  <2>1. h \in Heaps /\ i \in Cells /\ c \in Cells /\ n \in Int
    BY <1>1, <1>6
  <2>2. QED
    BY ONLY <2>1, TwiceIs
<1> HIDE DEF g
<1>8. /\ h2 \in Heaps /\ h2[j] = rest /\ h2[d] = rest
      /\ \A w \in Cells : w # j /\ w # d => h2[w] = g[w]
  <2>1. g \in Heaps /\ j \in Cells /\ d \in Cells /\ rest \in Int
    BY <1>2, <1>6, <1>7
  <2>2. QED
    BY ONLY <1>4, <2>1, TwiceIs
<1>9. /\ h2[i] = n /\ h2[c] = n
      /\ \A w \in 0..HEAP_SIZE - 1 : w < i \/ w >= b => h2[w] = h[w]
  BY <1>1, <1>5, <1>6, <1>7, <1>8, Size DEF Cells
<1>10. After(h2, i) = j
  BY <1>1, <1>5, <1>9 DEF After, abs
<1>11. After(h2, j) = b
  BY <1>2, <1>3, <1>5, <1>8 DEF After, abs
<1>12. {i, j} \subseteq i..b - 1
  BY <1>1, <1>3, Size
<1>13. \A k, l \in {i, j} : k < l => After(h2, k) <= l
  BY <1>1, <1>3, <1>10
<1>14. ASSUME NEW k \in {i, j}
       PROVE  /\ After(h2, k) \in {i, j} \cup {b}
              /\ h2[After(h2, k) - 1] = h2[k]
              /\ h2[k] % 2 = 0
  BY <1>2, <1>5, <1>8, <1>9, <1>10, <1>11
<1>15. Rewritten(h, i, b, h2, {i, j})
  BY <1>8, <1>9, <1>12, <1>13, <1>14 DEF Rewritten
<1>16. j > i /\ j < b
  BY <1>1, <1>3, Size
<1>17. QED
  BY <1>2, <1>8, <1>9, <1>10, <1>11, <1>15, <1>16 DEF b, j, rest, h2

MergedHeap(h, i, j) ==
  LET new == h[i] + h[j] - 2
  IN  [h EXCEPT ![j] = 0, ![j - 1] = 0, ![i] = new, ![i - new + 1] = new]

(* Two free neighbours become one block. *)
LEMMA MergeRewrites ==
  ASSUME NEW h, NEW S, Shape(h, S), NEW i \in S, NEW j \in S, After(h, i) = j,
         h[i] < 0, h[j] < 0
  PROVE  LET h2 == MergedHeap(h, i, j)
         IN  /\ Rewritten(h, i, After(h, j), h2, {i})
             /\ h2[i] = h[i] + h[j] - 2
             /\ After(h2, i) = After(h, j)
             /\ i < After(h, j)
<1> DEFINE b == After(h, j)
           new == h[i] + h[j] - 2
           h2   == MergedHeap(h, i, j)
<1>1. /\ i \in 0..HEAP_SIZE - 1 /\ h[i] \in Int /\ h[i] % 2 = 0 /\ j \in i + 2..HEAP_SIZE
      /\ h \in Heaps
      /\ j = i - h[i] + 2
  <2>1. h[i] \in Int
    BY BlockOf
  <2>2. h[i] <= 0
    BY <2>1
  <2>3. QED
    BY <2>2, BlockOf DEF Shape
<1>2. j \in 0..HEAP_SIZE - 1 /\ h[j] \in Int /\ h[j] % 2 = 0 /\ b \in j + 2..HEAP_SIZE
      /\ b = j - h[j] + 2
  <2>1. h[j] \in Int
    BY BlockOf
  <2>2. h[j] <= 0
    BY <2>1
  <2>3. QED
    BY <2>2, BlockOf DEF Shape
<1>3. new \in Int /\ new < 0 /\ new % 2 = 0 /\ b = i - new + 2 /\ i - new + 1 = b - 1
  BY <1>1, <1>2
<1> DEFINE c == j - 1
           d == b - 1
           g == Twice(h, j, c, 0)
<1>4. h2 = Twice(g, i, d, new)
  BY <1>3 DEF MergedHeap, Twice
<1>5. c = j - 1 /\ d = b - 1
  OBVIOUS
<1> HIDE DEF b, new, h2, c, d
<1>6. {i, c, j, d} \subseteq Cells /\ i < c /\ c < j /\ j < d
  BY <1>1, <1>2, <1>5, Size DEF Cells
<1>7. /\ g \in Heaps
      /\ \A w \in Cells : w # j /\ w # c => g[w] = h[w]
  <2>1. h \in Heaps /\ j \in Cells /\ c \in Cells
    BY <1>1, <1>6
  <2>2. QED
    BY ONLY <2>1, TwiceIs
<1> HIDE DEF g
<1>8. /\ h2 \in Heaps /\ h2[i] = new /\ h2[d] = new
      /\ \A w \in Cells : w # i /\ w # d => h2[w] = g[w]
  <2>1. g \in Heaps /\ i \in Cells /\ d \in Cells /\ new \in Int
    BY <1>3, <1>6, <1>7
  <2>2. QED
    BY ONLY <1>4, <2>1, TwiceIs
<1>9. \A w \in 0..HEAP_SIZE - 1 : w < i \/ w >= b => h2[w] = h[w]
  BY <1>1, <1>2, <1>5, <1>6, <1>7, <1>8, Size DEF Cells
<1>10. After(h2, i) = b
  BY <1>1, <1>3, <1>8 DEF After, abs
<1>11. {i} \subseteq i..b - 1 /\ i < b
  BY <1>1, <1>2, <1>5, Size
<1>12. \A k, l \in {i} : k < l => After(h2, k) <= l
  BY <1>1
<1>13. Rewritten(h, i, b, h2, {i})
  BY <1>3, <1>5, <1>8, <1>9, <1>10, <1>11, <1>12 DEF Rewritten
<1>14. QED
  BY <1>8, <1>10, <1>11, <1>13 DEF b, new, h2

-----------------------------------------------------------------------------
(* The sums of the tags of the allocated and of the free blocks.           *)

Used(h, S)   == {i \in S : h[i] > 0}
Unused(h, S) == {i \in S : h[i] <= 0}

UsedSum(h, S)   == TagSum(h, Used(h, S))
UnusedSum(h, S) == TagSum(h, Unused(h, S))

Positive(x) == IF x > 0 THEN x ELSE 0
Negative(x) == IF x > 0 THEN 0 ELSE x

LEMMA SumAdd ==
  ASSUME NEW h, NEW T, IsFiniteSet(T), NEW i, i \notin T, \A k \in T \cup {i} : h[k] \in Int
  PROVE  TagSum(h, T \cup {i}) = TagSum(h, T) + h[i] /\ TagSum(h, T) \in Int
<1> DEFINE V == T \cup {i}
<1>1. IsFiniteSet(V) /\ V \ {i} = T /\ i \in V
  BY FS_AddElement
<1>2. TagSum(h, V) = h[i] + TagSum(h, V \ {i})
  <2>1. \A k \in V : h[k] \in Int
    OBVIOUS
  <2> HIDE DEF V
  <2>2. QED
    BY <1>1, <2>1, SumRemove
<1>3. TagSum(h, T) \in Int /\ h[i] \in Int
  BY SumInt
<1> HIDE DEF V
<1>4. TagSum(h, V) = h[i] + TagSum(h, T)
  BY <1>1, <1>2
<1>5. TagSum(h, V) = TagSum(h, T) + h[i]
  BY <1>3, <1>4
<1>6. QED
  BY <1>3, <1>5 DEF V

LEMMA SumsInt ==
  ASSUME NEW h, NEW T, IsFiniteSet(T), \A k \in T : h[k] \in Int
  PROVE  UsedSum(h, T) \in Int /\ UnusedSum(h, T) \in Int
<1>1. /\ Used(h, T) \subseteq T /\ IsFiniteSet(Used(h, T))
      /\ Unused(h, T) \subseteq T /\ IsFiniteSet(Unused(h, T))
  BY FS_Subset DEF Used, Unused
<1>2. QED
  BY <1>1, SumInt DEF UsedSum, UnusedSum

LEMMA SumsWith ==
  ASSUME NEW h, NEW T, IsFiniteSet(T), NEW i, i \notin T, \A k \in T \cup {i} : h[k] \in Int
  PROVE  /\ UsedSum(h, T \cup {i}) = UsedSum(h, T) + Positive(h[i])
         /\ UnusedSum(h, T \cup {i}) = UnusedSum(h, T) + Negative(h[i])
<1>1. UsedSum(h, T) \in Int /\ UnusedSum(h, T) \in Int /\ h[i] \in Int
  BY SumsInt
<1>2. /\ Used(h, T) \subseteq T /\ IsFiniteSet(Used(h, T))
      /\ Unused(h, T) \subseteq T /\ IsFiniteSet(Unused(h, T))
  BY FS_Subset DEF Used, Unused
<1>3. CASE h[i] > 0
  <2>1. Used(h, T \cup {i}) = Used(h, T) \cup {i} /\ Unused(h, T \cup {i}) = Unused(h, T)
    BY <1>1, <1>3 DEF Used, Unused
  <2>2. TagSum(h, Used(h, T) \cup {i}) = TagSum(h, Used(h, T)) + h[i]
    BY <1>2, SumAdd
  <2>3. Positive(h[i]) = h[i] /\ Negative(h[i]) = 0
    BY <1>3 DEF Positive, Negative
  <2>4. /\ UsedSum(h, T \cup {i}) = UsedSum(h, T) + h[i]
        /\ UnusedSum(h, T \cup {i}) = UnusedSum(h, T)
    BY <2>1, <2>2 DEF UsedSum, UnusedSum
  <2>5. QED
    BY <1>1, <2>3, <2>4
<1>4. CASE ~(h[i] > 0)
  <2>1. Used(h, T \cup {i}) = Used(h, T) /\ Unused(h, T \cup {i}) = Unused(h, T) \cup {i}
    BY <1>1, <1>4 DEF Used, Unused
  <2>2. TagSum(h, Unused(h, T) \cup {i}) = TagSum(h, Unused(h, T)) + h[i]
    BY <1>2, SumAdd
  <2>3. Positive(h[i]) = 0 /\ Negative(h[i]) = h[i]
    BY <1>4 DEF Positive, Negative
  <2>4. /\ UsedSum(h, T \cup {i}) = UsedSum(h, T)
        /\ UnusedSum(h, T \cup {i}) = UnusedSum(h, T) + h[i]
    BY <2>1, <2>2 DEF UsedSum, UnusedSum
  <2>5. QED
    BY <1>1, <2>3, <2>4
<1>5. QED
  BY <1>3, <1>4

LEMMA SumsSame ==
  ASSUME NEW h, NEW h2, NEW T, IsFiniteSet(T), \A k \in T : h2[k] = h[k]
  PROVE  UsedSum(h2, T) = UsedSum(h, T) /\ UnusedSum(h2, T) = UnusedSum(h, T)
<1>1. Used(h2, T) = Used(h, T) /\ Unused(h2, T) = Unused(h, T)
  BY DEF Used, Unused
<1>2. IsFiniteSet(Used(h, T)) /\ IsFiniteSet(Unused(h, T))
  BY FS_Subset DEF Used, Unused
<1>3. (\A k \in Used(h, T) : h2[k] = h[k]) /\ (\A k \in Unused(h, T) : h2[k] = h[k])
  BY DEF Used, Unused
<1>4. QED
  BY <1>1, <1>2, <1>3, SumSame DEF UsedSum, UnusedSum

LEMMA FiniteStarts ==
  ASSUME NEW h, NEW S, Shape(h, S), NEW T \in SUBSET S
  PROVE  IsFiniteSet(T) /\ (\A k \in T : h[k] \in Int)
<1>1. S \subseteq 0..HEAP_SIZE - 1
  BY DEF Shape, Tiles
<1>2. IsFiniteSet(0..HEAP_SIZE - 1)
  BY Size, FS_Interval
<1>3. QED
  BY <1>1, <1>2, FS_Subset, BlockOf

-----------------------------------------------------------------------------
(* The inductive invariant, for a memory m whose blocks start at S and a   *)
(* program that owns the blocks o.                                         *)

Memories == [heap : Heaps, used : Int, free : Int]

Counted(m, S) == m.used = 4 * UsedSum(m.heap, S) /\ m.free = -(4 * UnusedSum(m.heap, S))

(* No free block but those of B has a free block behind it. *)
Apart(h, S, B) ==
  \A i \in S \ B : h[i] < 0 /\ After(h, i) < HEAP_SIZE => h[After(h, i)] >= 0

Holds(h, S, o) ==
  /\ DOMAIN o = {i + 1 : i \in Used(h, S)}
  /\ \A p \in DOMAIN o : o[p] \in Nat /\ o[p] <= h[p - 1]

Loose(m, S, o, B) ==
  /\ m \in Memories
  /\ Shape(m.heap, S)
  /\ Counted(m, S)
  /\ Apart(m.heap, S, B)
  /\ Holds(m.heap, S, o)

Sound(m, S, o) == Loose(m, S, o, {})

(* The words of the blocks o. *)
Keep(h, h2, o) == \A p \in DOMAIN o : \A i \in 0..o[p] - 1 : h2[p + i] = h[p + i]

(* The blocks o and one of n words. *)
With(o, p, n) == [q \in DOMAIN o \cup {p} |-> IF q = p THEN n ELSE o[q]]

LEMMA HeldBlock ==
  ASSUME NEW h, NEW S, NEW o, Shape(h, S), Holds(h, S, o), NEW p \in DOMAIN o
  PROVE  /\ p \in 1..HEAP_SIZE - 1 /\ p - 1 \in S
         /\ o[p] \in Nat /\ h[p - 1] \in Int /\ h[p - 1] > 0 /\ o[p] <= h[p - 1]
         /\ After(h, p - 1) = p + h[p - 1] + 1 /\ After(h, p - 1) <= HEAP_SIZE
         /\ After(h, p - 1) \in Nat
<1>1. PICK i \in Used(h, S) : p = i + 1
  BY DEF Holds
<1>2. i \in S /\ h[i] > 0
  BY <1>1 DEF Used
<1>3. i \in 0..HEAP_SIZE - 1 /\ h[i] \in Int /\ After(h, i) \in i + 2..HEAP_SIZE
  BY <1>2, BlockOf
<1>4. After(h, i) = i + h[i] + 2
  <2>1. h[i] >= 0
    BY <1>2, <1>3
  <2>2. QED
    BY <1>2, <2>1, BlockOf
<1>5. i = p - 1 /\ p \in Int
  BY <1>1, <1>3
<1>6. p \in 1..HEAP_SIZE - 1
  BY <1>1, <1>3, Size
<1>7. o[p] \in Nat /\ o[p] <= h[i]
  BY <1>5 DEF Holds
<1>8. After(h, i) = p + h[i] + 1 /\ After(h, i) <= HEAP_SIZE /\ After(h, i) \in Nat
  BY <1>1, <1>3, <1>4, Size
<1>9. QED
  BY <1>2, <1>3, <1>5, <1>6, <1>7, <1>8

(* The words of two blocks are different words of the array. *)
LEMMA HeldApart ==
  ASSUME NEW h, NEW S, NEW o, Shape(h, S), Holds(h, S, o),
         NEW p \in DOMAIN o, NEW i \in 0..o[p] - 1
  PROVE  /\ p + i \in 0..HEAP_SIZE - 1
         /\ \A q \in DOMAIN o : \A j \in 0..o[q] - 1 : p # q => p + i # q + j
<1>1. /\ p \in 1..HEAP_SIZE - 1 /\ p - 1 \in S /\ o[p] \in Nat /\ h[p - 1] \in Int
      /\ o[p] <= h[p - 1] /\ After(h, p - 1) = p + h[p - 1] + 1
      /\ After(h, p - 1) <= HEAP_SIZE
  BY HeldBlock
<1>2. p + i \in 0..HEAP_SIZE - 1
  BY <1>1, Size
<1>3. ASSUME NEW q \in DOMAIN o, NEW j \in 0..o[q] - 1, p # q PROVE p + i # q + j
  <2>1. /\ q \in 1..HEAP_SIZE - 1 /\ q - 1 \in S /\ o[q] \in Nat /\ h[q - 1] \in Int
        /\ o[q] <= h[q - 1] /\ After(h, q - 1) = q + h[q - 1] + 1
    BY HeldBlock
  <2>2. CASE p < q
    <3>1. p - 1 < q - 1
      BY <1>1, <2>1, <2>2
    <3>2. After(h, p - 1) <= q - 1
      BY <1>1, <2>1, <3>1 DEF Shape, Tiles
    <3>3. QED
      BY <1>1, <2>1, <3>2
  <2>3. CASE q < p
    <3>1. q - 1 < p - 1
      BY <1>1, <2>1, <2>3
    <3>2. After(h, q - 1) <= p - 1
      BY <1>1, <2>1, <3>1 DEF Shape, Tiles
    <3>3. QED
      BY <1>1, <2>1, <3>2
  <2>4. QED
    BY <1>1, <1>3, <2>1, <2>2, <2>3
<1>4. QED
  BY <1>2, <1>3

(* Rewriting some blocks keeps the words of the others. *)
LEMMA RewrittenKeeps ==
  ASSUME NEW h, NEW S, NEW o, Shape(h, S), Holds(h, S, o),
         NEW a \in S, NEW b \in S \cup {HEAP_SIZE}, a < b,
         NEW h2, NEW R, Rewritten(h, a, b, h2, R),
         NEW o2, \A p \in DOMAIN o2 : /\ p \in DOMAIN o
                                      /\ p - 1 \in Outside(S, a, b)
                                      /\ o2[p] = o[p]
  PROVE  Keep(h, h2, o2)
<1>1. ASSUME NEW p \in DOMAIN o2, NEW i \in 0..o2[p] - 1 PROVE h2[p + i] = h[p + i]
  <2>1. p \in DOMAIN o /\ p - 1 \in Outside(S, a, b) /\ o2[p] = o[p]
    OBVIOUS
  <2>2. /\ p \in 1..HEAP_SIZE - 1 /\ o[p] \in Nat /\ h[p - 1] \in Int
        /\ o[p] <= h[p - 1] /\ After(h, p - 1) = p + h[p - 1] + 1
    BY <2>1, HeldBlock
  <2>3. \A w \in p - 1..After(h, p - 1) - 1 : h2[w] = h[w]
    BY <2>1, Untouched
  <2>4. p + i \in p - 1..After(h, p - 1) - 1
    BY <2>1, <2>2, Size
  <2>5. QED
    BY <2>3, <2>4
<1>2. QED
  BY <1>1 DEF Keep

-----------------------------------------------------------------------------
(* Heap_Malloc.                                                            *)

(* The free block at i becomes a block of n words and perhaps a free one.  *)
Taken(h, S, i, n, h2, R) ==
  /\ i \in S
  /\ h[i] <= 0
  /\ Rewritten(h, i, After(h, i), h2, R)
  /\ h2[i] = n
  /\ \A k \in R \ {i} : h2[k] <= 0 /\ After(h2, k) = After(h, i)
  /\ R \cap (S \ {i}) = {}

LEMMA TakenShape ==
  ASSUME NEW h, NEW S, Shape(h, S), NEW i, NEW n \in Nat, n > 0, NEW h2, NEW R,
         Taken(h, S, i, n, h2, R)
  PROVE  /\ Shape(h2, (S \ {i}) \cup R)
         /\ i \in R
         /\ \A k \in S \ {i} : h2[k] = h[k] /\ After(h2, k) = After(h, k)
         /\ Outside(S, i, After(h, i)) = S \ {i}
         /\ i < After(h, i) /\ After(h, i) \in S \cup {HEAP_SIZE}
<1>1. i \in S /\ Rewritten(h, i, After(h, i), h2, R)
  BY DEF Taken
<1>2. i < After(h, i) /\ After(h, i) \in S \cup {HEAP_SIZE}
  BY <1>1, BlockOf, Size
<1>3. Outside(S, i, After(h, i)) = S \ {i}
  BY <1>1, OutsideOne
<1>4. Shape(h2, (S \ {i}) \cup R)
  BY <1>1, <1>2, <1>3, RewrittenShape
<1>5. ASSUME NEW k \in S \ {i} PROVE h2[k] = h[k] /\ After(h2, k) = After(h, k)
  <2>1. (\A w \in k..After(h, k) - 1 : h2[w] = h[w]) /\ After(h2, k) = After(h, k)
    BY <1>1, <1>2, <1>3, Untouched
  <2>2. k \in 0..HEAP_SIZE - 1 /\ After(h, k) \in k + 2..HEAP_SIZE
    BY BlockOf
  <2>3. k \in k..After(h, k) - 1
    BY <2>2, Size
  <2>4. QED
    BY <2>1, <2>3
<1>6. i \in R
  BY <1>1 DEF Rewritten
<1>7. QED
  BY <1>1, <1>2, <1>3, <1>4, <1>5, <1>6

LEMMA TakenHolds ==
  ASSUME NEW h, NEW S, Shape(h, S), NEW o, Holds(h, S, o),
         NEW i, NEW n \in Nat, n > 0, NEW h2, NEW R, Taken(h, S, i, n, h2, R),
         NEW k \in Nat, k <= n
  PROVE  /\ Holds(h2, (S \ {i}) \cup R, With(o, i + 1, k))
         /\ i + 1 \notin DOMAIN o
         /\ Keep(h, h2, o)
<1> DEFINE S2 == (S \ {i}) \cup R
           p  == i + 1
           o2 == With(o, p, k)
<1>1. /\ Shape(h2, S2)
      /\ i \in R
      /\ \A l \in S \ {i} : h2[l] = h[l] /\ After(h2, l) = After(h, l)
      /\ Outside(S, i, After(h, i)) = S \ {i}
      /\ i < After(h, i) /\ After(h, i) \in S \cup {HEAP_SIZE}
  BY TakenShape
<1>2. i \in S /\ i \in Int /\ h[i] \in Int /\ h[i] <= 0 /\ h2[i] = n
  BY BlockOf DEF Taken
<1>3. \A l \in S \cup S2 : l \in Int
  BY <1>1, BlockOf
<1>4. \A l \in R \ {i} : h2[l] <= 0 /\ h2[l] \in Int
  BY <1>1, BlockOf DEF Taken
<1>5. Used(h2, S2) = Used(h, S) \cup {i}
  <2>1. ASSUME NEW l \in Used(h2, S2) PROVE l \in Used(h, S) \cup {i}
    <3>1. l \in S2 /\ h2[l] > 0
      BY DEF Used
    <3>2. l \notin R \ {i}
      BY <1>4, <3>1
    <3>3. l = i \/ l \in S \ {i}
      BY <3>1, <3>2
    <3>4. QED
      BY <1>1, <3>1, <3>3 DEF Used
  <2>2. ASSUME NEW l \in Used(h, S) PROVE l \in Used(h2, S2)
    <3>1. l \in S /\ h[l] > 0
      BY DEF Used
    <3>2. l # i
      BY <1>2, <3>1
    <3>3. QED
      BY <1>1, <3>1, <3>2 DEF Used
  <2>3. i \in Used(h2, S2)
    BY <1>1, <1>2 DEF Used
  <2>4. QED
    BY <2>1, <2>2, <2>3
<1>6. i \notin Used(h, S)
  BY <1>2 DEF Used
<1>7. DOMAIN o = {l + 1 : l \in Used(h, S)}
  BY DEF Holds
<1>8. p \notin DOMAIN o
  <2>1. \A l \in Used(h, S) : l \in Int /\ l # i
    BY <1>3, <1>6 DEF Used
  <2>2. QED
    BY <1>2, <1>7, <2>1
<1>9. DOMAIN o2 = DOMAIN o \cup {p} /\ o2[p] = k /\ \A q \in DOMAIN o : o2[q] = o[q]
  BY <1>8 DEF With
<1>10. \A q \in DOMAIN o : q - 1 \in S \ {i} /\ h2[q - 1] = h[q - 1]
  <2>1. ASSUME NEW q \in DOMAIN o PROVE q - 1 \in S \ {i} /\ h2[q - 1] = h[q - 1]
    <3>1. q - 1 \in S /\ h[q - 1] > 0 /\ h[q - 1] \in Int
      BY HeldBlock
    <3>2. q - 1 # i
      BY <1>2, <3>1
    <3>3. QED
      BY <1>1, <3>1, <3>2
  <2>2. QED
    BY <2>1
<1>11. p - 1 = i
  BY <1>2
<1> HIDE DEF S2, p, o2
<1>12. DOMAIN o2 = {l + 1 : l \in Used(h2, S2)}
  <2>1. {l + 1 : l \in Used(h, S) \cup {i}} = {l + 1 : l \in Used(h, S)} \cup {i + 1}
    OBVIOUS
  <2>2. QED
    BY <1>5, <1>7, <1>9, <2>1 DEF p
<1>13. \A q \in DOMAIN o2 : o2[q] \in Nat /\ o2[q] <= h2[q - 1]
  <2>1. ASSUME NEW q \in DOMAIN o PROVE o2[q] \in Nat /\ o2[q] <= h2[q - 1]
    BY <1>9, <1>10 DEF Holds
  <2>2. o2[p] \in Nat /\ o2[p] <= h2[p - 1]
    BY <1>2, <1>9, <1>11
  <2>3. QED
    BY <1>9, <2>1, <2>2
<1>14. Keep(h, h2, o)
  <2>1. \A q \in DOMAIN o : /\ q \in DOMAIN o
                            /\ q - 1 \in Outside(S, i, After(h, i))
                            /\ o[q] = o[q]
    BY <1>1, <1>10
  <2>2. QED
    BY <1>1, <1>2, <2>1, RewrittenKeeps DEF Taken
<1>15. Holds(h2, S2, o2)
  BY <1>12, <1>13 DEF Holds
<1>16. QED
  BY <1>8, <1>14, <1>15 DEF S2, p, o2

LEMMA TakenApart ==
  ASSUME NEW h, NEW S, Shape(h, S), Apart(h, S, {}),
         NEW i, NEW n \in Nat, n > 0, NEW h2, NEW R, Taken(h, S, i, n, h2, R),
         h[i] < 0
  PROVE  Apart(h2, (S \ {i}) \cup R, {})
<1>0. Shape(h2, (S \ {i}) \cup R)
  BY TakenShape
<1> DEFINE S2 == (S \ {i}) \cup R
<1>1. /\ i \in R
      /\ \A l \in S \ {i} : h2[l] = h[l] /\ After(h2, l) = After(h, l)
      /\ i < After(h, i) /\ After(h, i) \in S \cup {HEAP_SIZE}
  BY <1>0, TakenShape
<1>2. i \in S /\ i \in Int /\ h2[i] = n
  BY BlockOf DEF Taken
<1>3. \A l \in S : h[l] < 0 /\ After(h, l) < HEAP_SIZE => h[After(h, l)] >= 0
  BY DEF Apart
<1>4. ASSUME NEW l \in S2, h2[l] < 0, After(h2, l) < HEAP_SIZE
      PROVE  h2[After(h2, l)] >= 0
  <2>1. CASE l \in S \ {i}
    <3>1. h[l] < 0 /\ After(h, l) < HEAP_SIZE /\ After(h2, l) = After(h, l)
      BY <1>1, <1>4, <2>1
    <3>2. h[After(h, l)] >= 0 /\ After(h, l) \in S
      BY <1>3, <2>1, <3>1, BlockOf, Size
    <3>3. CASE After(h, l) = i
      BY <1>2, <3>1, <3>3
    <3>4. CASE After(h, l) # i
      BY <1>1, <3>1, <3>2, <3>4
    <3>5. QED
      BY <3>3, <3>4
  <2>2. CASE l = i
    BY <1>2, <1>4, <2>2
  <2>3. CASE l \in R \ {i}
    <3>1. After(h2, l) = After(h, i)
      BY <2>3 DEF Taken
    <3>2. h[After(h, i)] >= 0 /\ After(h, i) \in S /\ After(h, i) # i
      BY <1>1, <1>2, <1>3, <1>4, <3>1, Size
    <3>3. QED
      BY <1>1, <3>1, <3>2
  <2>4. QED
    BY <2>1, <2>2, <2>3
<1>5. QED
  BY <1>4 DEF Apart

LEMMA TakenCounts ==
  ASSUME NEW h, NEW S, Shape(h, S), NEW i, NEW n \in Nat, n > 0, NEW h2, NEW R,
         Taken(h, S, i, n, h2, R)
  PROVE  LET T == S \ {i}
         IN  /\ UsedSum(h2, T \cup {i}) = UsedSum(h, S) + n
             /\ UnusedSum(h2, T \cup {i}) = UnusedSum(h, S) - h[i]
             /\ UsedSum(h, S) \in Int /\ UnusedSum(h, S) \in Int
<1> DEFINE T == S \ {i}
<1>1. i \in S /\ h[i] \in Int /\ h[i] <= 0 /\ h2[i] = n
  BY BlockOf DEF Taken
<1>2. T \cup {i} = S /\ i \notin T
  BY <1>1
<1>3. IsFiniteSet(T) /\ IsFiniteSet(S) /\ (\A k \in S : h[k] \in Int)
  BY FiniteStarts
<1>4. \A k \in T : h2[k] = h[k]
  <2>1. Shape(h2, T \cup R)
    BY TakenShape
  <2>2. QED
    BY <2>1, TakenShape
<1> HIDE DEF T
<1>5. UsedSum(h, T) \in Int /\ UnusedSum(h, T) \in Int
      /\ UsedSum(h, S) \in Int /\ UnusedSum(h, S) \in Int
  BY <1>2, <1>3, SumsInt
<1>6. /\ UsedSum(h, T \cup {i}) = UsedSum(h, T) + Positive(h[i])
      /\ UnusedSum(h, T \cup {i}) = UnusedSum(h, T) + Negative(h[i])
  BY <1>2, <1>3, SumsWith
<1>7. Positive(h[i]) = 0 /\ Negative(h[i]) = h[i]
  BY <1>1 DEF Positive, Negative
<1>8. UsedSum(h2, T) = UsedSum(h, T) /\ UnusedSum(h2, T) = UnusedSum(h, T)
  BY <1>3, <1>4, SumsSame
<1>9. \A k \in T \cup {i} : h2[k] \in Int
  BY <1>1, <1>2, <1>3, <1>4
<1>10. /\ UsedSum(h2, T \cup {i}) = UsedSum(h2, T) + Positive(h2[i])
       /\ UnusedSum(h2, T \cup {i}) = UnusedSum(h2, T) + Negative(h2[i])
  BY <1>2, <1>3, <1>9, SumsWith
<1>11. Positive(h2[i]) = n /\ Negative(h2[i]) = 0
  BY <1>1 DEF Positive, Negative
<1>12. UsedSum(h, S) = UsedSum(h, T) /\ UnusedSum(h, S) = UnusedSum(h, T) + h[i]
  BY <1>2, <1>5, <1>6, <1>7
<1>13. UsedSum(h2, T \cup {i}) = UsedSum(h, T) + n
       /\ UnusedSum(h2, T \cup {i}) = UnusedSum(h, T)
  BY <1>5, <1>8, <1>10, <1>11
<1>14. QED
  <2>1. UnusedSum(h2, T \cup {i}) = UnusedSum(h, S) - h[i]
    BY <1>1, <1>5, <1>12, <1>13
  <2>2. QED
    BY <1>5, <1>12, <1>13, <2>1 DEF T

LEMMA AllocatedSound ==
  ASSUME NEW m, NEW S, NEW o, Sound(m, S, o),
         NEW i \in S, NEW n \in Nat, n > 0, n % 2 = 0, m.heap[i] <= -n,
         NEW k \in Nat, k <= n
  PROVE  /\ \E S2 : Sound(Allocated(m, i, n), S2, With(o, i + 1, k))
         /\ i + 1 \notin DOMAIN o
         /\ Keep(m.heap, Allocated(m, i, n).heap, o)
<1> DEFINE h  == m.heap
           m2 == Allocated(m, i, n)
           h2 == m2.heap
           T  == S \ {i}
           o2 == With(o, i + 1, k)
<1>1. /\ m.used \in Int /\ m.free \in Int
      /\ Shape(h, S) /\ Counted(m, S) /\ Apart(h, S, {}) /\ Holds(h, S, o)
  BY DEF Sound, Loose, Memories
<1>2. h[i] \in Int /\ h[i] < 0 /\ h[i] % 2 = 0 /\ i \in Int /\ After(h, i) = i - h[i] + 2
  <2>1. h[i] \in Int /\ h[i] % 2 = 0 /\ i \in Int
    BY <1>1, BlockOf
  <2>2. h[i] <= 0 /\ h[i] < 0
    BY <2>1
  <2>3. QED
    BY <1>1, <2>1, <2>2, BlockOf
<1> DEFINE Result(R) == /\ Taken(h, S, i, n, h2, R)
                        /\ m2 = [heap |-> h2, used |-> m2.used, free |-> m2.free]
                        /\ m2.used \in Int /\ m2.free \in Int
                        /\ Counted(m2, T \cup R)
<1>3. \E R : Result(R)
  <2>1. CASE h[i] = -n
    <3>1. m2 = [heap |-> [h EXCEPT ![i] = n, ![i + n + 1] = n],
                used |-> m.used + 4 * n, free |-> m.free - 4 * n]
      BY <2>1 DEF Allocated
    <3>2. After(h, i) - 1 = i + n + 1 /\ n \in {h[i], -h[i]}
      BY <1>2, <2>1
    <3>3. h2 = Twice(h, i, After(h, i) - 1, n)
      BY <3>1, <3>2 DEF Twice
    <3>4. m2.used = m.used + 4 * n /\ m2.free = m.free - 4 * n
          /\ m2 = [heap |-> h2, used |-> m2.used, free |-> m2.free]
      BY <3>1
    <3> HIDE DEF h, m2, h2
    <3>5. Rewritten(h, i, After(h, i), h2, {i}) /\ h2[i] = n
      BY <1>1, <3>2, <3>3, RetagRewrites
    <3>6. Taken(h, S, i, n, h2, {i})
      BY <1>2, <3>5 DEF Taken
    <3>7. /\ UsedSum(h2, T \cup {i}) = UsedSum(h, S) + n
          /\ UnusedSum(h2, T \cup {i}) = UnusedSum(h, S) - h[i]
          /\ UsedSum(h, S) \in Int /\ UnusedSum(h, S) \in Int
      BY <1>1, <3>6, TakenCounts
    <3>8. m.used = 4 * UsedSum(h, S) /\ m.free = -(4 * UnusedSum(h, S))
      BY <1>1 DEF Counted, h
    <3>9. m2.used = 4 * UsedSum(h2, T \cup {i}) /\ m2.free = -(4 * UnusedSum(h2, T \cup {i}))
      BY <1>1, <1>2, <2>1, <3>4, <3>7, <3>8
    <3>10. Counted(m2, T \cup {i})
      BY <3>9 DEF Counted, h2
    <3>11. m2.used \in Int /\ m2.free \in Int
      BY <1>1, <3>4
    <3>12. Result({i})
      BY <3>4, <3>6, <3>10, <3>11
    <3> HIDE DEF Result
    <3>13. QED
      BY <3>12
  <2>2. CASE h[i] # -n
    <3> DEFINE j    == i + n + 2
               rest == h[i] + n + 2
    <3>1. m2 = [heap |-> Split(h, i, n),
                used |-> m.used + 4 * n, free |-> m.free - (4 * n + 8)]
      BY <2>2 DEF Allocated
    <3>2. m2.used = m.used + 4 * n /\ m2.free = m.free - (4 * n + 8)
          /\ m2 = [heap |-> h2, used |-> m2.used, free |-> m2.free] /\ h2 = Split(h, i, n)
      BY <3>1
    <3>3. h[i] < -n
      BY <1>2, <2>2
    <3> HIDE DEF h, m2, h2
    <3>4. /\ Rewritten(h, i, After(h, i), h2, {i, j})
          /\ h2[i] = n /\ After(h2, i) = j
          /\ h2[j] = rest /\ After(h2, j) = After(h, i)
          /\ rest <= 0 /\ j > i /\ j < After(h, i)
      <4>1. Shape(h, S) /\ i \in S /\ n \in Nat /\ n > 0 /\ n % 2 = 0 /\ h[i] < -n
        BY <1>1, <3>3
      <4>2. h2 = Split(h, i, n)
        BY <3>2
      <4>3. QED
        BY ONLY <4>1, <4>2, SplitRewrites
    <3>5. j \notin S
      <4>1. \A l \in S : i < l => After(h, i) <= l
        BY <1>1 DEF Shape, Tiles
      <4>2. j \in Int /\ After(h, i) \in Int
        BY <1>2
      <4>3. QED
        BY <1>2, <3>4, <4>1, <4>2
    <3>6. Taken(h, S, i, n, h2, {i, j})
      BY <1>2, <3>4, <3>5 DEF Taken
    <3>7. /\ UsedSum(h2, T \cup {i}) = UsedSum(h, S) + n
          /\ UnusedSum(h2, T \cup {i}) = UnusedSum(h, S) - h[i]
          /\ UsedSum(h, S) \in Int /\ UnusedSum(h, S) \in Int
      BY <1>1, <3>6, TakenCounts
    <3>8. /\ UsedSum(h2, (T \cup {i}) \cup {j}) = UsedSum(h2, T \cup {i}) + Positive(h2[j])
          /\ UnusedSum(h2, (T \cup {i}) \cup {j}) = UnusedSum(h2, T \cup {i}) + Negative(h2[j])
      <4>1. Shape(h2, T \cup {i, j})
        BY <1>1, <3>6, TakenShape
      <4>2. IsFiniteSet(T \cup {i}) /\ \A l \in T \cup {i, j} : h2[l] \in Int
        BY <4>1, FiniteStarts
      <4>3. j \notin T \cup {i} /\ \A l \in (T \cup {i}) \cup {j} : h2[l] \in Int
        BY <3>5, <4>2
      <4> HIDE DEF j, T
      <4>4. QED
        BY <4>2, <4>3, SumsWith
    <3>9. Positive(h2[j]) = 0 /\ Negative(h2[j]) = rest /\ rest \in Int
      BY <1>2, <3>4 DEF Positive, Negative
    <3>10. m.used = 4 * UsedSum(h, S) /\ m.free = -(4 * UnusedSum(h, S))
      BY <1>1 DEF Counted, h
    <3>11. (T \cup {i}) \cup {j} = T \cup {i, j}
      OBVIOUS
    <3>12. /\ UsedSum(h2, T \cup {i, j}) = UsedSum(h, S) + n
           /\ UnusedSum(h2, T \cup {i, j}) = UnusedSum(h, S) - h[i] + rest
      <4>1. /\ UsedSum(h2, T \cup {i, j}) = UsedSum(h2, T \cup {i}) + 0
            /\ UnusedSum(h2, T \cup {i, j}) = UnusedSum(h2, T \cup {i}) + rest
        BY <3>8, <3>9, <3>11
      <4> HIDE DEF rest, T
      <4>2. QED
        BY <1>2, <3>7, <3>9, <4>1
    <3>13. m2.used = 4 * UsedSum(h2, T \cup {i, j})
           /\ m2.free = -(4 * UnusedSum(h2, T \cup {i, j}))
      BY <1>1, <1>2, <3>2, <3>7, <3>10, <3>12
    <3>14. Counted(m2, T \cup {i, j})
      BY <3>13 DEF Counted, h2
    <3>15. m2.used \in Int /\ m2.free \in Int
      BY <1>1, <3>2
    <3>16. Result({i, j})
      BY <3>2, <3>6, <3>14, <3>15
    <3> HIDE DEF Result
    <3>17. QED
      BY <3>16
  <2>3. QED
    BY <2>1, <2>2
<1>4. PICK R : Result(R)
  BY <1>3
<1> HIDE DEF h, m2, h2, o2
<1>5. Shape(h2, T \cup R)
  BY <1>1, <1>4, TakenShape
<1>6. Apart(h2, T \cup R, {})
  BY <1>1, <1>2, <1>4, TakenApart
<1>7. /\ Holds(h2, T \cup R, o2)
      /\ i + 1 \notin DOMAIN o
      /\ Keep(h, h2, o)
  BY <1>1, <1>4, TakenHolds DEF o2
<1>8. m2 \in Memories
  BY <1>4, <1>5 DEF Memories, Shape
<1>9. Sound(m2, T \cup R, o2)
  BY <1>4, <1>5, <1>6, <1>7, <1>8 DEF Sound, Loose, h2
<1>10. QED
  <2> HIDE DEF T
  <2>1. QED
    BY <1>7, <1>9 DEF h, m2, h2, o2

(* A request is rounded up to an even number of words. *)
LEMMA Rounded ==
  ASSUME NEW bytes \in Nat, bytes > 0
  PROVE  /\ NumWords(bytes) \in Nat /\ NumWords(bytes) >= 1
         /\ numBlocks(bytes) \in Nat /\ numBlocks(bytes) > 0 /\ numBlocks(bytes) % 2 = 0
         /\ NumWords(bytes) <= numBlocks(bytes)
<1>1. NumWords(bytes) \in Nat /\ NumWords(bytes) >= 1
  BY DEF NumWords
<1> DEFINE w == NumWords(bytes)
           k == (w + 1) \div 2
<1> HIDE DEF w
<1>2. w \in Nat /\ w >= 1
  BY <1>1 DEF w
<1>3. k \in Nat /\ k >= 1 /\ w <= 2 * k
  BY <1>2
<1> HIDE DEF k
<1>4. 2 * k \in Nat /\ (2 * k) % 2 = 0 /\ 2 * k > 0
  BY <1>3
<1>5. numBlocks(bytes) = 2 * k
  BY DEF numBlocks, k, w
<1>6. QED
  BY <1>1, <1>3, <1>4, <1>5 DEF w

LEMMA MinIn ==
  ASSUME NEW T \in SUBSET Nat, T # {}
  PROVE  Min(T) \in T
<1>1. \E x \in T : \A y \in T : x <= y
  BY LeastExists
<1>2. QED
  BY <1>1 DEF Min

LEMMA MallocSound ==
  ASSUME NEW m, NEW S, NEW o, Sound(m, S, o), NEW bytes \in Nat
  PROVE  LET r == Malloc(m, bytes)
         IN  \/ r.ptr = NULL /\ r.mem = m
             \/ /\ r.ptr # NULL /\ r.ptr \notin DOMAIN o /\ bytes > 0
                /\ \E S2 : Sound(r.mem, S2, With(o, r.ptr, NumWords(bytes)))
                /\ Keep(m.heap, r.mem.heap, o)
<1> DEFINE n == numBlocks(bytes)
           i == Min(Fits(m.heap, n))
           r == Malloc(m, bytes)
<1>1. CASE bytes <= 0 \/ ~Found(m.heap, n)
  BY <1>1 DEF Malloc
<1>2. CASE ~(bytes <= 0 \/ ~Found(m.heap, n))
  <2>1. r = [mem |-> Allocated(m, i, n), ptr |-> i + 1]
    BY <1>2 DEF Malloc
  <2>2. bytes > 0 /\ Found(m.heap, n)
    BY <1>2
  <2>3. /\ NumWords(bytes) \in Nat /\ n \in Nat /\ n > 0 /\ n % 2 = 0
        /\ NumWords(bytes) <= n
    BY <2>2, Rounded
  <2> HIDE DEF n
  <2>4. Shape(m.heap, S) /\ m.heap \in Heaps
    BY DEF Sound, Loose, Shape
  <2>5. Starts(m.heap) = S
    BY <2>4, StartsAre DEF Shape
  <2>6. Fits(m.heap, n) \subseteq S /\ Fits(m.heap, n) # {}
    BY <2>2, <2>5 DEF Fits, Found
  <2>7. S \subseteq Nat
    BY <2>4, Size DEF Shape, Tiles
  <2>8. i \in Fits(m.heap, n)
    BY <2>6, <2>7, MinIn
  <2>9. i \in S /\ m.heap[i] <= -n /\ i \in Nat
    BY <2>6, <2>7, <2>8 DEF Fits
  <2> HIDE DEF i, r
  <2>10. /\ \E S2 : Sound(Allocated(m, i, n), S2, With(o, i + 1, NumWords(bytes)))
         /\ i + 1 \notin DOMAIN o
         /\ Keep(m.heap, Allocated(m, i, n).heap, o)
    BY <2>3, <2>9, AllocatedSound
  <2>11. r.mem = Allocated(m, i, n) /\ r.ptr = i + 1 /\ r.ptr # NULL
    BY <2>1, <2>9 DEF NULL
  <2>12. QED
    BY <2>2, <2>10, <2>11 DEF r
<1>3. QED
  BY <1>1, <1>2

-----------------------------------------------------------------------------
(* Heap_Free.                                                              *)

Less(o, p) == [q \in DOMAIN o \ {p} |-> o[q]]

(* The allocated block at i becomes free. *)
LEMMA MarkedLoose ==
  ASSUME NEW m, NEW S, NEW o, Sound(m, S, o), NEW p \in DOMAIN o
  PROVE  LET i  == p - 1
             m2 == Marked(m, i)
         IN  /\ Loose(m2, S, Less(o, p), {k \in S : k = i \/ After(m2.heap, k) = i})
             /\ Keep(m.heap, m2.heap, Less(o, p))
             /\ i \in S /\ m2.heap[i] < 0
<1> DEFINE i  == p - 1
           h  == m.heap
           n  == h[i]
           m2 == Marked(m, i)
           h2 == m2.heap
           T  == S \ {i}
           o2 == Less(o, p)
<1>1. /\ m.used \in Int /\ m.free \in Int
      /\ Shape(h, S) /\ Counted(m, S) /\ Apart(h, S, {}) /\ Holds(h, S, o)
  BY DEF Sound, Loose, Memories
<1>2. p \in Nat /\ i \in S /\ n \in Int /\ n > 0
  BY <1>1, HeldBlock, Size
<1>3. i \in Int /\ p = i + 1
  BY <1>2
<1>4. /\ m2 = [heap |-> h2, used |-> m2.used, free |-> m2.free]
      /\ h2 = [h EXCEPT ![i] = -n, ![i + n + 1] = -n]
      /\ m2.used = m.used - 4 * n /\ m2.free = m.free + 4 * n
  BY DEF Marked
<1> HIDE DEF i, h, m2, h2, o2
<1>5. After(h, i) = i + n + 2 /\ -n \in {h[i], -h[i]}
  <2>1. n >= 0
    BY <1>2
  <2>2. QED
    BY <1>1, <1>2, <2>1, BlockOf
<1>6. After(h, i) - 1 = i + n + 1
  BY <1>2, <1>3, <1>5
<1>7. h2 = Twice(h, i, After(h, i) - 1, -n)
  BY <1>4, <1>6 DEF Twice
<1>8. Rewritten(h, i, After(h, i), h2, {i}) /\ h2[i] = -n /\ After(h2, i) = After(h, i)
  <2>1. Shape(h, S) /\ i \in S
    BY <1>1, <1>2
  <2> HIDE DEF n
  <2>2. QED
    BY <1>5, <1>7, <2>1, RetagRewrites
<1>9. /\ Outside(S, i, After(h, i)) = T
      /\ i < After(h, i) /\ After(h, i) \in S \cup {HEAP_SIZE}
      /\ T \cup {i} = S
  BY <1>1, <1>2, OutsideOne, BlockOf, Size
<1>10. Shape(h2, S)
  BY <1>1, <1>2, <1>8, <1>9, RewrittenShape
<1>11. \A k \in T : h2[k] = h[k] /\ After(h2, k) = After(h, k)
  <2>1. ASSUME NEW k \in T PROVE h2[k] = h[k] /\ After(h2, k) = After(h, k)
    <3>1. (\A w \in k..After(h, k) - 1 : h2[w] = h[w]) /\ After(h2, k) = After(h, k)
      BY <1>1, <1>2, <1>8, <1>9, Untouched
    <3>2. k \in 0..HEAP_SIZE - 1 /\ After(h, k) \in k + 2..HEAP_SIZE
      BY <1>1, BlockOf
    <3>3. k \in k..After(h, k) - 1
      BY <3>2, Size
    <3>4. QED
      BY <3>1, <3>3
  <2>2. QED
    BY <2>1
<1>12. Counted(m2, S)
  <2>1. IsFiniteSet(T) /\ IsFiniteSet(S) /\ (\A k \in S : h[k] \in Int /\ h2[k] \in Int)
    BY <1>1, <1>10, FiniteStarts
  <2>2. i \notin T
    OBVIOUS
  <2> HIDE DEF T
  <2>3. /\ UsedSum(h, T) \in Int /\ UnusedSum(h, T) \in Int
        /\ UsedSum(h, S) \in Int /\ UnusedSum(h, S) \in Int
    BY <1>9, <2>1, SumsInt
  <2>4. /\ UsedSum(h, T \cup {i}) = UsedSum(h, T) + Positive(h[i])
        /\ UnusedSum(h, T \cup {i}) = UnusedSum(h, T) + Negative(h[i])
    BY <1>9, <2>1, <2>2, SumsWith
  <2>5. /\ UsedSum(h2, T \cup {i}) = UsedSum(h2, T) + Positive(h2[i])
        /\ UnusedSum(h2, T \cup {i}) = UnusedSum(h2, T) + Negative(h2[i])
    BY <1>9, <2>1, <2>2, SumsWith
  <2>6. UsedSum(h2, T) = UsedSum(h, T) /\ UnusedSum(h2, T) = UnusedSum(h, T)
    BY <1>11, <2>1, SumsSame
  <2>7. /\ Positive(h[i]) = n /\ Negative(h[i]) = 0
        /\ Positive(h2[i]) = 0 /\ Negative(h2[i]) = -n
    BY <1>2, <1>8 DEF Positive, Negative
  <2>8. m.used = 4 * UsedSum(h, S) /\ m.free = -(4 * UnusedSum(h, S))
    BY <1>1 DEF Counted, h
  <2> HIDE DEF n
  <2>9. UsedSum(h2, S) = UsedSum(h, S) - n /\ UnusedSum(h2, S) = UnusedSum(h, S) - n
    <3>1. /\ UsedSum(h, S) = UsedSum(h, T) + n
          /\ UnusedSum(h, S) = UnusedSum(h, T) + 0
      BY <1>9, <2>4, <2>7
    <3>2. /\ UsedSum(h2, S) = UsedSum(h, T) + 0
          /\ UnusedSum(h2, S) = UnusedSum(h, T) + (-n)
      BY <1>9, <2>5, <2>6, <2>7
    <3>3. QED
      BY <1>2, <2>3, <3>1, <3>2
  <2>10. m2.used = 4 * UsedSum(h2, S) /\ m2.free = -(4 * UnusedSum(h2, S))
    BY <1>1, <1>2, <1>4, <2>3, <2>8, <2>9
  <2>11. QED
    BY <2>10 DEF Counted, h2
<1>13. Apart(h2, S, {k \in S : k = i \/ After(h2, k) = i})
  <2>1. ASSUME NEW k \in S, k # i, After(h2, k) # i, h2[k] < 0, After(h2, k) < HEAP_SIZE
        PROVE  h2[After(h2, k)] >= 0
    <3>1. h[k] < 0 /\ After(h2, k) = After(h, k) /\ After(h, k) < HEAP_SIZE
      BY <1>11, <2>1
    <3>2. h[After(h, k)] >= 0
      BY <1>1, <3>1 DEF Apart
    <3>3. After(h, k) \in T
      BY <1>1, <2>1, <3>1, BlockOf, Size
    <3>4. QED
      BY <1>11, <3>1, <3>2, <3>3
  <2>2. QED
    BY <2>1 DEF Apart
<1>14. DOMAIN o2 = DOMAIN o \ {p} /\ \A q \in DOMAIN o2 : o2[q] = o[q]
  BY DEF o2, Less
<1>15. \A q \in DOMAIN o2 : q \in DOMAIN o /\ q - 1 \in T /\ h2[q - 1] = h[q - 1]
  <2>1. ASSUME NEW q \in DOMAIN o2 PROVE q \in DOMAIN o /\ q - 1 \in T /\ h2[q - 1] = h[q - 1]
    <3>1. q \in DOMAIN o /\ q # p
      BY <1>14
    <3>2. q - 1 \in S /\ q \in 1..HEAP_SIZE - 1
      BY <1>1, <3>1, HeldBlock
    <3>3. q - 1 # i
      BY <1>3, <3>1, <3>2, Size
    <3>4. QED
      BY <1>11, <3>1, <3>2, <3>3
  <2>2. QED
    BY <2>1
<1>16. Holds(h2, S, o2)
  <2>1. Used(h2, S) = Used(h, S) \ {i}
    <3>1. ASSUME NEW k \in S PROVE h2[k] > 0 <=> h[k] > 0 /\ k # i
      <4>1. CASE k = i
        BY <1>2, <1>8, <4>1
      <4>2. CASE k # i
        BY <1>11, <4>2
      <4>3. QED
        BY <4>1, <4>2
    <3>2. QED
      BY <3>1 DEF Used
  <2>2. \A k \in Used(h, S) : k \in Int
    BY <1>1, BlockOf DEF Used
  <2>3. {k + 1 : k \in Used(h, S) \ {i}} = {k + 1 : k \in Used(h, S)} \ {i + 1}
    BY <1>3, <2>2
  <2>4. DOMAIN o2 = {k + 1 : k \in Used(h2, S)}
    BY <1>1, <1>3, <1>14, <2>1, <2>3 DEF Holds
  <2>5. \A q \in DOMAIN o2 : o2[q] \in Nat /\ o2[q] <= h2[q - 1]
    BY <1>1, <1>14, <1>15 DEF Holds
  <2>6. QED
    BY <2>4, <2>5 DEF Holds
<1>17. Keep(h, h2, o2)
  BY <1>1, <1>2, <1>8, <1>9, <1>14, <1>15, RewrittenKeeps
<1>18. m2 \in Memories
  <2>1. h2 \in Heaps /\ m2.used \in Int /\ m2.free \in Int
    <3> HIDE DEF n
    <3>1. QED
      BY <1>1, <1>2, <1>4, <1>10 DEF Shape
  <2>2. m2 = [heap |-> h2, used |-> m2.used, free |-> m2.free]
    BY <1>4
  <2>3. QED
    BY <2>1, <2>2 DEF Memories
<1>19. Loose(m2, S, o2, {k \in S : k = i \/ After(h2, k) = i})
  BY <1>10, <1>12, <1>13, <1>16, <1>18 DEF Loose, h2
<1>20. h2[i] < 0
  BY <1>2, <1>8
<1>21. QED
  BY <1>2, <1>17, <1>19, <1>20 DEF i, h, m2, h2, o2

(* Two free neighbours i and j become one; a third free block may now be   *)
(* behind i if it was behind j.                                            *)
LEMMA MergeLoose ==
  ASSUME NEW m, NEW S, NEW o, NEW B, Loose(m, S, o, B), NEW i \in S, NEW j \in S,
         After(m.heap, i) = j, m.heap[i] < 0, m.heap[j] < 0
  PROVE  LET m2 == Merge(m, i, j)
             B2 == (B \ {i, j}) \cup (IF j \in B THEN {i} ELSE {})
         IN  /\ Loose(m2, S \ {j}, o, B2)
             /\ Keep(m.heap, m2.heap, o)
             /\ i \in S \ {j} /\ m2.heap[i] < 0
<1> DEFINE h  == m.heap
           m2 == Merge(m, i, j)
           h2 == m2.heap
           T  == S \ {i, j}
           b  == After(h, j)
           B2 == (B \ {i, j}) \cup (IF j \in B THEN {i} ELSE {})
<1>1. /\ m \in Memories /\ m.used \in Int /\ m.free \in Int
      /\ Shape(h, S) /\ Counted(m, S) /\ Apart(h, S, B) /\ Holds(h, S, o)
  BY DEF Loose, Memories
<1>2. /\ i \in Int /\ h[i] \in Int /\ h[i] < 0
      /\ j \in Int /\ h[j] \in Int /\ h[j] < 0
      /\ i < j /\ j < b /\ b \in S \cup {HEAP_SIZE}
  <2>1. Shape(h, S) /\ i \in S /\ j \in S /\ After(h, i) = j
    BY <1>1
  <2>2. /\ i \in Int /\ h[i] \in Int /\ After(h, i) \in i + 2..HEAP_SIZE
        /\ j \in Int /\ h[j] \in Int /\ After(h, j) \in j + 2..HEAP_SIZE
        /\ After(h, j) \in S \cup {HEAP_SIZE}
    BY <2>1, BlockOf
  <2>3. QED
    BY <2>1, <2>2, Size
<1>3. m2 = [heap |-> MergedHeap(h, i, j), used |-> m.used, free |-> m.free + 8]
  <2> DEFINE g == MergedHeap(h, i, j)
  <2>1. m2 = [m EXCEPT !.heap = g, !.free = m.free + 8]
    BY DEF Merge, MergedHeap
  <2> HIDE DEF g, m2, h
  <2>2. QED
    BY <1>1, <2>1 DEF Memories, g
<1>4. h2 = MergedHeap(h, i, j) /\ m2.used = m.used /\ m2.free = m.free + 8
      /\ m2 = [heap |-> h2, used |-> m2.used, free |-> m2.free]
  BY <1>3
<1> HIDE DEF h, m2, h2, b, B2
<1>5. /\ Rewritten(h, i, b, h2, {i})
      /\ h2[i] = h[i] + h[j] - 2
      /\ After(h2, i) = b
      /\ i < b
  <2>1. Shape(h, S) /\ After(h, i) = j /\ h[i] < 0 /\ h[j] < 0
    BY <1>1 DEF h
  <2>2. h2 = MergedHeap(h, i, j)
    BY <1>4
  <2>3. QED
    BY <2>1, <2>2, MergeRewrites DEF b
<1>6. Outside(S, i, b) = T /\ T \cup {i} = S \ {j}
  <2>1. After(h, i) = j
    BY DEF h
  <2>2. Outside(S, i, b) = T
    BY <1>1, <2>1, OutsideTwo DEF b
  <2>3. QED
    BY <1>2, <2>2
<1>7. Shape(h2, S \ {j})
  BY <1>1, <1>2, <1>5, <1>6, RewrittenShape
<1>8. \A k \in T : h2[k] = h[k] /\ After(h2, k) = After(h, k)
  <2>1. ASSUME NEW k \in T PROVE h2[k] = h[k] /\ After(h2, k) = After(h, k)
    <3>1. (\A w \in k..After(h, k) - 1 : h2[w] = h[w]) /\ After(h2, k) = After(h, k)
      BY <1>1, <1>2, <1>5, <1>6, Untouched
    <3>2. k \in 0..HEAP_SIZE - 1 /\ After(h, k) \in k + 2..HEAP_SIZE
      BY <1>1, BlockOf
    <3>3. k \in k..After(h, k) - 1
      BY <3>2, Size
    <3>4. QED
      BY <3>1, <3>3
  <2>2. QED
    BY <2>1
<1>9. h2[i] \in Int /\ h2[i] < 0
  BY <1>2, <1>5
<1>10. Counted(m2, S \ {j})
  <2>1. IsFiniteSet(T) /\ (\A k \in S : h[k] \in Int) /\ (\A k \in S \ {j} : h2[k] \in Int)
    <3>1. T \in SUBSET S /\ S \in SUBSET S
      OBVIOUS
    <3> HIDE DEF T
    <3>2. IsFiniteSet(T) /\ (\A k \in S : h[k] \in Int)
      BY <1>1, <3>1, FiniteStarts
    <3>3. \A k \in S \ {j} : h2[k] \in Int
      BY <1>7, FiniteStarts
    <3>4. QED
      BY <3>2, <3>3
  <2>2. i \notin T /\ j \notin T \cup {i} /\ (T \cup {i}) \cup {j} = S
        /\ IsFiniteSet(T \cup {i})
    BY <1>2, <2>1, FS_AddElement
  <2>3. (\A k \in T \cup {i} : h[k] \in Int) /\ (\A k \in (T \cup {i}) \cup {j} : h[k] \in Int)
        /\ (\A k \in T \cup {i} : h2[k] \in Int)
    BY <1>6, <2>1
  <2> HIDE DEF T
  <2>4. UsedSum(h, T) \in Int /\ UnusedSum(h, T) \in Int
    BY <2>1, <2>3, SumsInt
  <2>5. /\ UsedSum(h, T \cup {i}) = UsedSum(h, T) + Positive(h[i])
        /\ UnusedSum(h, T \cup {i}) = UnusedSum(h, T) + Negative(h[i])
    BY <2>1, <2>2, <2>3, SumsWith
  <2>6. /\ UsedSum(h, (T \cup {i}) \cup {j}) = UsedSum(h, T \cup {i}) + Positive(h[j])
        /\ UnusedSum(h, (T \cup {i}) \cup {j}) = UnusedSum(h, T \cup {i}) + Negative(h[j])
    BY <2>2, <2>3, SumsWith
  <2>7. /\ UsedSum(h2, T \cup {i}) = UsedSum(h2, T) + Positive(h2[i])
        /\ UnusedSum(h2, T \cup {i}) = UnusedSum(h2, T) + Negative(h2[i])
    BY <2>1, <2>2, <2>3, SumsWith
  <2>8. UsedSum(h2, T) = UsedSum(h, T) /\ UnusedSum(h2, T) = UnusedSum(h, T)
    BY <1>8, <2>1, SumsSame
  <2>9. /\ Positive(h[i]) = 0 /\ Negative(h[i]) = h[i]
        /\ Positive(h[j]) = 0 /\ Negative(h[j]) = h[j]
        /\ Positive(h2[i]) = 0 /\ Negative(h2[i]) = h2[i]
    BY <1>2, <1>9 DEF Positive, Negative
  <2>10. m.used = 4 * UsedSum(h, S) /\ m.free = -(4 * UnusedSum(h, S))
    BY <1>1 DEF Counted, h
  <2>11. /\ UsedSum(h, S) = UsedSum(h, T \cup {i}) + 0
         /\ UnusedSum(h, S) = UnusedSum(h, T \cup {i}) + h[j]
    BY <2>2, <2>6, <2>9
  <2>12. /\ UsedSum(h, T \cup {i}) = UsedSum(h, T) + 0
         /\ UnusedSum(h, T \cup {i}) = UnusedSum(h, T) + h[i]
    BY <2>5, <2>9
  <2>13. /\ UsedSum(h2, S \ {j}) = UsedSum(h, T) + 0
         /\ UnusedSum(h2, S \ {j}) = UnusedSum(h, T) + h2[i]
    BY <1>6, <2>7, <2>8, <2>9
  <2>14. /\ UsedSum(h2, S \ {j}) = UsedSum(h, S)
         /\ UnusedSum(h2, S \ {j}) = UnusedSum(h, S) - 2
         /\ UsedSum(h, S) \in Int /\ UnusedSum(h, S) \in Int
    BY <1>2, <1>5, <2>4, <2>11, <2>12, <2>13
  <2>15. m2.used = 4 * UsedSum(h2, S \ {j}) /\ m2.free = -(4 * UnusedSum(h2, S \ {j}))
    BY <1>4, <2>10, <2>14
  <2>16. QED
    BY <2>15 DEF Counted, h2
<1>11. Apart(h2, S \ {j}, B2)
  <2>1. ASSUME NEW k \in S \ {j}, k \notin B2, h2[k] < 0, After(h2, k) < HEAP_SIZE
        PROVE  h2[After(h2, k)] >= 0
    <3>1. CASE k = i
      <4>1. j \notin B
        BY <2>1, <3>1 DEF B2
      <4>2. b < HEAP_SIZE /\ b \in S
        BY <1>2, <1>5, <2>1, <3>1, Size
      <4>3. h[b] >= 0
        BY <1>1, <1>2, <4>1, <4>2 DEF Apart, b
      <4>4. b # i /\ b # j
        BY <1>2
      <4>5. QED
        BY <1>5, <1>8, <3>1, <4>2, <4>3, <4>4
    <3>2. CASE k # i
      <4>1. k \in T /\ h2[k] = h[k] /\ After(h2, k) = After(h, k)
        BY <1>8, <2>1, <3>2
      <4>2. k \notin B
        BY <2>1, <4>1 DEF B2
      <4>3. h[After(h, k)] >= 0
        BY <1>1, <2>1, <4>1, <4>2 DEF Apart
      <4>4. After(h, k) # i /\ After(h, k) # j
        BY <1>2, <4>3
      <4>5. After(h, k) \in T
        BY <1>1, <2>1, <4>1, <4>4, BlockOf, Size
      <4>6. QED
        BY <1>8, <4>1, <4>3, <4>5
    <3>3. QED
      BY <3>1, <3>2
  <2>2. QED
    BY <2>1 DEF Apart
<1>12. \A q \in DOMAIN o : q - 1 \in T /\ h2[q - 1] = h[q - 1]
  <2>1. ASSUME NEW q \in DOMAIN o PROVE q - 1 \in T /\ h2[q - 1] = h[q - 1]
    <3>1. q - 1 \in S /\ h[q - 1] > 0 /\ h[q - 1] \in Int
      BY <1>1, HeldBlock
    <3>2. q - 1 # i /\ q - 1 # j
      BY <1>2, <3>1
    <3>3. QED
      BY <1>8, <3>1, <3>2
  <2>2. QED
    BY <2>1
<1>13. Holds(h2, S \ {j}, o)
  <2>1. Used(h2, S \ {j}) = Used(h, S)
    <3>1. ASSUME NEW k \in S PROVE (k # j /\ h2[k] > 0) <=> h[k] > 0
      <4>1. CASE k = i
        BY <1>2, <1>9, <4>1
      <4>2. CASE k = j
        BY <1>2, <4>2
      <4>3. CASE k # i /\ k # j
        BY <1>8, <4>3
      <4>4. QED
        BY <4>1, <4>2, <4>3
    <3>2. QED
      BY <3>1 DEF Used
  <2>2. QED
    BY <1>1, <1>12, <2>1 DEF Holds
<1>14. Keep(h, h2, o)
  BY <1>1, <1>2, <1>5, <1>6, <1>12, RewrittenKeeps
<1>15. m2 \in Memories
  <2>1. h2 \in Heaps /\ m2.used \in Int /\ m2.free \in Int
    BY <1>1, <1>4, <1>7 DEF Shape
  <2>2. m2 = [heap |-> h2, used |-> m2.used, free |-> m2.free]
    BY <1>4
  <2>3. QED
    BY <2>1, <2>2 DEF Memories
<1>16. Loose(m2, S \ {j}, o, B2)
  BY <1>7, <1>10, <1>11, <1>13, <1>15 DEF Loose, h2
<1>17. i \in S \ {j}
  BY <1>2
<1>18. QED
  BY <1>9, <1>14, <1>16, <1>17 DEF h, m2, h2, B2

(* Heap_Free joins the block with the one in front and with the one behind. *)
LEMMA PreviousMerged ==
  ASSUME NEW m, NEW S, NEW o, NEW i \in S, m.heap[i] < 0,
         Loose(m, S, o, {k \in S : k = i \/ After(m.heap, k) = i})
  PROVE  LET s  == PreviousStart(m, i)
             m2 == MergedPrevious(m, i)
         IN  \E S2 : /\ Loose(m2, S2, o, {s})
                     /\ Keep(m.heap, m2.heap, o)
                     /\ s \in S2 /\ m2.heap[s] < 0
<1> DEFINE h  == m.heap
           B  == {k \in S : k = i \/ After(h, k) = i}
           s  == PreviousStart(m, i)
           m2 == MergedPrevious(m, i)
<1>1. /\ Shape(h, S) /\ Tiles(h, S) /\ h \in Heaps /\ Apart(h, S, B) /\ Holds(h, S, o)
      /\ Loose(m, S, o, B)
  BY DEF Loose, Shape
<1>2. i \in Int /\ i >= 0 /\ h[i] \in Int
  BY <1>1, BlockOf
<1>3. ASSUME \A k \in S : After(h, k) = i => h[k] >= 0, s = i
      PROVE  \E S2 : /\ Loose(m2, S2, o, {s})
                     /\ Keep(m.heap, m2.heap, o)
                     /\ s \in S2 /\ m2.heap[s] < 0
  <2>1. m2 = m
    BY <1>3 DEF MergedPrevious
  <2>2. Apart(h, S, {i})
    <3>1. ASSUME NEW k \in S, k # i, h[k] < 0, After(h, k) < HEAP_SIZE
          PROVE  h[After(h, k)] >= 0
      <4>1. h[k] \in Int
        BY <1>1, BlockOf
      <4>2. After(h, k) # i
        BY <1>3, <3>1, <4>1
      <4>3. QED
        BY <1>1, <3>1, <4>2 DEF Apart
    <3>2. QED
      BY <3>1 DEF Apart
  <2>3. Loose(m, S, o, {i})
    BY <2>2 DEF Loose
  <2>4. Keep(h, h, o)
    BY DEF Keep
  <2> HIDE DEF s, m2
  <2>5. QED
    BY <1>3, <2>1, <2>3, <2>4
<1>4. CASE i = 0
  <2>1. s = i
    BY <1>4 DEF PreviousStart
  <2>2. \A k \in S : After(h, k) # i
    <3>1. ASSUME NEW k \in S PROVE After(h, k) # i
      <4>1. k \in 0..HEAP_SIZE - 1 /\ After(h, k) \in k + 2..HEAP_SIZE
        BY <1>1, BlockOf
      <4>2. QED
        BY <1>4, <4>1, Size
    <3>2. QED
      BY <3>1
  <2> HIDE DEF s, m2
  <2>3. QED
    BY <1>3, <2>1, <2>2 DEF s, m2
<1>5. CASE i # 0
  <2>1. PICK j \in S : After(h, j) = i
    BY <1>1, <1>5, Before
  <2>2. /\ h[i - 1] = h[j] /\ h[j] \in Int /\ j \in Int /\ j < i
        /\ h[j] <= 0 => i = j - h[j] + 2
    <3>1. h[After(h, j) - 1] = h[j] /\ h[j] \in Int /\ j \in 0..HEAP_SIZE - 1
          /\ After(h, j) \in j + 2..HEAP_SIZE
      BY <1>1, BlockOf
    <3>2. h[j] <= 0 => After(h, j) = j - h[j] + 2
      BY <1>1, BlockOf
    <3>3. QED
      BY <2>1, <3>1, <3>2, Size
  <2>3. \A k \in S : After(h, k) = i => k = j
    <3>1. ASSUME NEW k \in S, After(h, k) = i PROVE k = j
      <4>1. k \in Int /\ k < i
        <5>1. k \in 0..HEAP_SIZE - 1 /\ After(h, k) \in k + 2..HEAP_SIZE
          BY <1>1, BlockOf
        <5>2. QED
          BY <3>1, <5>1, Size
      <4>2. (k < j => After(h, k) <= j) /\ (j < k => After(h, j) <= k)
        BY <1>1 DEF Tiles
      <4>3. QED
        BY <2>1, <2>2, <3>1, <4>1, <4>2
    <3>2. QED
      BY <3>1
  <2>4. CASE h[j] < 0
    <3>1. s = j /\ s # i
      BY <1>2, <1>5, <2>2, <2>4 DEF PreviousStart
    <3>2. m2 = Merge(m, j, i)
      BY <3>1 DEF MergedPrevious
    <3>3. (B \ {j, i}) \cup (IF i \in B THEN {j} ELSE {}) = {j}
      BY <2>3
    <3> DEFINE m3 == Merge(m, j, i)
    <3>4. /\ Loose(m3, S \ {i}, o, (B \ {j, i}) \cup (IF i \in B THEN {j} ELSE {}))
          /\ Keep(m.heap, m3.heap, o)
          /\ j \in S \ {i} /\ m3.heap[j] < 0
      <4> HIDE DEF B
      <4>1. After(m.heap, j) = i /\ m.heap[j] < 0 /\ m.heap[i] < 0 /\ j \in S
        BY <2>1, <2>4
      <4>2. QED
        BY <1>1, <4>1, MergeLoose
    <3>5. Loose(m3, S \ {i}, o, {j})
      BY <3>3, <3>4
    <3> HIDE DEF s, m2, m3, B
    <3>6. m2 = m3 /\ s = j
      BY <3>1, <3>2 DEF m3
    <3>7. QED
      BY <3>4, <3>5, <3>6 DEF s, m2
  <2>5. CASE ~(h[j] < 0)
    <3>1. s = i
      BY <1>2, <1>5, <2>2, <2>5 DEF PreviousStart
    <3>2. \A k \in S : After(h, k) = i => h[k] >= 0
      BY <2>2, <2>3, <2>5
    <3> HIDE DEF s, m2
    <3>3. QED
      BY <1>3, <3>1, <3>2 DEF s, m2
  <2>6. QED
    BY <2>4, <2>5
<1>6. QED
  BY <1>4, <1>5

LEMMA NextMerged ==
  ASSUME NEW m, NEW S, NEW o, NEW s \in S, m.heap[s] < 0, Loose(m, S, o, {s})
  PROVE  LET m2 == MergedNext(m, s)
         IN  (\E S2 : Sound(m2, S2, o)) /\ Keep(m.heap, m2.heap, o)
<1> DEFINE h  == m.heap
           m2 == MergedNext(m, s)
           j  == After(h, s)
<1>1. Shape(h, S) /\ Apart(h, S, {s})
  BY DEF Loose
<1>2. /\ s \in Int /\ h[s] \in Int /\ j = s - h[s] + 2
      /\ j \in S \cup {HEAP_SIZE} /\ j \in Int /\ j <= HEAP_SIZE
  <2>1. s \in 0..HEAP_SIZE - 1 /\ h[s] \in Int /\ j \in s + 2..HEAP_SIZE
        /\ j \in S \cup {HEAP_SIZE} /\ (h[s] <= 0 => j = s - h[s] + 2)
    BY <1>1, BlockOf
  <2>2. QED
    BY <2>1, Size
<1>3. m2 = IF WordAt(h, j) < 0 THEN Merge(m, s, j) ELSE m
  BY <1>2 DEF MergedNext
<1> HIDE DEF m2, j
<1>4. CASE WordAt(h, j) < 0
  <2>1. j < HEAP_SIZE /\ h[j] < 0
    BY <1>2, <1>4, Size DEF WordAt
  <2>2. j \in S
    BY <1>2, <2>1, Size
  <2> DEFINE m3 == Merge(m, s, j)
             B2 == ({s} \ {s, j}) \cup (IF j \in {s} THEN {s} ELSE {})
  <2>3. Loose(m3, S \ {j}, o, B2) /\ Keep(m.heap, m3.heap, o)
    BY <2>1, <2>2, MergeLoose DEF j
  <2>4. B2 = {}
    <3>1. j # s
      BY <1>2
    <3>2. QED
      BY <3>1
  <2> HIDE DEF m3, B2
  <2>5. Sound(m3, S \ {j}, o)
    BY <2>3, <2>4 DEF Sound
  <2>6. m2 = m3
    BY <1>3, <1>4 DEF m3
  <2>7. QED
    BY <2>3, <2>5, <2>6 DEF m2
<1>5. CASE ~(WordAt(h, j) < 0)
  <2>1. j < HEAP_SIZE => h[j] >= 0
    <3>1. ASSUME j < HEAP_SIZE PROVE h[j] >= 0
      <4>1. j \in S /\ WordAt(h, j) = h[j]
        BY <1>2, <3>1, Size DEF WordAt
      <4>2. h[j] \in Int
        BY <1>1, <4>1, BlockOf
      <4>3. QED
        BY <1>5, <4>1, <4>2
    <3>2. QED
      BY <3>1
  <2>2. Apart(h, S, {})
    <3>1. ASSUME NEW k \in S, h[k] < 0, After(h, k) < HEAP_SIZE
          PROVE  h[After(h, k)] >= 0
      <4>1. CASE k = s
        BY <2>1, <3>1, <4>1 DEF j
      <4>2. CASE k # s
        BY <1>1, <3>1, <4>2 DEF Apart
      <4>3. QED
        BY <4>1, <4>2
    <3>2. QED
      BY <3>1 DEF Apart
  <2>3. Sound(m, S, o)
    BY <2>2 DEF Sound, Loose
  <2>4. Keep(h, h, o)
    BY DEF Keep
  <2>5. m2 = m
    BY <1>3, <1>5
  <2>6. QED
    BY <2>3, <2>4, <2>5 DEF m2
<1>6. QED
  BY <1>4, <1>5

LEMMA FreedSound ==
  ASSUME NEW m, NEW S, NEW o, Sound(m, S, o), NEW p \in DOMAIN o
  PROVE  LET m2 == Freed(m, p)
         IN  (\E S2 : Sound(m2, S2, Less(o, p))) /\ Keep(m.heap, m2.heap, Less(o, p))
<1> DEFINE i  == p - 1
           o2 == Less(o, p)
           m1 == Marked(m, i)
           s  == PreviousStart(m1, i)
           m2 == MergedPrevious(m1, i)
           m3 == MergedNext(m2, s)
<1>1. /\ Loose(m1, S, o2, {k \in S : k = i \/ After(m1.heap, k) = i})
      /\ Keep(m.heap, m1.heap, o2)
      /\ i \in S /\ m1.heap[i] < 0
  BY MarkedLoose
<1> HIDE DEF i, o2, m1
<1>2. \E S2 : /\ Loose(m2, S2, o2, {s})
              /\ Keep(m1.heap, m2.heap, o2)
              /\ s \in S2 /\ m2.heap[s] < 0
  BY <1>1, PreviousMerged
<1> HIDE DEF s, m2
<1>3. PICK S2 : /\ Loose(m2, S2, o2, {s})
                /\ Keep(m1.heap, m2.heap, o2)
                /\ s \in S2 /\ m2.heap[s] < 0
  BY <1>2
<1>4. (\E S3 : Sound(m3, S3, o2)) /\ Keep(m2.heap, m3.heap, o2)
  BY <1>3, NextMerged
<1>5. Freed(m, p) = m3
  BY DEF Freed, m1, m2, s, i
<1> HIDE DEF m3
<1>6. Keep(m.heap, m3.heap, o2)
  BY <1>1, <1>3, <1>4 DEF Keep
<1>7. QED
  BY <1>4, <1>5, <1>6 DEF o2

-----------------------------------------------------------------------------
(* A program writes into its block, or Heap_Calloc does. *)
LEMMA WrittenSound ==
  ASSUME NEW m, NEW S, NEW o, Sound(m, S, o), NEW p \in DOMAIN o,
         NEW h2 \in Heaps,
         \A w \in 0..HEAP_SIZE - 1 : w \notin p..p + o[p] - 1 => h2[w] = m.heap[w]
  PROVE  LET m2 == [heap |-> h2, used |-> m.used, free |-> m.free]
         IN  Sound(m2, S, o) /\ Keep(m.heap, h2, Less(o, p))
<1> DEFINE h  == m.heap
           i  == p - 1
           b  == After(h, i)
           m2 == [heap |-> h2, used |-> m.used, free |-> m.free]
<1>1. /\ m.used \in Int /\ m.free \in Int /\ h \in Heaps
      /\ Shape(h, S) /\ Counted(m, S) /\ Apart(h, S, {}) /\ Holds(h, S, o)
  BY DEF Sound, Loose, Memories
<1>2. /\ i \in S /\ i \in Int /\ p = i + 1
      /\ o[p] \in Nat /\ h[i] \in Int /\ h[i] > 0 /\ o[p] <= h[i]
      /\ b = i + h[i] + 2 /\ b <= HEAP_SIZE /\ b \in Nat /\ b \in S \cup {HEAP_SIZE}
      /\ i \in 0..HEAP_SIZE - 1
  <2>1. /\ p \in 1..HEAP_SIZE - 1 /\ p - 1 \in S
        /\ o[p] \in Nat /\ h[p - 1] \in Int /\ h[p - 1] > 0 /\ o[p] <= h[p - 1]
        /\ After(h, p - 1) = p + h[p - 1] + 1 /\ After(h, p - 1) <= HEAP_SIZE
        /\ After(h, p - 1) \in Nat
    BY <1>1, HeldBlock
  <2>2. After(h, p - 1) \in S \cup {HEAP_SIZE}
    BY <1>1, <2>1, BlockOf
  <2>3. QED
    BY <2>1, <2>2, Size
<1>3. \A w \in 0..HEAP_SIZE - 1 : w <= i \/ w >= b - 1 => h2[w] = h[w]
  <2>1. ASSUME NEW w \in 0..HEAP_SIZE - 1, w <= i \/ w >= b - 1 PROVE h2[w] = h[w]
    <3>1. w \notin p..p + o[p] - 1
      <4> HIDE DEF h, i, b
      <4>1. QED
        BY <1>2, <2>1
    <3>2. QED
      BY <3>1
  <2>2. QED
    BY <2>1
<1> HIDE DEF h, i, b, m2
<1>4. h2[i] = h[i] /\ h2[b - 1] = h[b - 1]
  <2>1. b - 1 \in 0..HEAP_SIZE - 1
    BY <1>2, Size
  <2>2. QED
    BY <1>2, <1>3, <2>1
<1>5. After(h2, i) = b
  BY <1>4 DEF After, b
<1>6. h[b - 1] = h[i] /\ h[i] % 2 = 0
  BY <1>1, <1>2, BlockOf DEF b
<1>7. Rewritten(h, i, b, h2, {i})
  <2>1. \A w \in 0..HEAP_SIZE - 1 : w < i \/ w >= b => h2[w] = h[w]
    BY <1>2, <1>3
  <2>2. {i} \subseteq i..b - 1
    BY <1>2
  <2>3. \A k, l \in {i} : k < l => After(h2, k) <= l
    BY <1>2
  <2>4. QED
    BY <1>4, <1>5, <1>6, <2>1, <2>2, <2>3 DEF Rewritten
<1>8. Outside(S, i, b) = S \ {i} /\ (S \ {i}) \cup {i} = S /\ i < b
  BY <1>1, <1>2, OutsideOne DEF b
<1>9. Shape(h2, S)
  BY <1>1, <1>2, <1>7, <1>8, RewrittenShape
<1>10. \A k \in S : h2[k] = h[k] /\ After(h2, k) = After(h, k)
  <2>1. ASSUME NEW k \in S \ {i} PROVE h2[k] = h[k] /\ After(h2, k) = After(h, k)
    <3>1. (\A w \in k..After(h, k) - 1 : h2[w] = h[w]) /\ After(h2, k) = After(h, k)
      BY <1>1, <1>2, <1>7, <1>8, Untouched
    <3>2. k \in 0..HEAP_SIZE - 1 /\ After(h, k) \in k + 2..HEAP_SIZE
      BY <1>1, BlockOf
    <3>3. k \in k..After(h, k) - 1
      BY <3>2, Size
    <3>4. QED
      BY <3>1, <3>3
  <2>2. QED
    BY <1>4, <1>5, <2>1 DEF b
<1>11. m2.heap = h2 /\ m2.used = m.used /\ m2.free = m.free /\ m2 \in Memories
  BY <1>1 DEF m2, Memories
<1>12. Counted(m2, S)
  <2>1. IsFiniteSet(S)
    BY <1>1, FiniteStarts
  <2>2. UsedSum(h2, S) = UsedSum(h, S) /\ UnusedSum(h2, S) = UnusedSum(h, S)
    BY <1>10, <2>1, SumsSame
  <2>3. QED
    BY <1>1, <1>11, <2>2 DEF Counted, h
<1>13. Apart(h2, S, {})
  <2>1. ASSUME NEW k \in S, h2[k] < 0, After(h2, k) < HEAP_SIZE PROVE h2[After(h2, k)] >= 0
    <3>1. h[After(h, k)] >= 0 /\ After(h, k) \in S
      BY <1>1, <1>10, <2>1, BlockOf, Size DEF Apart
    <3>2. QED
      BY <1>10, <3>1
  <2>2. QED
    BY <2>1 DEF Apart
<1>14. Holds(h2, S, o)
  <2>1. Used(h2, S) = Used(h, S)
    BY <1>10 DEF Used
  <2>2. \A q \in DOMAIN o : h2[q - 1] = h[q - 1]
    BY <1>1, <1>10, HeldBlock
  <2>3. QED
    BY <1>1, <2>1, <2>2 DEF Holds
<1>15. Keep(h, h2, Less(o, p))
  <2>1. ASSUME NEW q \in DOMAIN Less(o, p)
        PROVE  q \in DOMAIN o /\ q - 1 \in Outside(S, i, b) /\ Less(o, p)[q] = o[q]
    <3>1. q \in DOMAIN o /\ q # p /\ Less(o, p)[q] = o[q]
      BY DEF Less
    <3>2. q - 1 \in S /\ q \in 1..HEAP_SIZE - 1
      BY <1>1, <3>1, HeldBlock
    <3>3. q - 1 # i
      BY <1>2, <3>1, <3>2, Size
    <3>4. QED
      BY <1>8, <3>1, <3>2, <3>3
  <2>2. QED
    BY <1>1, <1>2, <1>7, <1>8, <2>1, RewrittenKeeps
<1>16. Sound(m2, S, o)
  BY <1>9, <1>11, <1>12, <1>13, <1>14 DEF Sound, Loose
<1>17. QED
  BY <1>15, <1>16 DEF h, m2

-----------------------------------------------------------------------------
(* The inductive invariant of the specification. *)
IInv == Sound(Memory, Starts(heap), owned)

LEMMA SoundIInv ==
  ASSUME NEW S, Sound(Memory, S, owned) PROVE IInv
<1>1. heap \in Heaps /\ Tiles(heap, S)
  BY DEF Sound, Loose, Shape, Memory
<1>2. Starts(heap) = S
  BY <1>1, StartsAre
<1>3. QED
  BY <1>2 DEF IInv

LEMMA SoundPrimed ==
  ASSUME NEW S, Sound(Memory', S, owned') PROVE IInv'
<1>1. heap' \in Heaps /\ Tiles(heap', S)
  BY DEF Sound, Loose, Shape, Memory
<1>2. Starts(heap') = S
  BY <1>1, StartsAre
<1>3. QED
  BY <1>2 DEF IInv

LEMMA InitIInv == Heap_Init => IInv
<1> SUFFICES ASSUME Heap_Init PROVE IInv
  OBVIOUS
<1> DEFINE n == HEAP_SIZE - 2
           I == 0..HEAP_SIZE - 1
<1>1. heap = [i \in I |-> IF i \in {0, HEAP_SIZE - 1} THEN -n ELSE 0]
      /\ owned = [p \in {} |-> 0] /\ heap_stats = [used |-> 0, free |-> 4 * n]
  BY DEF Heap_Init
<1>2. n \in Nat /\ n > 0 /\ (-n) % 2 = 0 /\ 0 \in I /\ HEAP_SIZE - 1 \in I
      /\ 0 # HEAP_SIZE - 1
  BY Size
<1>3. heap \in [I -> Int] /\ heap[0] = -n /\ heap[HEAP_SIZE - 1] = -n
  <2> HIDE DEF I, n
  <2>1. -n \in Int /\ 0 \in Int
    BY <1>2
  <2>2. QED
    BY <1>1, <1>2, <2>1
<1>4. After(heap, 0) = HEAP_SIZE
  BY <1>2, <1>3, Size DEF After, abs
<1>5. Tiles(heap, {0})
  BY <1>2, <1>4 DEF Tiles
<1>6. Tagged(heap, {0})
  <2>1. heap[After(heap, 0) - 1] = heap[0] /\ heap[0] % 2 = 0
    BY <1>2, <1>3, <1>4
  <2>2. QED
    BY <2>1 DEF Tagged
<1>7. heap \in Heaps
  BY <1>3 DEF Heaps
<1>8. Shape(heap, {0})
  BY <1>5, <1>6, <1>7 DEF Shape
<1> HIDE DEF n, I
<1>9. Memory = [heap |-> heap, used |-> 0, free |-> 4 * n]
  BY <1>1 DEF Memory
<1>10. ~(heap[0] > 0) /\ heap[0] <= 0
  BY <1>2, <1>3
<1>11. Counted(Memory, {0})
  <2>1. Used(heap, {0}) = {} /\ Unused(heap, {0}) = {} \cup {0}
    BY <1>10 DEF Used, Unused
  <2>2. IsFiniteSet({}) /\ TagSum(heap, {}) = 0
    BY FS_EmptySet, SumEmpty
  <2>3. \A k \in {} \cup {0} : heap[k] \in Int
    BY <1>2, <1>3
  <2>4. TagSum(heap, {} \cup {0}) = TagSum(heap, {}) + heap[0]
    BY <2>2, <2>3, SumAdd
  <2>5. UsedSum(heap, {0}) = 0 /\ UnusedSum(heap, {0}) = 0 + heap[0]
    BY <2>1, <2>2, <2>4 DEF UsedSum, UnusedSum
  <2>6. Memory.used = 4 * UsedSum(Memory.heap, {0})
        /\ Memory.free = -(4 * UnusedSum(Memory.heap, {0}))
    BY <1>2, <1>3, <1>9, <2>5
  <2>7. QED
    BY <2>6 DEF Counted
<1>12. Apart(heap, {0}, {})
  BY <1>4, Size DEF Apart
<1>13. Holds(heap, {0}, owned)
  <2>1. Used(heap, {0}) = {}
    BY <1>10 DEF Used
  <2>2. QED
    BY <1>1, <2>1 DEF Holds
<1>14. Memory \in Memories /\ Memory.heap = heap
  BY <1>2, <1>7, <1>9 DEF Memories
<1>15. Sound(Memory, {0}, owned)
  BY <1>8, <1>11, <1>12, <1>13, <1>14 DEF Sound, Loose
<1>16. QED
  BY <1>15, SoundIInv

-----------------------------------------------------------------------------
(* What a call does, in terms of the owned blocks and their words.         *)

(* The program has the blocks o and a new one. *)
Granted(o) ==
  \E bytes \in Requests \ {0}, p \in Nat :
    /\ p \notin DOMAIN o
    /\ owned' = With(o, p, NumWords(bytes))
    /\ Keep(heap, heap', o)

(* The program has the blocks o. *)
Left(o) == owned' = o /\ Keep(heap, heap', o)

LEMMA SetIs ==
  ASSUME NEW m \in Memories, SetMemory(m)
  PROVE  Memory' = m /\ heap' = m.heap
  BY DEF Memories, SetMemory, Memory

(* Heap_Malloc on a memory m that kept the blocks o. *)
LEMMA MallocStep ==
  ASSUME NEW m, NEW S, NEW o, Sound(m, S, o), Keep(heap, m.heap, o), NEW bytes \in Requests,
         SetMemory(Malloc(m, bytes).mem), Give(Malloc(m, bytes).ptr, bytes, o)
  PROVE  /\ IInv'
         /\ \/ Malloc(m, bytes).ptr = NULL /\ Left(o)
            \/ Granted(o)
<1> DEFINE r == Malloc(m, bytes)
<1>1. bytes \in Nat
  BY Size
<1>2. \/ r.ptr = NULL /\ r.mem = m
      \/ /\ r.ptr # NULL /\ r.ptr \notin DOMAIN o /\ bytes > 0
         /\ \E S2 : Sound(r.mem, S2, With(o, r.ptr, NumWords(bytes)))
         /\ Keep(m.heap, r.mem.heap, o)
  BY <1>1, MallocSound
<1> HIDE DEF r
<1>3. SetMemory(r.mem) /\ Give(r.ptr, bytes, o)
  BY DEF r
<1>4. CASE r.ptr = NULL /\ r.mem = m
  <2>1. m \in Memories
    BY DEF Sound, Loose
  <2>2. Memory' = m /\ heap' = m.heap
    BY <1>3, <1>4, <2>1, SetIs
  <2>3. owned' = o
    BY <1>3, <1>4 DEF Give
  <2>4. Sound(Memory', S, owned')
    BY <2>2, <2>3
  <2>5. IInv'
    BY <2>4, SoundPrimed
  <2>6. Left(o)
    BY <2>2, <2>3 DEF Left
  <2>7. QED
    BY <1>4, <2>5, <2>6 DEF r
<1>5. CASE /\ r.ptr # NULL /\ r.ptr \notin DOMAIN o /\ bytes > 0
           /\ \E S2 : Sound(r.mem, S2, With(o, r.ptr, NumWords(bytes)))
           /\ Keep(m.heap, r.mem.heap, o)
  <2>1. PICK S2 : Sound(r.mem, S2, With(o, r.ptr, NumWords(bytes)))
    BY <1>5
  <2>2. owned' = With(o, r.ptr, NumWords(bytes))
    BY <1>3, <1>5 DEF Give, With
  <2>3. r.mem \in Memories
    BY <2>1 DEF Sound, Loose
  <2>4. Memory' = r.mem /\ heap' = r.mem.heap
    BY <1>3, <2>3, SetIs
  <2>5. Sound(Memory', S2, owned')
    BY <2>1, <2>2, <2>4
  <2>6. IInv'
    BY <2>5, SoundPrimed
  <2>7. r.ptr \in Nat
    <3>1. Shape(r.mem.heap, S2) /\ Holds(r.mem.heap, S2, With(o, r.ptr, NumWords(bytes)))
      BY <2>1 DEF Sound, Loose
    <3>2. r.ptr \in DOMAIN With(o, r.ptr, NumWords(bytes))
      BY DEF With
    <3>3. r.ptr \in 1..HEAP_SIZE - 1
      BY <3>1, <3>2, HeldBlock
    <3>4. QED
      BY <3>3, Size
  <2>8. Keep(heap, heap', o)
    BY <1>5, <2>4 DEF Keep
  <2>9. bytes \in Requests \ {0}
    BY <1>5
  <2>10. Granted(o)
    BY <1>5, <2>2, <2>7, <2>8, <2>9 DEF Granted
  <2>11. QED
    BY <2>6, <2>10
<1>6. QED
  BY <1>2, <1>4, <1>5

LEMMA MallocOk ==
  ASSUME IInv, NEW bytes \in Requests, Heap_Malloc(bytes)
  PROVE  IInv' /\ (Left(owned) \/ Granted(owned))
<1>1. Sound(Memory, Starts(heap), owned)
  BY DEF IInv
<1>2. Keep(heap, Memory.heap, owned)
  BY DEF Keep, Memory
<1>3. SetMemory(Malloc(Memory, bytes).mem) /\ Give(Malloc(Memory, bytes).ptr, bytes, owned)
  BY DEF Heap_Malloc
<1>4. QED
  BY <1>1, <1>2, <1>3, MallocStep

LEMMA CallocOk ==
  ASSUME IInv, NEW bytes \in Requests, Heap_Calloc(bytes)
  PROVE  IInv' /\ (Left(owned) \/ Granted(owned))
<1> DEFINE m == Memory
           S == Starts(heap)
           r == Malloc(m, bytes)
           n == NumWords(bytes)
<1>1. Sound(m, S, owned) /\ bytes \in Nat
  BY Size DEF IInv
<1>2. \/ r.ptr = NULL /\ r.mem = m
      \/ /\ r.ptr # NULL /\ r.ptr \notin DOMAIN owned /\ bytes > 0
         /\ \E S2 : Sound(r.mem, S2, With(owned, r.ptr, n))
         /\ Keep(m.heap, r.mem.heap, owned)
  BY <1>1, MallocSound
<1>3. Give(r.ptr, bytes, owned)
  BY DEF Heap_Calloc
<1>4. /\ r.ptr = NULL => SetMemory(r.mem)
      /\ r.ptr # NULL => SetMemory([r.mem EXCEPT !.heap = Cleared(r.mem.heap, r.ptr, n)])
  BY DEF Heap_Calloc
<1>5. CASE r.ptr = NULL
  <2>1. SetMemory(Malloc(Memory, bytes).mem) /\ Give(Malloc(Memory, bytes).ptr, bytes, owned)
    BY <1>3, <1>4, <1>5
  <2>2. Keep(heap, Memory.heap, owned)
    BY DEF Keep, Memory
  <2>3. QED
    BY <1>1, <2>1, <2>2, MallocStep
<1>6. CASE r.ptr # NULL
  <2> DEFINE p  == r.ptr
             h  == r.mem.heap
             h2 == Cleared(h, p, n)
             o  == With(owned, p, n)
             m2 == [heap |-> h2, used |-> r.mem.used, free |-> r.mem.free]
  <2>1. PICK S2 : Sound(r.mem, S2, o)
    BY <1>2, <1>6
  <2>2. p \notin DOMAIN owned /\ bytes > 0 /\ Keep(m.heap, h, owned)
    BY <1>2, <1>6
  <2>3. SetMemory([r.mem EXCEPT !.heap = h2])
    BY <1>4, <1>6
  <2>4. p \in DOMAIN o /\ o[p] = n
    BY DEF With
  <2>5. owned' = o
    BY <1>3, <1>6 DEF Give, With
  <2> HIDE DEF p, o, r
  <2>6. r.mem \in Memories /\ h \in Heaps /\ Shape(h, S2) /\ Holds(h, S2, o)
    BY <2>1 DEF Sound, Loose, Shape
  <2>7. p \in 1..HEAP_SIZE - 1 /\ n \in Nat
    BY <2>4, <2>6, HeldBlock
  <2>8. h2 \in Heaps /\ \A w \in 0..HEAP_SIZE - 1 : w \notin p..p + o[p] - 1 => h2[w] = h[w]
    <3>1. DOMAIN h = 0..HEAP_SIZE - 1 /\ \A w \in 0..HEAP_SIZE - 1 : h[w] \in Int
      BY <2>6 DEF Heaps
    <3> HIDE DEF h
    <3>2. h2 = [w \in 0..HEAP_SIZE - 1 |-> IF w \in p + 1..p + n - 1 THEN 0 ELSE h[w]]
      BY <3>1 DEF Cleared
    <3> HIDE DEF h2, n
    <3>3. h2 \in Heaps
      BY <3>1, <3>2 DEF Heaps
    <3>4. ASSUME NEW w \in 0..HEAP_SIZE - 1, w \notin p..p + n - 1 PROVE h2[w] = h[w]
      <4>1. w \notin p + 1..p + n - 1
        BY <2>7, <3>4
      <4>2. QED
        BY <3>2, <4>1
    <3>5. QED
      BY <2>4, <3>3, <3>4 DEF n
  <2> HIDE DEF h2, n
  <2>9. Sound(m2, S2, o) /\ Keep(h, h2, Less(o, p))
    BY <2>1, <2>4, <2>8, WrittenSound
  <2>10. [r.mem EXCEPT !.heap = h2] = m2
    BY <2>6 DEF Memories
  <2>11. m2 \in Memories /\ m2.heap = h2
    BY <2>9 DEF Sound, Loose
  <2> HIDE DEF m2
  <2>12. Memory' = m2 /\ heap' = h2
    BY <2>3, <2>10, <2>11, SetIs
  <2>13. IInv'
    <3>1. Sound(Memory', S2, owned')
      BY <2>5, <2>9, <2>12
    <3>2. QED
      BY <3>1, SoundPrimed
  <2>14. DOMAIN Less(o, p) = DOMAIN owned /\ \A q \in DOMAIN owned : Less(o, p)[q] = owned[q]
    BY <2>2 DEF Less, o, With
  <2>15. Keep(heap, heap', owned)
    <3>1. \A q \in DOMAIN owned : \A i \in 0..owned[q] - 1 : h[q + i] = m.heap[q + i]
      BY <2>2 DEF Keep
    <3>2. \A q \in DOMAIN owned : \A i \in 0..owned[q] - 1 : h2[q + i] = h[q + i]
      BY <2>9, <2>14 DEF Keep
    <3>3. m.heap = heap
      BY DEF Memory
    <3> HIDE DEF m, h
    <3>4. QED
      BY <2>12, <3>1, <3>2, <3>3 DEF Keep
  <2>16. bytes \in Requests \ {0} /\ p \in Nat
    BY <2>2, <2>7, Size
  <2>17. Granted(owned)
    BY <2>2, <2>5, <2>15, <2>16 DEF Granted, o, n
  <2>18. QED
    BY <2>13, <2>17
<1>7. QED
  BY <1>5, <1>6

LEMMA FreeOk ==
  ASSUME IInv, NEW p \in DOMAIN owned, Heap_Free(p)
  PROVE  IInv' /\ Left(Less(owned, p))
<1> DEFINE m == Freed(Memory, p)
<1>1. /\ \E S2 : Sound(m, S2, Less(owned, p))
      /\ Keep(Memory.heap, m.heap, Less(owned, p))
  BY FreedSound DEF IInv
<1>2. SetMemory(m) /\ owned' = Less(owned, p)
  BY DEF Heap_Free, NotOwned, Less
<1> HIDE DEF m
<1>3. PICK S2 : Sound(m, S2, Less(owned, p))
  BY <1>1
<1>4. m \in Memories
  BY <1>3 DEF Sound, Loose
<1>5. Memory' = m /\ heap' = m.heap
  BY <1>2, <1>4, SetIs
<1>6. Sound(Memory', S2, owned')
  BY <1>2, <1>3, <1>5
<1>7. Keep(heap, heap', Less(owned, p))
  BY <1>1, <1>5 DEF Memory
<1>8. QED
  BY <1>2, <1>6, <1>7, SoundPrimed DEF Left

LEMMA ReallocOk ==
  ASSUME IInv, NEW p \in DOMAIN owned, NEW bytes \in Requests, Heap_Realloc(p, bytes)
  PROVE  IInv' /\ (Left(Less(owned, p)) \/ Granted(Less(owned, p)))
<1> DEFINE o == Less(owned, p)
<1>1. CASE bytes # 0 /\ heap[p - 1] = NumWords(bytes)
  <2> DEFINE n == NumWords(bytes)
             S == Starts(heap)
  <2>1. /\ owned' = [owned EXCEPT ![p] = n] /\ heap' = heap /\ heap_stats' = heap_stats
    BY <1>1 DEF Heap_Realloc
  <2>2. Memory' = Memory /\ Memory.heap = heap
    BY <2>1 DEF Memory
  <2>3. Sound(Memory, S, owned)
    BY DEF IInv
  <2>4. Shape(heap, S) /\ Holds(heap, S, owned)
    BY <2>2, <2>3 DEF Sound, Loose
  <2>5. p \in 1..HEAP_SIZE - 1 /\ n \in Nat
    <3>1. bytes \in Nat /\ bytes > 0
      BY <1>1, Size
    <3>2. QED
      BY <2>4, <3>1, HeldBlock, Rounded
  <2> HIDE DEF n, S
  <2>6. DOMAIN owned' = DOMAIN owned /\ owned'[p] = n
        /\ \A q \in DOMAIN owned \ {p} : owned'[q] = owned[q]
    BY <2>1
  <2>7. owned' = With(o, p, n)
    BY <2>1 DEF With, Less
  <2>8. Holds(heap, S, owned')
    <3>1. \A q \in DOMAIN owned' : owned'[q] \in Nat /\ owned'[q] <= heap[q - 1]
      BY <1>1, <2>4, <2>5, <2>6 DEF Holds, n
    <3>2. QED
      BY <2>4, <2>6, <3>1 DEF Holds
  <2>9. Sound(Memory', S, owned')
    BY <2>2, <2>3, <2>8 DEF Sound, Loose
  <2>10. Keep(heap, heap', o)
    BY <2>1 DEF Keep
  <2>11. p \in Nat /\ p \notin DOMAIN o /\ bytes \in Requests \ {0}
    BY <1>1, <2>5, Size DEF Less
  <2>12. Granted(o)
    BY <2>7, <2>10, <2>11 DEF Granted, n
  <2>13. QED
    BY <2>9, <2>12, SoundPrimed
<1>2. CASE ~(bytes # 0 /\ heap[p - 1] = NumWords(bytes))
  <2> DEFINE m == Freed(Memory, p)
  <2>1. /\ \E S2 : Sound(m, S2, o)
        /\ Keep(Memory.heap, m.heap, o)
    BY FreedSound DEF IInv
  <2>2. SetMemory(Malloc(m, bytes).mem) /\ Give(Malloc(m, bytes).ptr, bytes, o)
    BY <1>2 DEF Heap_Realloc, NotOwned, Less
  <2> HIDE DEF m, o
  <2>3. PICK S2 : Sound(m, S2, o)
    BY <2>1
  <2>4. Keep(heap, m.heap, o)
    BY <2>1 DEF Memory
  <2>5. QED
    BY <2>2, <2>3, <2>4, MallocStep DEF o
<1>3. QED
  BY <1>1, <1>2

(* The program writes word i of its block p. *)
LEMMA StoreOk ==
  ASSUME IInv, NEW p \in DOMAIN owned, NEW i \in 0..owned[p] - 1, NEW x \in Data, Store(p, i, x)
  PROVE  /\ IInv'
         /\ owned' = owned
         /\ \A q \in DOMAIN owned : \A j \in 0..owned[q] - 1 :
              <<q, j>> # <<p, i>> => heap'[q + j] = heap[q + j]
<1> DEFINE S == Starts(heap)
<1>1. Sound(Memory, S, owned)
  BY DEF IInv
<1>2. Shape(heap, S) /\ Holds(heap, S, owned) /\ heap \in Heaps
  BY <1>1 DEF Sound, Loose, Memory, Shape
<1>3. heap' = [heap EXCEPT ![p + i] = x] /\ owned' = owned /\ heap_stats' = heap_stats
  BY DEF Store
<1> HIDE DEF S
<1>4. p \in 1..HEAP_SIZE - 1 /\ owned[p] \in Nat
  BY <1>2, HeldBlock
<1>5. p + i \in 0..HEAP_SIZE - 1
  BY <1>2, HeldApart
<1>6. x \in Int
  BY Size
<1>7. heap' \in Heaps /\ \A w \in 0..HEAP_SIZE - 1 : w # p + i => heap'[w] = heap[w]
  <2> DEFINE I == 0..HEAP_SIZE - 1
             a == p + i
  <2>1. heap \in [I -> Int] /\ a \in I
    BY <1>2, <1>5 DEF Heaps
  <2>2. heap' = [heap EXCEPT ![a] = x]
    BY <1>3
  <2> HIDE DEF I, a
  <2>3. heap' \in [I -> Int] /\ \A w \in I : w # a => heap'[w] = heap[w]
    BY <1>6, <2>1, <2>2
  <2>4. QED
    BY <2>3 DEF I, a, Heaps
<1>8. \A w \in 0..HEAP_SIZE - 1 : w \notin p..p + owned[p] - 1 => heap'[w] = heap[w]
  <2>1. p + i \in p..p + owned[p] - 1
    BY <1>4, Size
  <2>2. QED
    BY <1>7, <2>1
<1>9. Sound([heap |-> heap', used |-> Memory.used, free |-> Memory.free], S, owned)
  <2>1. \A w \in 0..HEAP_SIZE - 1 :
          w \notin p..p + owned[p] - 1 => heap'[w] = Memory.heap[w]
    BY <1>8 DEF Memory
  <2>2. QED
    BY <1>1, <1>7, <2>1, WrittenSound
<1>10. IInv'
  <2>1. Memory' = [heap |-> heap', used |-> Memory.used, free |-> Memory.free]
    BY <1>3 DEF Memory
  <2>2. Sound(Memory', S, owned')
    BY <1>3, <1>9, <2>1
  <2>3. QED
    BY <2>2, SoundPrimed
<1>11. ASSUME NEW q \in DOMAIN owned, NEW j \in 0..owned[q] - 1, <<q, j>> # <<p, i>>
       PROVE  heap'[q + j] = heap[q + j]
  <2>1. q + j \in 0..HEAP_SIZE - 1
    BY <1>2, HeldApart
  <2>2. q + j # p + i
    <3>1. CASE q # p
      BY <1>2, <3>1, HeldApart
    <3>2. CASE q = p
      BY <1>4, <1>11, <3>2, Size
    <3>3. QED
      BY <3>1, <3>2
  <2>3. QED
    BY <1>7, <2>1, <2>2
<1>12. QED
  BY <1>3, <1>10, <1>11

-----------------------------------------------------------------------------
(* The theorems.                                                           *)

(* Every call keeps the invariant and changes the owned blocks in one of   *)
(* four ways.                                                              *)
LEMMA StepIs ==
  ASSUME IInv, Next
  PROVE  /\ IInv'
         /\ \/ Left(owned) \/ Granted(owned)
            \/ \E p \in DOMAIN owned : Left(Less(owned, p)) \/ Granted(Less(owned, p))
            \/ \E p \in DOMAIN owned : \E i \in 0..owned[p] - 1 :
                 /\ owned' = owned
                 /\ \A q \in DOMAIN owned : \A j \in 0..owned[q] - 1 :
                      <<q, j>> # <<p, i>> => heap'[q + j] = heap[q + j]
<1>1. CASE \E bytes \in Requests : Heap_Malloc(bytes)
  BY <1>1, MallocOk
<1>2. CASE \E bytes \in Requests : Heap_Calloc(bytes)
  BY <1>2, CallocOk
<1>3. CASE \E p \in DOMAIN owned : Heap_Free(p)
  BY <1>3, FreeOk
<1>4. CASE \E p \in DOMAIN owned : \E bytes \in Requests : Heap_Realloc(p, bytes)
  <2>1. PICK p \in DOMAIN owned, bytes \in Requests : Heap_Realloc(p, bytes)
    BY <1>4
  <2>2. IInv' /\ (Left(Less(owned, p)) \/ Granted(Less(owned, p)))
    BY <2>1, ReallocOk
  <2>3. QED
    BY <2>2
<1>5. CASE \E p \in DOMAIN owned : \E i \in 0..owned[p] - 1, x \in Data : Store(p, i, x)
  <2>1. PICK p \in DOMAIN owned : \E i \in 0..owned[p] - 1, x \in Data : Store(p, i, x)
    BY <1>5
  <2>2. PICK i \in 0..owned[p] - 1, x \in Data : Store(p, i, x)
    BY <2>1
  <2>3. /\ IInv'
        /\ owned' = owned
        /\ \A q \in DOMAIN owned : \A j \in 0..owned[q] - 1 :
             <<q, j>> # <<p, i>> => heap'[q + j] = heap[q + j]
    BY <2>2, StoreOk
  <2>4. QED
    BY <2>3
<1>6. QED
  BY <1>1, <1>2, <1>3, <1>4, <1>5 DEF Next

(* The tiling of the array, the two tags of each block, the ownership, the *)
(* running sums and the absence of free neighbours survive every call and  *)
(* every store of a program.                                               *)
THEOREM Invariance == Spec => []IInv
<1>1. Heap_Init => IInv
  BY InitIInv
<1>2. IInv /\ [Next]_vars => IInv'
  <2> SUFFICES ASSUME IInv, [Next]_vars PROVE IInv'
    OBVIOUS
  <2>1. CASE Next
    BY <2>1, StepIs
  <2>2. CASE UNCHANGED vars
    BY <2>2 DEF vars, IInv, Memory
  <2>3. QED
    BY <2>1, <2>2
<1>3. QED
  BY <1>1, <1>2, PTL DEF Spec

LEMMA Parts ==
  ASSUME IInv
  PROVE  LET S == Starts(heap)
         IN  /\ Shape(heap, S) /\ Apart(heap, S, {}) /\ Holds(heap, S, owned)
             /\ heap_stats.used = 4 * UsedSum(heap, S)
             /\ heap_stats.free = -(4 * UnusedSum(heap, S))
             /\ FreeStarts = Unused(heap, S)
             /\ S \ FreeStarts = Used(heap, S)
<1> DEFINE S == Starts(heap)
<1>1. Shape(heap, S) /\ Apart(heap, S, {}) /\ Holds(heap, S, owned)
      /\ heap_stats.used = 4 * UsedSum(heap, S)
      /\ heap_stats.free = -(4 * UnusedSum(heap, S))
  BY DEF IInv, Sound, Loose, Counted, Memory
<1>2. \A i \in S : heap[i] \in Int
  BY <1>1, BlockOf
<1>3. S \ FreeStarts = Used(heap, S)
  BY <1>2 DEF FreeStarts, Used
<1>4. QED
  BY <1>1, <1>3 DEF FreeStarts, Unused

(* Whatever the programs write into their blocks, each block of the array  *)
(* carries its length at both ends, so Heap_Free finds the neighbours.     *)
THEOREM TagsAgreeAlways == Spec => []TagsAgree
<1>1. IInv => TagsAgree
  <2> SUFFICES ASSUME IInv, NEW i \in Starts(heap)
               PROVE  LET last == i + abs(heap[i]) + 1
                      IN  last < HEAP_SIZE /\ heap[last] = heap[i]
    BY DEF TagsAgree
  <2>1. Shape(heap, Starts(heap))
    BY Parts
  <2>2. /\ After(heap, i) \in i + 2..HEAP_SIZE /\ i \in Int
        /\ heap[After(heap, i) - 1] = heap[i]
    BY <2>1, BlockOf
  <2>3. After(heap, i) = i + abs(heap[i]) + 2 /\ abs(heap[i]) \in Int
    BY <2>1, Afters DEF Shape
  <2>4. i + abs(heap[i]) + 1 = After(heap, i) - 1 /\ After(heap, i) - 1 < HEAP_SIZE
    BY <2>2, <2>3, Size
  <2>5. QED
    BY <2>2, <2>4
<1>2. QED
  BY <1>1, Invariance, PTL

(* heap.c loses no block, gives none twice, and gives each the words that  *)
(* were asked for.                                                         *)
THEOREM OwnedExactlyAlways == Spec => []OwnedExactly
<1>1. IInv => OwnedExactly
  BY Parts DEF OwnedExactly, Holds
<1>2. QED
  BY <1>1, Invariance, PTL

(* What Heap_Stats reports are the words of the blocks, after any number   *)
(* of splits and merges.                                                   *)
THEOREM StatsMatchAlways == Spec => []StatsMatch
<1>1. IInv => StatsMatch
  <2> SUFFICES ASSUME IInv PROVE StatsMatch
    OBVIOUS
  <2> DEFINE S == Starts(heap)
  <2>1. /\ Shape(heap, S)
        /\ heap_stats.used = 4 * UsedSum(heap, S)
        /\ heap_stats.free = -(4 * UnusedSum(heap, S))
        /\ FreeStarts = Unused(heap, S)
        /\ S \ FreeStarts = Used(heap, S)
    BY Parts
  <2>2. UsedSum(heap, S) \in Int /\ UnusedSum(heap, S) \in Int
    BY <2>1, FiniteStarts, SumsInt
  <2>3. heap_stats.free = -4 * UnusedSum(heap, S)
    BY <2>1, <2>2
  <2>4. QED
    BY <2>1, <2>3 DEF StatsMatch, UsedSum, UnusedSum
<1>2. QED
  BY <1>1, Invariance, PTL

(* A block that is freed is joined with its free neighbours, so that no    *)
(* two of them are ever left beside each other.                            *)
THEOREM CoalescedAlways == Spec => []Coalesced
<1>1. IInv => Coalesced
  <2> SUFFICES ASSUME IInv, NEW i \in Starts(heap), heap[i] < 0,
                      i - heap[i] + 2 < HEAP_SIZE
               PROVE  heap[i - heap[i] + 2] >= 0
    BY DEF Coalesced
  <2>1. Shape(heap, Starts(heap)) /\ Apart(heap, Starts(heap), {})
    BY Parts
  <2>2. heap[i] \in Int /\ (heap[i] <= 0 => After(heap, i) = i - heap[i] + 2)
    BY <2>1, BlockOf
  <2>3. After(heap, i) = i - heap[i] + 2
    BY <2>2
  <2>4. QED
    BY <2>1, <2>3 DEF Apart
<1>2. QED
  BY <1>1, Invariance, PTL

(* The blocks o and their words. *)
Live(h, o) == [p \in DOMAIN o |-> [i \in 0..o[p] - 1 |-> h[p + i]]]

LEMMA KeepLive ==
  ASSUME NEW h, NEW h2, NEW o, Keep(h, h2, o)
  PROVE  Live(h2, o) = Live(h, o)
  BY DEF Live, Keep

LEMMA LessLive ==
  ASSUME NEW h, NEW o, NEW p
  PROVE  Live(h, Less(o, p)) = Less(Live(h, o), p)
  BY DEF Live, Less

Addresses == 0..HEAP_SIZE - 1

(* A grant is a step Obtain of the specification: the words of the new     *)
(* block belong to no other.                                               *)
LEMMA GrantedObtains ==
  ASSUME IInv', NEW o, NEW l, l = Live(heap, o), Granted(o)
  PROVE  \E bytes \in Requests \ {0} : \E p \in Addresses :
           LET n  == NumWords(bytes)
               l2 == Live(heap', owned')
           IN  /\ p..p + n - 1 \subseteq Addresses
               /\ \A q \in DOMAIN l : {q + i : i \in DOMAIN l[q]} \cap (p..p + n - 1) = {}
               /\ DOMAIN l2 = DOMAIN l \cup {p}
               /\ DOMAIN l2[p] = 0..n - 1
               /\ \A q \in DOMAIN l : l2[q] = l[q]
<1> DEFINE l2 == Live(heap', owned')
           S  == Starts(heap')
<1>1. PICK bytes \in Requests \ {0}, p \in Nat :
        /\ p \notin DOMAIN o
        /\ owned' = With(o, p, NumWords(bytes))
        /\ Keep(heap, heap', o)
  BY DEF Granted
<1> DEFINE n == NumWords(bytes)
<1>2. /\ DOMAIN owned' = DOMAIN o \cup {p}
      /\ owned'[p] = n
      /\ \A q \in DOMAIN o : q # p /\ owned'[q] = o[q]
  BY <1>1 DEF With
<1>3. Shape(heap', S) /\ Holds(heap', S, owned')
  BY DEF IInv, Sound, Loose, Memory
<1> HIDE DEF S
<1>4. p \in 1..HEAP_SIZE - 1 /\ n \in Nat
  BY <1>2, <1>3, HeldBlock
<1>5. p \in Addresses
  BY <1>4, Size DEF Addresses
<1>6. p..p + n - 1 \subseteq Addresses
  <2>1. ASSUME NEW w \in p..p + n - 1 PROVE w \in Addresses
    <3>1. w - p \in 0..owned'[p] - 1 /\ p + (w - p) = w
      BY <1>2, <1>4, Size
    <3>2. p + (w - p) \in 0..HEAP_SIZE - 1
      BY <1>2, <1>3, <3>1, HeldApart
    <3>3. QED
      BY <3>1, <3>2 DEF Addresses
  <2>2. QED
    BY <2>1
<1>7. /\ DOMAIN l = DOMAIN o
      /\ \A q \in DOMAIN o : l[q] = [i \in 0..o[q] - 1 |-> heap[q + i]]
  BY DEF Live
<1>8. /\ DOMAIN l2 = DOMAIN owned'
      /\ \A q \in DOMAIN owned' : l2[q] = [i \in 0..owned'[q] - 1 |-> heap'[q + i]]
  BY DEF Live
<1> HIDE DEF l2, n
<1>9. ASSUME NEW q \in DOMAIN l PROVE {q + i : i \in DOMAIN l[q]} \cap (p..p + n - 1) = {}
  <2>1. q \in DOMAIN owned' /\ q # p /\ p \in DOMAIN owned' /\ DOMAIN l[q] = 0..owned'[q] - 1
    BY <1>2, <1>7
  <2>2. ASSUME NEW i \in DOMAIN l[q], q + i \in p..p + n - 1 PROVE FALSE
    <3>1. q \in 1..HEAP_SIZE - 1 /\ owned'[q] \in Nat
      BY <1>3, <2>1, HeldBlock
    <3> DEFINE j == q + i - p
    <3>2. j \in 0..owned'[p] - 1 /\ i \in 0..owned'[q] - 1 /\ p + j = q + i
      BY <1>2, <1>4, <2>1, <2>2, <3>1
    <3>3. q + i # p + j
      <4> HIDE DEF j
      <4>1. QED
        BY <1>3, <2>1, <3>2, HeldApart
    <3>4. QED
      BY <3>2, <3>3
  <2>3. QED
    BY <2>2
<1>10. DOMAIN l2 = DOMAIN l \cup {p} /\ DOMAIN l2[p] = 0..n - 1
  <2>1. DOMAIN l2 = DOMAIN l \cup {p}
    BY <1>2, <1>7, <1>8
  <2>2. l2[p] = [i \in 0..n - 1 |-> heap'[p + i]]
    BY <1>2, <1>8
  <2>3. QED
    BY <2>1, <2>2
<1>11. ASSUME NEW q \in DOMAIN l PROVE l2[q] = l[q]
  <2>1. q \in DOMAIN o /\ q \in DOMAIN owned' /\ owned'[q] = o[q]
    BY <1>2, <1>7
  <2>2. \A i \in 0..o[q] - 1 : heap'[q + i] = heap[q + i]
    BY <1>1, <2>1 DEF Keep
  <2>3. l2[q] = [i \in 0..o[q] - 1 |-> heap'[q + i]] /\ l[q] = [i \in 0..o[q] - 1 |-> heap[q + i]]
    BY <1>7, <1>8, <2>1
  <2>4. QED
    BY <2>2, <2>3
<1>12. QED
  BY <1>5, <1>6, <1>9, <1>10, <1>11 DEF l2, n

LEMMA LeftKeeps ==
  ASSUME NEW o, Left(o)
  PROVE  Live(heap', owned') = Live(heap, o)
  BY KeepLive DEF Left

LEMMA InitAllocator == Heap_Init => A!Init
<1> SUFFICES ASSUME Heap_Init PROVE A!Init
  OBVIOUS
<1>1. DOMAIN owned = {}
  BY DEF Heap_Init
<1>2. QED
  BY <1>1 DEF A!Init

LEMMA StepAllocator ==
  ASSUME IInv, IInv', Next
  PROVE  A!Next \/ Live(heap', owned') = Live(heap, owned)
<1> DEFINE l  == Live(heap, owned)
           l2 == Live(heap', owned')
<1>1. DOMAIN l = DOMAIN owned /\ DOMAIN l2 = DOMAIN owned'
  BY DEF Live
<1>2. CASE Left(owned)
  BY <1>2, LeftKeeps
<1>3. CASE Granted(owned)
  <2>1. PICK bytes \in Requests \ {0} : \E p \in Addresses :
          LET n == NumWords(bytes)
          IN  /\ p..p + n - 1 \subseteq Addresses
              /\ \A q \in DOMAIN l : {q + i : i \in DOMAIN l[q]} \cap (p..p + n - 1) = {}
              /\ DOMAIN l2 = DOMAIN l \cup {p}
              /\ DOMAIN l2[p] = 0..n - 1
              /\ \A q \in DOMAIN l : l2[q] = l[q]
    BY <1>3, GrantedObtains
  <2> DEFINE n == NumWords(bytes)
  <2>2. A!Obtain(l, n)
    <3> HIDE DEF n
    <3>1. QED
      BY <2>1 DEF A!Obtain, A!Block, A!Words, Addresses, Live, n
  <2>3. QED
    BY <2>2 DEF A!Next, Live
<1>4. ASSUME NEW p \in DOMAIN owned, Left(Less(owned, p)) PROVE A!Next
  <2>1. l2 = Less(l, p)
    <3>1. l2 = Live(heap, Less(owned, p))
      BY <1>4, LeftKeeps
    <3>2. QED
      BY <3>1, LessLive
  <2>2. A!Release(p)
    BY <2>1 DEF A!Release, A!Without, Less, Live
  <2>3. QED
    BY <1>1, <2>2 DEF A!Next, Live
<1>5. ASSUME NEW p \in DOMAIN owned, Granted(Less(owned, p)) PROVE A!Next
  <2> DEFINE o == Live(heap, Less(owned, p))
  <2>1. o = Less(l, p)
    BY LessLive
  <2>2. PICK bytes \in Requests \ {0} : \E r \in Addresses :
          LET n == NumWords(bytes)
          IN  /\ r..r + n - 1 \subseteq Addresses
              /\ \A q \in DOMAIN o : {q + i : i \in DOMAIN o[q]} \cap (r..r + n - 1) = {}
              /\ DOMAIN l2 = DOMAIN o \cup {r}
              /\ DOMAIN l2[r] = 0..n - 1
              /\ \A q \in DOMAIN o : l2[q] = o[q]
    BY <1>5, GrantedObtains
  <2> DEFINE n == NumWords(bytes)
  <2>3. A!Without(p) = o
    BY <2>1 DEF A!Without, Less, Live
  <2>4. A!Obtain(A!Without(p), n)
    <3> HIDE DEF n, o
    <3>1. QED
      BY <2>2, <2>3 DEF A!Obtain, A!Block, A!Words, Addresses, Live, n
  <2>5. n \in {NumWords(x) : x \in Requests \ {0}}
    OBVIOUS
  <2> HIDE DEF n, o
  <2>6. p \in DOMAIN l
    BY <1>1
  <2>7. QED
    BY <2>4, <2>5, <2>6 DEF A!Next, Live
<1>6. ASSUME NEW p \in DOMAIN owned, NEW i \in 0..owned[p] - 1, owned' = owned,
             \A q \in DOMAIN owned : \A j \in 0..owned[q] - 1 :
               <<q, j>> # <<p, i>> => heap'[q + j] = heap[q + j]
      PROVE  A!Next
  <2>1. A!Store(p, i)
    BY <1>6 DEF A!Store
  <2>2. QED
    BY <2>1 DEF A!Next
<1>7. QED
  BY <1>2, <1>3, <1>4, <1>5, <1>6, StepIs

(* The heap implements Allocator: the blocks a program owns are disjoint,  *)
(* and neither a call about one block nor a write into it changes a word   *)
(* of the others.                                                          *)
THEOREM HeapImplementsAllocator == Spec => ImplementsAllocator
<1>1. Heap_Init => A!Init
  BY InitAllocator
<1>2. IInv /\ IInv' /\ [Next]_vars =>
        [A!Next]_([p \in DOMAIN owned |-> [i \in 0..owned[p] - 1 |-> heap[p + i]]])
  <2>1. CASE UNCHANGED vars
    BY <2>1 DEF vars
  <2>2. ASSUME IInv, IInv', Next
        PROVE  [A!Next]_([p \in DOMAIN owned |-> [i \in 0..owned[p] - 1 |-> heap[p + i]]])
    BY <2>2, StepAllocator DEF Live
  <2>3. QED
    BY <2>1, <2>2
<1>3. QED
  BY <1>1, <1>2, Invariance, PTL DEF Spec, ImplementsAllocator, A!Spec
=============================================================================
