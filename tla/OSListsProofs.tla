---------------------------- MODULE OSListsProofs ----------------------------
(***************************************************************************)
(* The linked lists of the kernel implement its rings and lists, for any   *)
(* number of threads, priorities and semaphores.                           *)
(*                                                                         *)
(* The invariant: the pointers represent the sequences that OSLists reads  *)
(* off them, and of these the inductive invariant of OSKernelProofs holds. *)
(* IsRing and IsList say what it is for pointers to represent one sequence *)
(* of different TCBs; the lemmas on Ring and List show that the walks of   *)
(* OSLists then find that sequence.  Of each operation on the pointers it  *)
(* is proved that it does to the ring or list it is given what OSKernel    *)
(* does to the sequence, and touches no TCB outside it, so that the other  *)
(* rings and lists, which share no TCB with it, are represented as before. *)
(***************************************************************************)
EXTENDS OSLists, FiniteSetTheorems, TLAPS

(* The rings and lists as sequences, and the theorems of the kernel of them. *)
Rings == [p \in Priorities |-> Ring(TCB_priority_array[p])]
Lists == [s \in Semaphores |-> List(blocked[s])]

K == INSTANCE OSKernelProofs WITH ready <- Rings, blocked <- Lists

LEMMA Sizes ==
  /\ NUMTHREADS \in Nat \ {0}
  /\ Threads = 0..NUMTHREADS - 1
  /\ Threads \subseteq Nat
  /\ NULL \notin Threads
  /\ \A t \in Threads : t # NULL
  BY ListsAssumption DEF Kernel!KernelAssumption, Threads, NULL

(* The numbers of steps a walk may take. *)
Steps == 0..NUMTHREADS

LEMMA StepsAre == /\ Steps \subseteq Nat
                  /\ \A k \in Nat : k <= NUMTHREADS => k \in Steps
                  /\ \A k \in Steps : k <= NUMTHREADS
                  /\ \A k \in Steps : k # 0 => k - 1 \in Steps
  BY Sizes DEF Steps

Nodes == Threads \cup {NULL}

-----------------------------------------------------------------------------
(* Walks.                                                                  *)

IsWalk(nx, h, w) ==
  w = [k \in 0..NUMTHREADS |->
         IF k = 0 THEN h ELSE IF w[k - 1] = NULL THEN NULL ELSE nx[w[k - 1]]]

Follows(nx, h, w, k) == w[k] = IF k = 0 THEN h ELSE IF w[k - 1] = NULL THEN NULL ELSE nx[w[k - 1]]

(* The walk of OSLists is a function that satisfies its recursion: for every  *)
(* number of steps some function satisfies it so far.                         *)
LEMMA WalkExists ==
  ASSUME NEW nx, NEW h
  PROVE  \E w : IsWalk(nx, h, w)
<1> DEFINE Good(m) == \E w : w = [k \in Steps |-> w[k]]
                                /\ \A k \in Steps : k <= m => Follows(nx, h, w, k)
           Bad == {m \in Nat : ~Good(m)}
<1>1. Good(0)
  <2> DEFINE w == [k \in Steps |-> h]
  <2>1. w = [k \in Steps |-> w[k]]
    OBVIOUS
  <2>2. \A k \in Steps : k <= 0 => Follows(nx, h, w, k)
    BY StepsAre DEF Follows
  <2> HIDE DEF w
  <2>3. QED
    BY <2>1, <2>2
<1>2. ASSUME NEW m \in Nat, Good(m) PROVE Good(m + 1)
  <2>1. PICK v : v = [k \in Steps |-> v[k]] /\ \A k \in Steps : k <= m => Follows(nx, h, v, k)
    BY <1>2
  <2> DEFINE n == m + 1
             e == IF v[m] = NULL THEN NULL ELSE nx[v[m]]
             w == [k \in Steps |-> IF k = n THEN e ELSE v[k]]
  <2>2. w = [k \in Steps |-> w[k]]
    OBVIOUS
  <2>3. ASSUME NEW k \in Steps, k <= n PROVE Follows(nx, h, w, k)
    <3>1. k \in Nat /\ n \in Nat /\ n # 0 /\ n - 1 = m
      BY StepsAre
    <3>2. CASE k = n
      <4>1. w[k] = e /\ k - 1 = m /\ k - 1 \in Steps /\ k - 1 # n /\ k # 0
        BY <3>1, <3>2, StepsAre
      <4>2. w[k - 1] = v[m]
        BY <4>1
      <4> HIDE DEF w, n
      <4>3. QED
        BY <4>1, <4>2 DEF Follows
    <3>3. CASE k # n
      <4>1. k <= m /\ w[k] = v[k]
        BY <2>3, <3>1, <3>3
      <4>2. k # 0 => k - 1 \in Steps /\ k - 1 # n
        BY <3>1, <4>1, StepsAre
      <4>3. k # 0 => w[k - 1] = v[k - 1]
        BY <4>2
      <4>4. Follows(nx, h, v, k)
        BY <2>1, <4>1
      <4> HIDE DEF w, n
      <4>5. QED
        BY <4>1, <4>3, <4>4 DEF Follows
    <3>4. QED
      BY <3>2, <3>3
  <2> HIDE DEF w
  <2>4. QED
    BY <2>2, <2>3
<1>3. Good(NUMTHREADS)
  <2> SUFFICES ASSUME ~Good(NUMTHREADS) PROVE FALSE
    OBVIOUS
  <2> HIDE DEF Good
  <2>1. Bad \in SUBSET Nat /\ Bad # {}
    BY Sizes
  <2>2. PICK m \in Bad : \A y \in Bad : m <= y
    BY <2>1, ListsAssumption, K!LeastExists
  <2>3. m # 0 /\ m \in Nat
    BY <1>1, <2>2
  <2>4. m - 1 \in Nat /\ (m - 1) + 1 = m /\ ~(m <= m - 1)
    BY <2>3
  <2>5. Good(m - 1)
    BY <2>2, <2>4
  <2>6. QED
    BY <1>2, <2>2, <2>4, <2>5
<1>4. PICK w : w = [k \in Steps |-> w[k]]
             /\ \A k \in Steps : k <= NUMTHREADS => Follows(nx, h, w, k)
  BY <1>3
<1>5. \A k \in Steps : Follows(nx, h, w, k)
  BY <1>4, StepsAre
<1>6. IsWalk(nx, h, w)
  BY <1>4, <1>5 DEF Follows, IsWalk, Steps
<1>7. QED
  BY <1>6

LEMMA WalkSteps ==
  ASSUME NEW nx, NEW h
  PROVE  /\ Walk(nx, h)[0] = h
         /\ \A k \in Steps : k + 1 \in Steps =>
              Walk(nx, h)[k + 1] =
                IF Walk(nx, h)[k] = NULL THEN NULL ELSE nx[Walk(nx, h)[k]]
<1> DEFINE w == Walk(nx, h)
<1>1. IsWalk(nx, h, w)
  <2> DEFINE c == CHOOSE f : IsWalk(nx, h, f)
  <2>1. IsWalk(nx, h, c)
    BY WalkExists
  <2>2. w = c
    BY Zenon DEF Walk, IsWalk
  <2>3. QED
    BY <2>1, <2>2
<1>2. \A k \in Steps : Follows(nx, h, w, k)
  BY <1>1 DEF IsWalk, Follows, Steps
<1>3. 0 \in Steps
  BY Sizes, StepsAre
<1>4. ASSUME NEW k \in Steps, k + 1 \in Steps
      PROVE w[k + 1] = IF w[k] = NULL THEN NULL ELSE nx[w[k]]
  <2>1. k + 1 # 0 /\ (k + 1) - 1 = k
    BY StepsAre
  <2> HIDE DEF w
  <2>2. QED
    BY <1>2, <1>4, <2>1 DEF Follows
<1> HIDE DEF w
<1>5. QED
  BY <1>2, <1>3, <1>4 DEF Follows, w

-----------------------------------------------------------------------------
(* Rings and lists.                                                        *)

(* q is linked from its first to its last element. *)
Chained(nx, pv, q) ==
  \A i \in 1..Len(q) - 1 : nx[q[i]] = q[i + 1] /\ pv[q[i + 1]] = q[i]

Sequence(q) == q \in Seq(Threads) /\ K!IsInjective(q)

IsRing(nx, pv, h, q) ==
  /\ Sequence(q)
  /\ Chained(nx, pv, q)
  /\ q = <<>> => h = NULL
  /\ q # <<>> => h = q[1] /\ nx[q[Len(q)]] = q[1] /\ pv[q[1]] = q[Len(q)]

IsList(nx, pv, h, q) ==
  /\ Sequence(q)
  /\ Chained(nx, pv, q)
  /\ q = <<>> => h = NULL
  /\ q # <<>> => h = q[1] /\ nx[q[Len(q)]] = NULL /\ pv[q[1]] = NULL

(* What there is to know of a sequence of different threads. *)
LEMMA Different ==
  ASSUME NEW q, Sequence(q)
  PROVE  /\ q \in Seq(Threads) /\ Len(q) \in Nat
         /\ q # <<>> <=> Len(q) >= 1
         /\ \A i \in 1..Len(q) : q[i] \in Threads /\ q[i] # NULL
         /\ \A i, j \in 1..Len(q) : q[i] = q[j] => i = j
  BY Sizes, ListsAssumption, K!InjectiveElements DEF Sequence

(* It is not longer than there are threads. *)
LEMMA NotLonger ==
  ASSUME NEW q, Sequence(q)
  PROVE  Len(q) <= NUMTHREADS
<1> DEFINE n == Len(q)
<1>1. IsFiniteSet(1..n) /\ Cardinality(1..n) = n
  BY Different, FS_Interval
<1>2. IsFiniteSet(Threads) /\ Cardinality(Threads) = NUMTHREADS
  BY Sizes, FS_Interval
<1>3. q \in [1..n -> Threads] /\ \A i, j \in 1..n : q[i] = q[j] => i = j
  BY Different
<1>4. Cardinality(1..n) <= Cardinality(Threads)
  BY <1>1, <1>2, <1>3, FS_Injection DEF Injection, IsInjective
<1>5. QED
  BY <1>1, <1>2, <1>4

(* A walk from the first element meets the elements in their order. *)
LEMMA ChainWalk ==
  ASSUME NEW nx, NEW pv, NEW q, Sequence(q), q # <<>>, Chained(nx, pv, q)
  PROVE  \A k \in 0..Len(q) - 1 : Walk(nx, q[1])[k] = q[k + 1]
<1> DEFINE w == Walk(nx, q[1])
           n == Len(q)
           Bad == {k \in 0..n - 1 : w[k] # q[k + 1]}
<1>1. n \in Nat /\ n >= 1 /\ n <= NUMTHREADS
  BY Different, NotLonger
<1> SUFFICES ASSUME Bad # {} PROVE FALSE
  OBVIOUS
<1>0. Bad \in SUBSET Nat
  BY <1>1
<1>2. PICK k \in Bad : \A y \in Bad : k <= y
  <2> HIDE DEF Bad
  <2>1. QED
    BY <1>0, ListsAssumption, K!LeastExists
<1> HIDE DEF w
<1>3. k \in 0..n - 1 /\ w[k] # q[k + 1]
  OBVIOUS
<1>4. w[0] = q[1]
  BY WalkSteps DEF w
<1> DEFINE j == k - 1
<1>5. k # 0
  BY <1>3, <1>4
<1>6. j \in 0..n - 1 /\ j + 1 = k /\ j \in Steps /\ k \in Steps /\ ~(k <= j) /\ k \in 1..n - 1
        /\ k \in 1..n
  BY <1>1, <1>3, <1>5, Sizes DEF Steps
<1>7. w[j] = q[k]
  BY <1>2, <1>6
<1> HIDE DEF j
<1>8. w[k] = IF w[j] = NULL THEN NULL ELSE nx[w[j]]
  BY <1>6, WalkSteps DEF w
<1>9. q[k] # NULL /\ nx[q[k]] = q[k + 1]
  BY <1>6, Different DEF Chained
<1>10. QED
  BY <1>3, <1>7, <1>8, <1>9

LEMMA LeastIs ==
  ASSUME NEW S \in SUBSET Nat, NEW n \in S, \A k \in S : n <= k
  PROVE  Least(S) = n
<1>1. \A x \in S : (\A y \in S : x <= y) => x = n
  OBVIOUS
<1>2. QED
  BY <1>1 DEF Least

(* Ring and List, from any pointers. *)
RingFrom(nx, h) ==
  IF h = NULL THEN <<>>
  ELSE [i \in 1..Least({k \in 1..NUMTHREADS : Walk(nx, h)[k] = h}) |-> Walk(nx, h)[i - 1]]

ListFrom(nx, h) ==
  [i \in 1..Least({k \in 0..NUMTHREADS : Walk(nx, h)[k] = NULL}) |-> Walk(nx, h)[i - 1]]

LEMMA RingIs ==
  ASSUME NEW nx, NEW pv, NEW h, NEW q, IsRing(nx, pv, h, q)
  PROVE  RingFrom(nx, h) = q
<1>1. CASE q = <<>>
  BY <1>1 DEF IsRing, RingFrom
<1>2. CASE q # <<>>
  <2> DEFINE w == Walk(nx, h)
             n == Len(q)
             S == {k \in 1..NUMTHREADS : w[k] = h}
  <2>1. n \in Nat /\ n >= 1 /\ n <= NUMTHREADS /\ q \in Seq(Threads) /\ h = q[1] /\ h # NULL
    BY <1>2, Different, NotLonger DEF IsRing
  <2>2. \A k \in 0..n - 1 : w[k] = q[k + 1]
    BY <1>2, <2>1, ChainWalk DEF IsRing
  <2>3. w[n] = h
    <3> DEFINE j == n - 1
    <3>1. j \in 0..n - 1 /\ j \in Steps /\ j + 1 = n /\ n \in Steps /\ n \in 1..n
      BY <2>1, Sizes DEF Steps
    <3>2. w[j] = q[n]
      BY <2>2, <3>1
    <3> HIDE DEF w, j, n
    <3>3. w[n] = IF w[j] = NULL THEN NULL ELSE nx[w[j]]
      BY <3>1, WalkSteps DEF w
    <3>4. q[n] # NULL /\ nx[q[n]] = q[1]
      BY <1>2, <3>1, Different DEF IsRing, n
    <3>5. QED
      BY <2>1, <3>2, <3>3, <3>4
  <2>4. Least(S) = n
    <3>1. S \in SUBSET Nat /\ n \in S
      BY <2>1, <2>3, Sizes
    <3>2. ASSUME NEW k \in S, k < n PROVE FALSE
      <4>1. k \in 0..n - 1 /\ k + 1 \in 1..n /\ 1 \in 1..n /\ k + 1 # 1
        BY <2>1, <3>2, Sizes
      <4>2. w[k] = q[k + 1] /\ w[k] = q[1]
        BY <2>1, <2>2, <4>1
      <4>3. QED
        BY <4>1, <4>2, Different DEF IsRing
    <3>3. \A k \in S : n <= k
      BY <2>1, <3>2, Sizes
    <3> HIDE DEF S, n
    <3>4. QED
      BY <3>1, <3>3, LeastIs
  <2>5. RingFrom(nx, h) = [i \in 1..n |-> w[i - 1]]
    BY <2>1, <2>4 DEF RingFrom
  <2>6. \A i \in 1..n : w[i - 1] = q[i]
    <3>1. \A i \in 1..n : i - 1 \in 0..n - 1 /\ (i - 1) + 1 = i
      BY <2>1
    <3> HIDE DEF w, n
    <3>2. QED
      BY <2>2, <3>1
  <2>7. q = [i \in 1..n |-> q[i]]
    BY <2>1
  <2> HIDE DEF w, n
  <2>8. QED
    BY <2>5, <2>6, <2>7
<1>3. QED
  BY <1>1, <1>2

LEMMA ListIs ==
  ASSUME NEW nx, NEW pv, NEW h, NEW q, IsList(nx, pv, h, q)
  PROVE  ListFrom(nx, h) = q
<1> DEFINE w == Walk(nx, h)
           n == Len(q)
           S == {k \in 0..NUMTHREADS : w[k] = NULL}
<1>1. n \in Nat /\ n <= NUMTHREADS /\ q \in Seq(Threads)
  BY Different, NotLonger DEF IsList
<1>2. \A k \in 0..n - 1 : w[k] = q[k + 1]
  <2>1. CASE q = <<>>
    BY <2>1
  <2>2. CASE q # <<>>
    BY <2>2, ChainWalk DEF IsList
  <2>3. QED
    BY <2>1, <2>2
<1>3. w[n] = NULL
  <2>1. CASE q = <<>>
    BY <2>1, WalkSteps DEF IsList
  <2>2. CASE q # <<>>
    <3> DEFINE j == n - 1
    <3>1. j \in 0..n - 1 /\ j \in Steps /\ j + 1 = n /\ n \in Steps /\ n \in 1..n
      BY <1>1, <2>2, Sizes, Different DEF Steps, IsList
    <3>2. w[j] = q[n]
      BY <1>2, <3>1
    <3> HIDE DEF w, j, n
    <3>3. w[n] = IF w[j] = NULL THEN NULL ELSE nx[w[j]]
      BY <3>1, WalkSteps DEF w
    <3>4. nx[q[n]] = NULL
      BY <2>2 DEF IsList, n
    <3>5. QED
      BY <3>2, <3>3, <3>4
  <2>3. QED
    BY <2>1, <2>2
<1>4. Least(S) = n
  <2>1. S \in SUBSET Nat /\ n \in S
    BY <1>1, <1>3, Sizes
  <2>2. ASSUME NEW k \in S, k < n PROVE FALSE
    <3>1. k \in 0..n - 1 /\ k + 1 \in 1..n
      BY <1>1, <2>2, Sizes
    <3>2. w[k] = q[k + 1] /\ w[k] = NULL
      BY <1>2, <3>1
    <3>3. QED
      BY <3>1, <3>2, Different DEF IsList
  <2>3. \A k \in S : n <= k
    BY <1>1, <2>2, Sizes
  <2> HIDE DEF S, n
  <2>4. QED
    BY <2>1, <2>3, LeastIs
<1>5. ListFrom(nx, h) = [i \in 1..n |-> w[i - 1]]
  BY <1>4 DEF ListFrom
<1>6. \A i \in 1..n : w[i - 1] = q[i]
  <2>1. \A i \in 1..n : i - 1 \in 0..n - 1 /\ (i - 1) + 1 = i
    BY <1>1
  <2> HIDE DEF w, n
  <2>2. QED
    BY <1>2, <2>1
<1>7. q = [i \in 1..n |-> q[i]]
  BY <1>1
<1> HIDE DEF w, n
<1>8. QED
  BY <1>5, <1>6, <1>7

(* The end of the loop of addThreadPriority. *)
LEMMA RingTailIs ==
  ASSUME NEW nx, NEW pv, NEW h, NEW q, IsRing(nx, pv, h, q), h # NULL
  PROVE  RingTail(nx, h) = q[Len(q)]
<1> DEFINE w == Walk(nx, h)
           n == Len(q)
           S == {k \in 1..NUMTHREADS : nx[w[k]] = h}
<1>1. q # <<>> /\ Sequence(q) /\ Chained(nx, pv, q) /\ h = q[1] /\ nx[q[n]] = h
  BY DEF IsRing
<1>2. n \in Nat /\ n >= 1 /\ n <= NUMTHREADS /\ NUMTHREADS \in Nat
  BY <1>1, Different, NotLonger, Sizes
<1>3. \A k \in 0..n - 1 : w[k] = q[k + 1]
  BY <1>1, ChainWalk
<1>4. CASE n = 1
  <2>1. 0 \in Steps /\ 0 + 1 \in Steps /\ 0 \in 0..n - 1 /\ 1 \in 1..n
    BY <1>2 DEF Steps
  <2>2. w[0] = h
    BY WalkSteps
  <2>3. w[0 + 1] = IF w[0] = NULL THEN NULL ELSE nx[w[0]]
    <3> HIDE DEF w
    <3>1. QED
      BY <2>1, WalkSteps DEF w
  <2>4. w[1] = h /\ nx[h] = h
    BY <1>1, <1>4, <2>2, <2>3, Different
  <2>5. Least(S) = 1
    <3>1. S \in SUBSET Nat /\ 1 \in S /\ \A k \in S : 1 <= k
      BY <1>2, <2>4
    <3> HIDE DEF S
    <3>2. QED
      BY <3>1, LeastIs
  <2>6. QED
    BY <1>1, <1>4, <2>4, <2>5 DEF RingTail
<1>5. CASE n > 1
  <2> DEFINE j == n - 1
  <2>1. j \in 0..n - 1 /\ j + 1 = n /\ j \in 1..NUMTHREADS
    BY <1>2, <1>5
  <2>2. w[j] = q[n]
    BY <1>3, <2>1
  <2>3. Least(S) = j
    <3>1. S \in SUBSET Nat /\ j \in S
      BY <1>1, <1>2, <2>1, <2>2
    <3>2. ASSUME NEW k \in S, k < j PROVE FALSE
      <4> DEFINE i == k + 1
      <4>1. k \in 0..n - 1 /\ i \in 1..n - 1 /\ i + 1 \in 1..n /\ 1 \in 1..n /\ i + 1 # 1
              /\ nx[w[k]] = h
        BY <1>2, <3>2
      <4>2. w[k] = q[i]
        BY <1>3, <4>1
      <4> HIDE DEF i, w
      <4>3. q[i + 1] = q[1]
        BY <1>1, <4>1, <4>2 DEF Chained
      <4>4. QED
        BY <1>1, <4>1, <4>3, Different
    <3>3. \A k \in S : j <= k
      BY <1>2, <3>2
    <3> HIDE DEF S, j
    <3>4. QED
      BY <3>1, <3>3, LeastIs
  <2>4. QED
    BY <2>2, <2>3 DEF RingTail
<1>6. n = 1 \/ n > 1
  <2> HIDE DEF n
  <2>1. QED
    BY <1>2
<1>7. QED
  BY <1>4, <1>5, <1>6

(* The element after which OS_Wait inserts. *)
LEMMA InsertionIs ==
  ASSUME NEW nx, NEW pv, NEW h, NEW q, IsList(nx, pv, h, q), h # NULL, NEW r, nx = r.next,
         priority \in [Threads -> Priorities], NEW p \in Priorities,
         priority[h] <= p
  PROVE  /\ K!WaitPosition(q, p) \in 2..Len(q) + 1
         /\ InsertionPoint(r, h, p) = q[K!WaitPosition(q, p) - 1]
<1> DEFINE w == Walk(nx, h)
           n == Len(q)
           Good(i) == i = n \/ (priority[q[i]] <= p /\ priority[q[i + 1]] > p)
           T == {i \in 1..n : Good(i)}
           S == {k \in 0..NUMTHREADS - 1 :
                  /\ w[k] # NULL
                  /\ \/ nx[w[k]] = NULL
                     \/ priority[w[k]] <= p /\ priority[nx[w[k]]] > p}
<1>1. q # <<>> /\ Sequence(q) /\ Chained(nx, pv, q) /\ h = q[1] /\ nx[q[n]] = NULL
  BY DEF IsList
<1>2. n \in Nat /\ n >= 1 /\ n <= NUMTHREADS /\ NUMTHREADS \in Nat
  BY <1>1, Different, NotLonger, Sizes
<1>3. \A k \in 0..n - 1 : w[k] = q[k + 1]
  BY <1>1, ChainWalk
<1>4. PICK m \in T : \A i \in T : m <= i
  <2>1. T \in SUBSET Nat /\ n \in T
    BY <1>2
  <2> HIDE DEF T
  <2>2. QED
    BY <2>1, ListsAssumption, K!LeastExists
<1>5. m \in 1..n /\ Good(m) /\ \A i \in 1..n : i < m => ~Good(i)
  BY <1>2, <1>4
<1>6. \A i \in 1..n : i # n => i \in 1..n - 1 /\ i + 1 \in 1..n
  BY <1>2
<1>7. \A i \in 1..n : q[i] \in Threads /\ q[i] # NULL
  BY <1>1, Different
<1>8. \A i \in 1..n : i # n => nx[q[i]] = q[i + 1]
  BY <1>1, <1>6 DEF Chained
<1>9. priority \in [Threads -> Int] /\ p \in Int
  BY DEF Priorities
<1> DEFINE j == m - 1
<1>10. Least(S) = j
  <2>1. ASSUME NEW k \in 0..n - 1
        PROVE  k \in S <=> Good(k + 1)
    <3> DEFINE i == k + 1
    <3>1. i \in 1..n /\ w[k] = q[i] /\ k \in 0..NUMTHREADS - 1
      BY <1>2, <1>3
    <3> HIDE DEF i, w, n
    <3>2. k \in S <=> (nx[q[i]] = NULL \/ (priority[q[i]] <= p /\ priority[nx[q[i]]] > p))
      BY <1>7, <3>1
    <3>3. i # n => nx[q[i]] = q[i + 1] /\ q[i + 1] # NULL
      BY <1>6, <1>7, <1>8, <3>1
    <3>4. i = n => nx[q[i]] = NULL
      BY <1>1
    <3> HIDE DEF S
    <3>5. QED
      BY <3>2, <3>3, <3>4 DEF i
  <2>2. S \in SUBSET Nat
    BY <1>2
  <2>3. j \in 0..n - 1 /\ j + 1 = m
    BY <1>2, <1>5
  <2> HIDE DEF S, j, Good
  <2>4. j \in S
    BY <1>5, <2>1, <2>3
  <2>5. ASSUME NEW k \in S, k < j PROVE FALSE
    <3>1. k \in 0..n - 1 /\ k + 1 \in 1..n /\ k + 1 < m
      BY <1>2, <2>2, <2>3, <2>5
    <3>2. QED
      BY <1>5, <2>1, <3>1
  <2>6. \A k \in S : j <= k
    BY <2>2, <2>3, <2>5
  <2>7. QED
    BY <2>2, <2>4, <2>6, LeastIs
<1>11. InsertionPoint(r, h, p) = q[m]
  <2>1. j \in 0..n - 1 /\ j + 1 = m
    BY <1>2, <1>5
  <2>2. w[j] = q[m]
    BY <1>3, <2>1
  <2>3. InsertionPoint(r, h, p) = w[Least(S)]
    BY Zenon DEF InsertionPoint
  <2>4. QED
    BY <1>10, <2>2, <2>3
<1> DEFINE I == K!Slots(q, p)
<1>12. I = {k \in 1..n : p < priority[q[k]] /\ (k > 1 => priority[q[k - 1]] <= p)}
  BY DEF K!Slots
<1>13. \A k \in I : k \in 2..n /\ k - 1 \in 1..n /\ k - 1 # n /\ (k - 1) + 1 = k /\ Good(k - 1)
  <2>1. ASSUME NEW k \in I PROVE k > 1
    BY <1>1, <1>2, <1>7, <1>9, <1>12, <2>1
  <2>2. ASSUME NEW k \in I PROVE k \in 2..n /\ k - 1 \in 1..n /\ k - 1 # n /\ (k - 1) + 1 = k
    BY <1>2, <1>12, <2>1, <2>2
  <2>3. ASSUME NEW k \in I PROVE Good(k - 1)
    <3> DEFINE i == k - 1
    <3>1. i + 1 = k /\ i \in 1..n /\ k \in 1..n /\ p < priority[q[k]] /\ priority[q[i]] <= p
      BY <1>12, <2>1, <2>2, <2>3
    <3>2. QED
      BY <1>7, <1>9, <3>1
  <2>4. QED
    BY <2>2, <2>3
<1>14. K!WaitPosition(q, p) = m + 1
  <2>1. CASE m = n
    <3>1. \A k \in I : FALSE
      BY <1>5, <1>13, <2>1, <1>2
    <3>2. QED
      BY <2>1, <3>1 DEF K!WaitPosition
  <2>2. CASE m # n
    <3> DEFINE k == m + 1
    <3>1. k \in I
      <4>1. k \in 1..n /\ k - 1 = m
        BY <1>2, <1>5, <2>2
      <4>2. priority[q[m]] <= p /\ priority[q[k]] > p
        BY <1>5, <2>2
      <4>3. priority[q[k]] \in Int
        BY <1>7, <1>9, <4>1
      <4> HIDE DEF k
      <4>4. QED
        BY <1>9, <1>12, <4>1, <4>2, <4>3
    <3>2. ASSUME NEW x \in I PROVE k <= x
      <4>1. x \in 2..n /\ x - 1 \in 1..n /\ Good(x - 1)
        BY <1>13
      <4> HIDE DEF Good, I
      <4>2. ~(x - 1 < m)
        BY <1>5, <4>1
      <4>3. QED
        BY <1>2, <1>5, <4>1, <4>2
    <3>3. I \in SUBSET Nat
      BY <1>2, <1>12
    <3> HIDE DEF I, k
    <3>4. K!Least(I) = k
      <4>1. \A x \in I : (\A y \in I : x <= y) => x = k
        BY <3>1, <3>2, <3>3
      <4>2. QED
        BY <3>1, <3>2, <4>1 DEF K!Least
    <3>5. QED
      BY <3>1, <3>4 DEF K!WaitPosition, I, k
  <2>3. QED
    BY <2>1, <2>2
<1>15. QED
  BY <1>2, <1>5, <1>11, <1>14

-----------------------------------------------------------------------------
(* What the pointer surgery does to one ring or list.                      *)

In(t, q) == t \in K!ToSet(q)

LEMMA InIs ==
  ASSUME NEW q, Sequence(q), NEW t
  PROVE  In(t, q) <=> \E i \in 1..Len(q) : q[i] = t
  BY ListsAssumption, K!ToSetElement DEF In, Sequence

LEMMA RingFrame ==
  ASSUME NEW nx, NEW pv, NEW h, NEW q, IsRing(nx, pv, h, q), NEW nx2, NEW pv2,
         \A t \in Threads : In(t, q) => nx2[t] = nx[t] /\ pv2[t] = pv[t]
  PROVE  IsRing(nx2, pv2, h, q)
<1>1. \A i \in 1..Len(q) : nx2[q[i]] = nx[q[i]] /\ pv2[q[i]] = pv[q[i]]
  BY Different, InIs DEF IsRing
<1>2. \A i \in 1..Len(q) - 1 : i \in 1..Len(q) /\ i + 1 \in 1..Len(q)
  BY Different DEF IsRing
<1>3. q # <<>> => 1 \in 1..Len(q) /\ Len(q) \in 1..Len(q)
  BY Different DEF IsRing
<1>4. QED
  BY <1>1, <1>2, <1>3 DEF IsRing, Chained

LEMMA ListFrame ==
  ASSUME NEW nx, NEW pv, NEW h, NEW q, IsList(nx, pv, h, q), NEW nx2, NEW pv2,
         \A t \in Threads : In(t, q) => nx2[t] = nx[t] /\ pv2[t] = pv[t]
  PROVE  IsList(nx2, pv2, h, q)
<1>1. \A i \in 1..Len(q) : nx2[q[i]] = nx[q[i]] /\ pv2[q[i]] = pv[q[i]]
  BY Different, InIs DEF IsList
<1>2. \A i \in 1..Len(q) - 1 : i \in 1..Len(q) /\ i + 1 \in 1..Len(q)
  BY Different DEF IsList
<1>3. q # <<>> => 1 \in 1..Len(q) /\ Len(q) \in 1..Len(q)
  BY Different DEF IsList
<1>4. QED
  BY <1>1, <1>2, <1>3 DEF IsList, Chained

Fields == [Threads -> Nodes]

LEMMA FirstInRing ==
  ASSUME NEW nx \in Fields, NEW pv \in Fields, NEW t \in Threads
  PROVE  IsRing([nx EXCEPT ![t] = t], [pv EXCEPT ![t] = t], t, Append(<<>>, t))
<1> DEFINE q == Append(<<>>, t)
<1>1. q \in Seq(Threads) /\ Len(q) = 1 /\ q[1] = t /\ q # <<>>
  OBVIOUS
<1> HIDE DEF q
<1>2. Sequence(q)
  BY <1>1, ListsAssumption, K!InjectiveElements DEF Sequence
<1>3. QED
  BY <1>1, <1>2 DEF IsRing, Chained, Fields, q

LEMMA LastInRing ==
  ASSUME NEW nx \in Fields, NEW pv \in Fields, NEW q, NEW h, IsRing(nx, pv, h, q), q # <<>>,
         NEW t \in Threads, ~In(t, q), NEW last, last = q[Len(q)]
  PROVE  IsRing([nx EXCEPT ![last] = t, ![t] = h], [pv EXCEPT ![t] = last, ![h] = t],
                h, Append(q, t))
<1> DEFINE r == Append(q, t)
           nx2 == [nx EXCEPT ![last] = t, ![t] = h]
           pv2 == [pv EXCEPT ![t] = last, ![h] = t]
           n == Len(q)
<1>1. /\ Sequence(q) /\ Chained(nx, pv, q) /\ h = q[1] /\ q \in Seq(Threads)
      /\ n \in Nat /\ n >= 1
      /\ \A i \in 1..n : q[i] \in Threads /\ q[i] # t
      /\ \A i, j \in 1..n : q[i] = q[j] => i = j
  BY Different, InIs DEF IsRing
<1>2. r \in Seq(Threads) /\ Len(r) = n + 1 /\ r # <<>> /\ r[n + 1] = t
        /\ \A i \in 1..n : r[i] = q[i]
  BY <1>1
<1>3. Sequence(r)
  BY <1>1, ListsAssumption, K!AppendLemma DEF Sequence, In
<1>4. 1 \in 1..n /\ n \in 1..n /\ h \in Threads /\ last \in Threads /\ h # t /\ last # t
  BY <1>1
<1>5. /\ nx2[last] = t /\ nx2[t] = h
      /\ \A u \in Threads : u # last /\ u # t => nx2[u] = nx[u]
      /\ pv2[h] = t /\ pv2[t] = last
      /\ \A u \in Threads : u # h /\ u # t => pv2[u] = pv[u]
  BY <1>4 DEF Fields
<1> HIDE DEF r, nx2, pv2
<1>6. ASSUME NEW i \in 1..n + 1 - 1 PROVE nx2[r[i]] = r[i + 1] /\ pv2[r[i + 1]] = r[i]
  <2>1. CASE i = n
    BY <1>1, <1>2, <1>4, <1>5, <2>1
  <2>2. CASE i # n
    <3> DEFINE j == i + 1
    <3>1. i \in 1..n - 1 /\ i \in 1..n /\ j \in 1..n /\ j # 1
      BY <1>1, <2>2
    <3>2. nx[q[i]] = q[j] /\ pv[q[j]] = q[i]
      BY <1>1, <3>1 DEF Chained
    <3> HIDE DEF j, n
    <3>3. q[i] # last /\ q[i] # t /\ q[j] # h /\ q[j] # t /\ q[i] \in Threads /\ q[j] \in Threads
      BY <1>1, <1>4, <2>2, <3>1 DEF n
    <3>4. nx2[q[i]] = q[j] /\ pv2[q[j]] = q[i]
      BY <1>5, <3>2, <3>3
    <3>5. QED
      BY <1>2, <3>1, <3>4 DEF j
  <2>3. QED
    BY <2>1, <2>2
<1>7. Chained(nx2, pv2, r)
  BY <1>2, <1>6 DEF Chained
<1>8. r[1] = h /\ r[Len(r)] = t
  BY <1>1, <1>2, <1>4
<1>9. IsRing(nx2, pv2, h, r)
  BY <1>2, <1>3, <1>5, <1>7, <1>8 DEF IsRing
<1>10. QED
  BY <1>9 DEF r, nx2, pv2

LEMMA RingNeighbours ==
  ASSUME NEW nx, NEW pv, NEW h, NEW q, IsRing(nx, pv, h, q), NEW k \in 1..Len(q)
  PROVE  /\ nx[q[k]] = IF k = Len(q) THEN q[1] ELSE q[k + 1]
         /\ pv[q[k]] = IF k = 1 THEN q[Len(q)] ELSE q[k - 1]
<1> DEFINE n == Len(q)
           j == k - 1
<1>1. n \in Nat /\ n >= 1 /\ q # <<>> /\ k \in 1..n
  BY Different DEF IsRing
<1>2. k # n => k \in 1..n - 1
  BY <1>1
<1>3. k # 1 => j \in 1..n - 1 /\ j + 1 = k
  BY <1>1
<1> HIDE DEF n, j
<1>4. k # 1 => pv[q[k]] = q[j]
  BY <1>3 DEF IsRing, Chained, n
<1>5. k # n => nx[q[k]] = q[k + 1]
  BY <1>2 DEF IsRing, Chained, n
<1>6. QED
  BY <1>1, <1>4, <1>5 DEF IsRing, n, j

LEMMA AloneInRing ==
  ASSUME NEW nx, NEW pv, NEW h, NEW q, IsRing(nx, pv, h, q), NEW k \in 1..Len(q)
  PROVE  nx[q[k]] = q[k] <=> Len(q) = 1
<1>1. Len(q) \in Nat /\ \A i, j \in 1..Len(q) : q[i] = q[j] => i = j
  BY Different DEF IsRing
<1>2. nx[q[k]] = IF k = Len(q) THEN q[1] ELSE q[k + 1]
  BY RingNeighbours
<1>3. CASE k = Len(q)
  BY <1>1, <1>2, <1>3
<1>4. CASE k # Len(q)
  <2>1. k + 1 \in 1..Len(q) /\ k + 1 # k /\ Len(q) # 1
    BY <1>1, <1>4
  <2>2. QED
    BY <1>1, <1>2, <1>4, <2>1
<1>5. QED
  BY <1>3, <1>4

LEMMA RemovedFromRing ==
  ASSUME NEW nx \in Fields, NEW pv \in Fields, NEW h, NEW q, IsRing(nx, pv, h, q),
         NEW k \in 1..Len(q), NEW t, t = q[k], nx[t] # t
  PROVE  IsRing([nx EXCEPT ![pv[t]] = nx[t], ![t] = NULL],
                [pv EXCEPT ![nx[t]] = pv[t], ![t] = NULL],
                IF h = t THEN nx[t] ELSE h, K!RemoveAt(q, k))
<1> DEFINE r == K!RemoveAt(q, k)
           n == Len(q)
           a == pv[t]
           b == nx[t]
           nx2 == [nx EXCEPT ![a] = b, ![t] = NULL]
           pv2 == [pv EXCEPT ![b] = a, ![t] = NULL]
           h2 == IF h = t THEN b ELSE h
           last == IF k = n THEN n - 1 ELSE n
           first == IF k = 1 THEN 2 ELSE 1
           before == IF k = 1 THEN n ELSE k - 1
           after == IF k = n THEN 1 ELSE k + 1
<1>1. /\ Sequence(q) /\ q # <<>> /\ h = q[1] /\ q \in Seq(Threads) /\ K!IsInjective(q)
      /\ n \in Nat /\ n >= 1
      /\ \A i \in 1..n : q[i] \in Threads
      /\ \A i, j \in 1..n : q[i] = q[j] => i = j
  BY Different DEF IsRing, Sequence
<1>2. n >= 2 /\ k \in 1..n /\ k \in Int
  <2>1. nx[q[k]] # q[k]
    OBVIOUS
  <2>2. n # 1
    BY <2>1, AloneInRing
  <2>3. n \in Nat /\ n >= 1 /\ k \in 1..n
    BY <1>1
  <2> HIDE DEF n
  <2>4. QED
    BY <2>2, <2>3
<1>3. /\ last \in 1..n /\ first \in 1..n /\ before \in 1..n /\ after \in 1..n
      /\ before # k /\ after # k /\ last # k /\ first # k /\ 1 \in 1..n
  BY <1>1, <1>2
<1>4. a = q[before] /\ b = q[after]
  BY RingNeighbours
<1>5. /\ r \in Seq(Threads) /\ Len(r) = n - 1
      /\ \A j \in 1..n - 1 : r[j] = IF j < k THEN q[j] ELSE q[j + 1]
      /\ Sequence(r)
  BY <1>1, ListsAssumption, K!RemoveAtLemma, K!RemoveAtSet DEF Sequence
<1> HIDE DEF last, first, before, after, a, b
<1>6. /\ a \in Threads /\ b \in Threads /\ t \in Threads /\ a # t /\ b # t
      /\ \A i \in 1..n : (q[i] = t <=> i = k) /\ (q[i] = a <=> i = before)
           /\ (q[i] = b <=> i = after)
  BY <1>1, <1>2, <1>3, <1>4
<1>7. /\ nx2[a] = b /\ pv2[b] = a
      /\ \A u \in Threads : u # a /\ u # t => nx2[u] = nx[u]
      /\ \A u \in Threads : u # b /\ u # t => pv2[u] = pv[u]
  BY <1>6 DEF Fields
<1> HIDE DEF nx2, pv2, r
<1>8. \A i \in 1..n : /\ i # before /\ i # k => nx2[q[i]] = nx[q[i]]
                      /\ i # after /\ i # k => pv2[q[i]] = pv[q[i]]
  <2> HIDE DEF n
  <2>1. QED
    BY <1>1, <1>6, <1>7
<1>9. ASSUME NEW i \in 1..n - 1 - 1 PROVE nx2[r[i]] = r[i + 1] /\ pv2[r[i + 1]] = r[i]
  <2>1. CASE i + 1 < k
    <3> DEFINE j == i + 1
    <3>1. i \in 1..n - 1 /\ i \in 1..n /\ j \in 1..n /\ i # k /\ j # k /\ i # before /\ j # after
          /\ j \in 1..n - 1 /\ i < k /\ j < k
      BY <1>1, <1>2, <2>1 DEF before, after
    <3>2. r[i] = q[i] /\ r[j] = q[j] /\ nx[q[i]] = q[j] /\ pv[q[j]] = q[i]
      BY <1>5, <3>1 DEF IsRing, Chained
    <3> HIDE DEF j, n
    <3>3. nx2[q[i]] = nx[q[i]] /\ pv2[q[j]] = pv[q[j]]
      BY <1>8, <3>1
    <3>4. nx2[r[i]] = r[j] /\ pv2[r[j]] = r[i]
      BY <3>2, <3>3
    <3>5. QED
      BY <3>4 DEF j
  <2>2. CASE i + 1 = k
    <3> DEFINE j == i + 1
    <3>1. i \in 1..n - 1 /\ i < k /\ j \in 1..n - 1 /\ ~(j < k) /\ before = i /\ after = j + 1
      BY <1>1, <1>2, <2>2 DEF before, after
    <3>2. r[i] = a /\ r[j] = b
      BY <1>4, <1>5, <3>1
    <3>3. QED
      BY <1>7, <3>2
  <2>3. CASE i + 1 > k
    <3> DEFINE j == i + 1
               l == j + 1
    <3>1. j \in 1..n - 1 /\ i \in 1..n - 1 /\ j \in 1..n /\ l \in 1..n /\ j # k /\ l # k
          /\ j # before /\ l # after /\ ~(i < k) /\ ~(j < k)
      BY <1>1, <1>2, <2>3 DEF before, after
    <3>2. r[i] = q[j] /\ r[j] = q[l] /\ nx[q[j]] = q[l] /\ pv[q[l]] = q[j]
      BY <1>5, <3>1 DEF IsRing, Chained
    <3> HIDE DEF l, n
    <3>3. nx2[q[j]] = nx[q[j]] /\ pv2[q[l]] = pv[q[l]]
      <4> HIDE DEF j
      <4>1. QED
        BY <1>8, <3>1
    <3>4. QED
      BY <3>2, <3>3
  <2>4. QED
    BY <1>2, <2>1, <2>2, <2>3
<1>10. Chained(nx2, pv2, r)
  BY <1>5, <1>9 DEF Chained
<1>11. r[1] = q[first] /\ r[Len(r)] = q[last] /\ r # <<>>
  BY <1>1, <1>2, <1>5 DEF first, last
<1>12. h2 = q[first]
  <2>1. k = 1 <=> h = t
    BY <1>1, <1>3, <1>6
  <2>2. k = 1 => after = 2
    BY <1>2 DEF after
  <2>3. QED
    BY <1>1, <1>4, <2>1, <2>2 DEF first
<1>13. nx2[q[last]] = q[first]
  <2>1. CASE k = n
    <3>1. before = last /\ after = first
      BY <1>2, <2>1 DEF before, after, last, first
    <3>2. QED
      BY <1>4, <1>7, <3>1
  <2>2. CASE k = 1
    <3>1. before = last /\ after = first
      BY <1>2, <2>2 DEF before, after, last, first
    <3>2. QED
      BY <1>4, <1>7, <3>1
  <2>3. CASE k # 1 /\ k # n
    <3>1. last = n /\ first = 1 /\ last # before /\ last # k /\ last \in 1..n
      BY <1>1, <1>2, <1>3, <2>3 DEF last, first, before
    <3>2. nx[q[n]] = q[1]
      BY <1>1 DEF IsRing
    <3> HIDE DEF n
    <3>3. QED
      BY <1>8, <3>1, <3>2
  <2>4. QED
    BY <2>1, <2>2, <2>3
<1>14. pv2[q[first]] = q[last]
  <2>1. CASE k = n
    <3>1. before = last /\ after = first
      BY <1>2, <2>1 DEF before, after, last, first
    <3>2. QED
      BY <1>4, <1>7, <3>1
  <2>2. CASE k = 1
    <3>1. before = last /\ after = first
      BY <1>2, <2>2 DEF before, after, last, first
    <3>2. QED
      BY <1>4, <1>7, <3>1
  <2>3. CASE k # 1 /\ k # n
    <3>1. last = n /\ first = 1 /\ first # after /\ first # k /\ first \in 1..n
      BY <1>1, <1>2, <1>3, <2>3 DEF last, first, after
    <3>2. pv[q[1]] = q[n]
      BY <1>1 DEF IsRing
    <3> HIDE DEF n
    <3>3. QED
      BY <1>8, <3>1, <3>2
  <2>4. QED
    BY <2>1, <2>2, <2>3
<1>15. IsRing(nx2, pv2, h2, r)
  BY <1>5, <1>10, <1>11, <1>12, <1>13, <1>14 DEF IsRing
<1>16. QED
  BY <1>15 DEF nx2, pv2, h2, r, a, b

LEMMA AloneInList ==
  ASSUME NEW nx \in Fields, NEW pv \in Fields, NEW t \in Threads
  PROVE  IsList([nx EXCEPT ![t] = NULL], [pv EXCEPT ![t] = NULL], t, K!InsertAt(<<>>, 1, t))
<1> DEFINE e == <<>>
           q == K!InsertAt(e, 1, t)
<1>1. e \in Seq(Threads) /\ Len(e) = 0 /\ 1 \in 1..Len(e) + 1
  OBVIOUS
<1> HIDE DEF e
<1>0. K!IsInjective(e) /\ ~In(t, e)
  <2>1. \A i \in 1..Len(e) : FALSE
    BY <1>1
  <2>2. K!IsInjective(e)
    BY <1>1, <2>1, ListsAssumption, K!InjectiveElements
  <2>3. ~In(t, e)
    BY <1>1, <2>1, <2>2, InIs DEF Sequence
  <2>4. QED
    BY <2>2, <2>3
<1>2. q \in Seq(Threads) /\ Len(q) = 1 /\ q[1] = t /\ K!IsInjective(q)
  <2> DEFINE k == 1
  <2>1. k \in 1..Len(e) + 1
    BY <1>1
  <2> HIDE DEF k
  <2>2. /\ K!InsertAt(e, k, t) \in Seq(Threads) /\ Len(K!InsertAt(e, k, t)) = Len(e) + 1
        /\ \A j \in 1..Len(e) + 1 : K!InsertAt(e, k, t)[j] =
             IF j < k THEN e[j] ELSE IF j = k THEN t ELSE e[j - 1]
    <3>1. e \in Seq(Threads) /\ t \in Threads /\ Len(e) \in Nat
      BY <1>1
    <3> HIDE DEF e
    <3>2. /\ K!InsertAt(e, k, t) \in Seq(Threads)
          /\ Len(K!InsertAt(e, k, t)) = Len(e) + 1
      BY ONLY <2>1, <3>1, ListsAssumption, K!InsertAtLemma
    <3>3. ASSUME NEW j \in 1..Len(e) + 1
          PROVE  K!InsertAt(e, k, t)[j] = IF j < k THEN e[j] ELSE IF j = k THEN t ELSE e[j - 1]
      BY ONLY <2>1, <3>1, <3>3, ListsAssumption, K!InsertAtLemma
    <3>4. QED
      BY <3>2, <3>3
  <2>3. K!IsInjective(K!InsertAt(e, k, t))
    BY <1>0, <1>1, <2>1, ListsAssumption, K!InsertAtSet DEF In
  <2>4. K!InsertAt(e, k, t)[k] = t
    BY <1>1, <2>1, <2>2 DEF k
  <2>5. QED
    BY <1>1, <2>2, <2>3, <2>4 DEF k
<1> HIDE DEF q
<1>3. Sequence(q) /\ q # <<>>
  BY <1>2 DEF Sequence
<1>4. QED
  BY <1>2, <1>3 DEF IsList, Chained, Fields, q, e

LEMMA ListNeighbours ==
  ASSUME NEW nx, NEW pv, NEW h, NEW q, IsList(nx, pv, h, q), NEW k \in 1..Len(q)
  PROVE  /\ nx[q[k]] = IF k = Len(q) THEN NULL ELSE q[k + 1]
         /\ pv[q[k]] = IF k = 1 THEN NULL ELSE q[k - 1]
<1> DEFINE n == Len(q)
           j == k - 1
<1>1. n \in Nat /\ n >= 1 /\ q # <<>> /\ k \in 1..n
  BY Different DEF IsList
<1>2. k # n => k \in 1..n - 1
  BY <1>1
<1>3. k # 1 => j \in 1..n - 1 /\ j + 1 = k
  BY <1>1
<1> HIDE DEF n, j
<1>4. k # 1 => pv[q[k]] = q[j]
  BY <1>3 DEF IsList, Chained, n
<1>5. k # n => nx[q[k]] = q[k + 1]
  BY <1>2 DEF IsList, Chained, n
<1>6. QED
  BY <1>1, <1>4, <1>5 DEF IsList, n, j

(* A thread linked between places k - 1 and k, either of which may be off  *)
(* the end: the three cases of OS_Wait.                                    *)
LEMMA InsertedInList ==
  ASSUME NEW nx \in Fields, NEW pv \in Fields, NEW h, NEW q, IsList(nx, pv, h, q), q # <<>>,
         NEW k \in 1..Len(q) + 1, NEW t \in Threads, ~In(t, q),
         NEW nx2, NEW pv2,
         \A u \in Threads : u # t /\ ~(k > 1 /\ u = q[k - 1]) => nx2[u] = nx[u],
         \A u \in Threads : u # t /\ ~(k <= Len(q) /\ u = q[k]) => pv2[u] = pv[u],
         k > 1 => nx2[q[k - 1]] = t,
         k <= Len(q) => pv2[q[k]] = t,
         nx2[t] = IF k <= Len(q) THEN q[k] ELSE NULL,
         pv2[t] = IF k > 1 THEN q[k - 1] ELSE NULL
  PROVE  IsList(nx2, pv2, IF k = 1 THEN t ELSE h, K!InsertAt(q, k, t))
<1> DEFINE r == K!InsertAt(q, k, t)
           n == Len(q)
<1>1. /\ Sequence(q) /\ q # <<>> /\ h = q[1] /\ q \in Seq(Threads) /\ K!IsInjective(q)
      /\ n \in Nat /\ n >= 1 /\ k \in 1..n + 1
      /\ \A i \in 1..n : q[i] \in Threads /\ q[i] # t
      /\ \A i, j \in 1..n : q[i] = q[j] => i = j
  BY Different, InIs DEF IsList, Sequence
<1>2. /\ r \in Seq(Threads) /\ Len(r) = n + 1
      /\ \A j \in 1..n + 1 : r[j] = IF j < k THEN q[j] ELSE IF j = k THEN t ELSE q[j - 1]
  BY <1>1, ListsAssumption, K!InsertAtLemma
<1>3. Sequence(r)
  BY <1>1, <1>2, ListsAssumption, K!InsertAtSet DEF Sequence, In
<1> HIDE DEF r
<1>4. ASSUME NEW i \in 1..n + 1 - 1 PROVE nx2[r[i]] = r[i + 1] /\ pv2[r[i + 1]] = r[i]
  <2> DEFINE j == i + 1
             l == i - 1
  <2>1. CASE j < k
    <3>1. i \in 1..n - 1 /\ i \in 1..n /\ j \in 1..n /\ i \in 1..n + 1 /\ j \in 1..n + 1 /\ i < k
          /\ (k > 1 => k - 1 \in 1..n /\ i # k - 1) /\ (k <= n => k \in 1..n /\ j # k)
      BY <1>1, <2>1
    <3>2. r[i] = q[i] /\ r[j] = q[j]
      BY <1>2, <2>1, <3>1
    <3>3. nx[q[i]] = q[j] /\ pv[q[j]] = q[i]
      BY <3>1 DEF IsList, Chained
    <3> HIDE DEF n, j
    <3>4. nx2[q[i]] = nx[q[i]] /\ pv2[q[j]] = pv[q[j]]
      BY <1>1, <3>1 DEF n
    <3>5. QED
      BY <3>2, <3>3, <3>4 DEF j
  <2>2. CASE j = k
    <3>1. k > 1 /\ k - 1 = i /\ i < k /\ i \in 1..n + 1 /\ j \in 1..n + 1
      BY <1>1, <2>2
    <3>2. r[i] = q[i] /\ r[j] = t
      BY <1>2, <2>2, <3>1
    <3>3. QED
      BY <3>1, <3>2
  <2>3. CASE i = k
    <3>1. k <= n /\ ~(j < k) /\ j # k /\ i \in 1..n + 1 /\ j \in 1..n + 1 /\ j - 1 = i
      BY <1>1, <2>3
    <3>2. r[i] = t /\ r[j] = q[k]
      BY <1>2, <2>3, <3>1
    <3>3. QED
      BY <2>3, <3>1, <3>2
  <2>4. CASE i > k
    <3>1. /\ l \in 1..n - 1 /\ l \in 1..n /\ i \in 1..n /\ i \in 1..n + 1 /\ j \in 1..n + 1
          /\ ~(i < k) /\ i # k /\ ~(j < k) /\ j # k /\ j - 1 = i /\ l + 1 = i
          /\ (k > 1 => k - 1 \in 1..n /\ l # k - 1) /\ (k <= n => k \in 1..n /\ i # k)
      BY <1>1, <2>4
    <3>2. r[i] = q[l] /\ r[j] = q[i]
      <4>1. i - 1 = l
        OBVIOUS
      <4> HIDE DEF j, l, n
      <4>2. r[i] = q[i - 1] /\ r[j] = q[j - 1]
        BY <1>2, <3>1
      <4>3. QED
        BY <3>1, <4>1, <4>2
    <3>3. nx[q[l]] = q[i] /\ pv[q[i]] = q[l]
      BY <3>1 DEF IsList, Chained
    <3> HIDE DEF n, l
    <3>4. nx2[q[l]] = nx[q[l]] /\ pv2[q[i]] = pv[q[i]]
      BY <1>1, <3>1 DEF n
    <3>5. QED
      BY <3>2, <3>3, <3>4
  <2>5. QED
    BY <1>1, <2>1, <2>2, <2>3, <2>4
<1>5. Chained(nx2, pv2, r)
  BY <1>2, <1>4 DEF Chained
<1>6. r # <<>> /\ r[1] = IF k = 1 THEN t ELSE h
  BY <1>1, <1>2
<1>7. nx2[r[n + 1]] = NULL
  <2>1. CASE k = n + 1
    BY <1>1, <1>2, <2>1
  <2>2. CASE k # n + 1
    <3>1. /\ k <= n /\ ~(n + 1 < k) /\ n + 1 # k /\ (n + 1) - 1 = n /\ n \in 1..n
               /\ n + 1 \in 1..n + 1
          /\ (k > 1 => k - 1 \in 1..n /\ n # k - 1)
      BY <1>1, <2>2
    <3>2. r[n + 1] = q[n]
      BY <1>2, <3>1
    <3>3. nx[q[n]] = NULL
      BY <1>1 DEF IsList
    <3> HIDE DEF n
    <3>4. nx2[q[n]] = nx[q[n]]
      BY <1>1, <3>1 DEF n
    <3>5. QED
      BY <3>2, <3>3, <3>4
  <2>3. QED
    BY <2>1, <2>2
<1>8. pv2[r[1]] = NULL
  <2>1. CASE k = 1
    BY <1>1, <1>6, <2>1
  <2>2. CASE k # 1
    <3>1. 1 \in 1..n /\ (k <= n => k \in 1..n)
      BY <1>1
    <3>2. pv[q[1]] = NULL
      BY <1>1 DEF IsList
    <3>3. pv2[q[1]] = pv[q[1]]
      <4> HIDE DEF n
      <4>1. QED
        BY <1>1, <2>2, <3>1 DEF n
    <3>4. QED
      BY <1>1, <1>6, <2>2, <3>2, <3>3
  <2>3. QED
    BY <2>1, <2>2
<1>9. IsList(nx2, pv2, IF k = 1 THEN t ELSE h, r)
  BY <1>2, <1>3, <1>5, <1>6, <1>7, <1>8 DEF IsList
<1>10. QED
  BY <1>9 DEF r

(* OS_Signal: the second of the list becomes its head.                     *)
LEMMA HeadTaken ==
  ASSUME NEW nx \in Fields, NEW pv \in Fields, NEW h, NEW q, IsList(nx, pv, h, q), q # <<>>,
         NEW pv2, nx[h] = NULL => pv2 = pv, nx[h] # NULL => pv2 = [pv EXCEPT ![nx[h]] = NULL]
  PROVE  IsList(nx, pv2, nx[h], Tail(q))
<1> DEFINE r == Tail(q)
           n == Len(q)
<1>1. /\ Sequence(q) /\ h = q[1] /\ q \in Seq(Threads) /\ K!IsInjective(q)
      /\ n \in Nat /\ n >= 1 /\ 1 \in 1..n
      /\ \A i \in 1..n : q[i] \in Threads /\ q[i] # NULL
      /\ \A i, j \in 1..n : q[i] = q[j] => i = j
  BY Different DEF IsList, Sequence
<1>2. r \in Seq(Threads) /\ Len(r) = n - 1 /\ \A i \in 1..n - 1 : r[i] = q[i + 1]
  BY <1>1
<1>3. Sequence(r)
  BY <1>1, ListsAssumption, K!TailLemma DEF Sequence
<1> HIDE DEF r
<1>4. nx[h] = IF n = 1 THEN NULL ELSE q[2]
  <2>1. nx[q[1]] = IF 1 = n THEN NULL ELSE q[1 + 1]
    <3>1. CASE n = 1
      BY <1>1, <3>1 DEF IsList
    <3>2. CASE n # 1
      <4>1. 1 \in 1..n - 1
        <5>1. n \in Nat /\ n >= 1
          BY <1>1
        <5> HIDE DEF n
        <5>2. QED
          BY <3>2, <5>1
      <4>2. QED
        BY <3>2, <4>1 DEF IsList, Chained
    <3>3. QED
      BY <3>1, <3>2
  <2>2. QED
    BY <1>1, <2>1
<1>5. CASE n = 1
  <2>1. r = <<>>
    BY <1>2, <1>5
  <2>2. QED
    BY <1>2, <1>3, <1>4, <1>5, <2>1 DEF IsList, Chained, r
<1>6. CASE n # 1
  <2>1. 2 \in 1..n /\ n \in 1..n /\ n >= 2
    <3>1. n \in Nat /\ n >= 1
      BY <1>1
    <3> HIDE DEF n
    <3>2. QED
      BY <1>6, <3>1
  <2>2. nx[h] = q[2] /\ pv2 = [pv EXCEPT ![q[2]] = NULL] /\ q[2] \in Threads
    BY <1>1, <1>4, <1>6, <2>1
  <2>3. pv2[q[2]] = NULL /\ \A u \in Threads : u # q[2] => pv2[u] = pv[u]
    BY <2>2 DEF Fields
  <2>4. ASSUME NEW i \in 1..n - 1 - 1 PROVE nx[r[i]] = r[i + 1] /\ pv2[r[i + 1]] = r[i]
    <3> DEFINE j == i + 1
               l == j + 1
    <3>1. i \in 1..n - 1 /\ j \in 1..n - 1 /\ l \in 1..n /\ l # 2
      BY <1>1
    <3>2. r[i] = q[j] /\ r[j] = q[l] /\ nx[q[j]] = q[l] /\ pv[q[l]] = q[j]
      BY <1>2, <3>1 DEF IsList, Chained
    <3> HIDE DEF l, n
    <3>3. q[l] # q[2] /\ q[l] \in Threads
      BY <1>1, <2>1, <3>1
    <3>4. QED
      BY <2>3, <3>2, <3>3
  <2>5. Chained(nx, pv2, r)
    BY <1>2, <2>4 DEF Chained
  <2>6. r # <<>> /\ r[1] = q[2] /\ r[Len(r)] = q[n]
    BY <1>2, <2>1
  <2>7. nx[q[n]] = NULL
    BY DEF IsList
  <2>8. IsList(nx, pv2, nx[h], r)
    BY <1>3, <2>2, <2>3, <2>5, <2>6, <2>7 DEF IsList
  <2>9. QED
    BY <2>8 DEF r
<1>7. QED
  BY <1>5, <1>6

(* The scheduler: the ring is read from the successor of the thread at i.  *)
LEMMA RingTurned ==
  ASSUME NEW nx, NEW pv, NEW h, NEW q, IsRing(nx, pv, h, q), NEW i \in 1..Len(q)
  PROVE  IsRing(nx, pv, nx[q[i]], K!RotateTo(q, i))
<1> DEFINE r == K!RotateTo(q, i)
           n == Len(q)
           d == n - i
<1>1. /\ Sequence(q) /\ q # <<>> /\ q \in Seq(Threads) /\ K!IsInjective(q)
      /\ Chained(nx, pv, q) /\ nx[q[n]] = q[1] /\ pv[q[1]] = q[n]
  BY Different DEF IsRing, Sequence
<1>2. n \in Nat /\ n >= 1 /\ i \in 1..n
  BY Different DEF IsRing
<1>3. /\ r \in Seq(Threads) /\ Len(r) = n /\ K!IsInjective(r)
      /\ \A j \in 1..n : r[j] = IF j <= d THEN q[j + i] ELSE q[j - d]
  BY <1>1, ListsAssumption, K!RotationLemma DEF K!RotateTo
<1>4. Sequence(r)
  BY <1>3 DEF Sequence
<1> HIDE DEF r
<1>5. ASSUME NEW j \in 1..n - 1 PROVE nx[r[j]] = r[j + 1] /\ pv[r[j + 1]] = r[j]
  <2>1. j \in 1..n /\ j + 1 \in 1..n
    BY <1>2
  <2>2. CASE j < d
    <3> DEFINE a == j + i
    <3>1. a \in 1..n - 1 /\ j <= d /\ j + 1 <= d /\ (j + 1) + i = a + 1
      BY <1>2, <2>2
    <3>2. r[j] = q[a] /\ r[j + 1] = q[a + 1]
      BY <1>3, <2>1, <3>1
    <3> HIDE DEF a, n
    <3>3. nx[q[a]] = q[a + 1] /\ pv[q[a + 1]] = q[a]
      BY <1>1, <3>1 DEF Chained, n
    <3>4. QED
      BY <3>2, <3>3
  <2>3. CASE j = d
    <3>1. j <= d /\ ~(j + 1 <= d) /\ j + i = n /\ (j + 1) - d = 1
      BY <1>2, <2>3
    <3>2. r[j] = q[n] /\ r[j + 1] = q[1]
      BY <1>3, <2>1, <3>1
    <3>3. QED
      BY <1>1, <3>2
  <2>4. CASE j > d
    <3> DEFINE a == j - d
    <3>1. a \in 1..n - 1 /\ ~(j <= d) /\ ~(j + 1 <= d) /\ (j + 1) - d = a + 1
      BY <1>2, <2>4
    <3>2. r[j] = q[a] /\ r[j + 1] = q[a + 1]
      BY <1>3, <2>1, <3>1
    <3> HIDE DEF a, n
    <3>3. nx[q[a]] = q[a + 1] /\ pv[q[a + 1]] = q[a]
      BY <1>1, <3>1 DEF Chained, n
    <3>4. QED
      BY <3>2, <3>3
  <2>5. QED
    BY <1>2, <2>2, <2>3, <2>4
<1>6. r[1] = IF i = n THEN q[1] ELSE q[i + 1]
  <2>1. 1 \in 1..n /\ (i = n => ~(1 <= d) /\ 1 - d = 1) /\ (i # n => 1 <= d /\ 1 + i = i + 1)
    BY <1>2
  <2>2. QED
    BY <1>3, <2>1
<1>7. r[n] = q[i]
  <2>1. n \in 1..n /\ ~(n <= d) /\ n - d = i
    BY <1>2
  <2>2. QED
    BY <1>3, <2>1
<1>8. nx[q[i]] = r[1]
  BY <1>6, RingNeighbours
<1>9. pv[r[1]] = q[i]
  <2>1. CASE i = n
    BY <1>1, <1>6, <2>1
  <2>2. CASE i # n
    <3>1. i \in 1..n - 1
      BY <1>2, <2>2
    <3>2. QED
      BY <1>1, <1>6, <2>2, <3>1 DEF Chained
  <2>3. QED
    BY <2>1, <2>2
<1>10. Chained(nx, pv, r) /\ r # <<>>
  BY <1>2, <1>3, <1>5 DEF Chained
<1>11. IsRing(nx, pv, nx[q[i]], r)
  BY <1>3, <1>4, <1>7, <1>8, <1>9, <1>10 DEF IsRing
<1>12. QED
  BY <1>11 DEF r

-----------------------------------------------------------------------------
(* All rings and lists.                                                    *)

Unplaced(R, L, t) ==
  /\ \A p \in Priorities : ~In(t, R[p])
  /\ \A s \in Semaphores : ~In(t, L[s])

Apart(R, L) ==
  \A t \in Threads :
    /\ \A p \in Priorities : In(t, R[p]) => /\ \A r \in Priorities : In(t, R[r]) => r = p
                                            /\ \A s \in Semaphores : ~In(t, L[s])
    /\ \A s \in Semaphores : In(t, L[s]) => \A u \in Semaphores : In(t, L[u]) => u = s

Represents(m, bl, R, L) ==
  /\ m = [next |-> m.next, prev |-> m.prev, head |-> m.head]
  /\ m.next \in Fields /\ m.prev \in Fields
  /\ m.head = [p \in Priorities |-> m.head[p]]
  /\ bl = [s \in Semaphores |-> bl[s]]
  /\ R = [p \in Priorities |-> R[p]]
  /\ L = [s \in Semaphores |-> L[s]]
  /\ \A p \in Priorities : IsRing(m.next, m.prev, m.head[p], R[p])
  /\ \A s \in Semaphores : IsList(m.next, m.prev, bl[s], L[s])
  /\ Apart(R, L)

(* The ring q of p becomes q2; only the links of t and of q change. *)
RingEdited(m, m2, p, t, q, q2) ==
  /\ m2 = [next |-> m2.next, prev |-> m2.prev, head |-> m2.head]
  /\ m2.next \in Fields /\ m2.prev \in Fields
  /\ m2.head = [r \in Priorities |-> m2.head[r]]
  /\ \A r \in Priorities \ {p} : m2.head[r] = m.head[r]
  /\ \A u \in Threads : u # t /\ ~In(u, q) =>
       m2.next[u] = m.next[u] /\ m2.prev[u] = m.prev[u]
  /\ IsRing(m2.next, m2.prev, m2.head[p], q2)
  /\ \A u \in Threads : In(u, q2) => u = t \/ In(u, q)

(* One ring changes: the others are not touched. *)
LEMMA RingChanged ==
  ASSUME NEW m, NEW bl, NEW R, NEW L, Represents(m, bl, R, L),
         NEW p \in Priorities, NEW t \in Threads, NEW m2, NEW q,
         \A r \in Priorities \ {p} : ~In(t, R[r]),
         \A s \in Semaphores : ~In(t, L[s]),
         RingEdited(m, m2, p, t, R[p], q)
  PROVE  Represents(m2, bl, [R EXCEPT ![p] = q], L)
<1>0. /\ m2 = [next |-> m2.next, prev |-> m2.prev, head |-> m2.head]
      /\ m2.next \in Fields /\ m2.prev \in Fields
      /\ m2.head = [r \in Priorities |-> m2.head[r]]
      /\ \A r \in Priorities \ {p} : m2.head[r] = m.head[r]
      /\ \A u \in Threads : u # t /\ ~In(u, R[p]) =>
           m2.next[u] = m.next[u] /\ m2.prev[u] = m.prev[u]
      /\ IsRing(m2.next, m2.prev, m2.head[p], q)
      /\ \A u \in Threads : In(u, q) => u = t \/ In(u, R[p])
  BY DEF RingEdited
<1> USE <1>0
<1> DEFINE R2 == [R EXCEPT ![p] = q]
<1>1. R2 = [r \in Priorities |-> R2[r]] /\ R2[p] = q /\ \A r \in Priorities \ {p} : R2[r] = R[r]
  BY DEF Represents
<1> HIDE DEF R2
<1>2. ASSUME NEW r \in Priorities PROVE IsRing(m2.next, m2.prev, m2.head[r], R2[r])
  <2>1. CASE r = p
    BY <1>1, <2>1
  <2>2. CASE r # p
    <3>1. IsRing(m.next, m.prev, m.head[r], R[r])
      BY DEF Represents
    <3>2. ASSUME NEW u \in Threads, In(u, R[r])
          PROVE m2.next[u] = m.next[u] /\ m2.prev[u] = m.prev[u]
      <4>1. u # t /\ ~In(u, R[p])
        BY <2>2, <3>2 DEF Represents, Apart
      <4>2. QED
        BY <4>1
    <3>3. IsRing(m2.next, m2.prev, m.head[r], R[r])
      BY <3>1, <3>2, RingFrame
    <3>4. QED
      BY <1>1, <2>2, <3>3
  <2>3. QED
    BY <2>1, <2>2
<1>3. ASSUME NEW s \in Semaphores PROVE IsList(m2.next, m2.prev, bl[s], L[s])
  <2>1. IsList(m.next, m.prev, bl[s], L[s])
    BY DEF Represents
  <2>2. ASSUME NEW u \in Threads, In(u, L[s])
        PROVE m2.next[u] = m.next[u] /\ m2.prev[u] = m.prev[u]
    <3>1. u # t /\ ~In(u, R[p])
      BY <2>2 DEF Represents, Apart
    <3>2. QED
      BY <3>1
  <2>3. QED
    BY <2>1, <2>2, ListFrame
<1>4. Apart(R2, L)
  <2>1. ASSUME NEW u \in Threads, NEW r \in Priorities, In(u, R2[r])
        PROVE  /\ \A x \in Priorities : In(u, R2[x]) => x = r
               /\ \A s \in Semaphores : ~In(u, L[s])
    BY <1>1, <2>1 DEF Represents, Apart
  <2>2. ASSUME NEW u \in Threads, NEW s \in Semaphores, In(u, L[s])
        PROVE  \A x \in Semaphores : In(u, L[x]) => x = s
    BY <2>2 DEF Represents, Apart
  <2>3. QED
    BY <2>1, <2>2 DEF Apart
<1>5. Represents(m2, bl, R2, L)
  BY <1>1, <1>2, <1>3, <1>4 DEF Represents
<1>6. QED
  BY <1>5 DEF R2

(* The list q of s becomes q2; only the links of t and of q change. *)
ListEdited(m, m2, bl, bl2, s, t, q, q2) ==
  /\ m2 = [next |-> m2.next, prev |-> m2.prev, head |-> m.head]
  /\ m2.next \in Fields /\ m2.prev \in Fields
  /\ bl2 = [x \in Semaphores |-> bl2[x]]
  /\ \A x \in Semaphores \ {s} : bl2[x] = bl[x]
  /\ \A u \in Threads : u # t /\ ~In(u, q) =>
       m2.next[u] = m.next[u] /\ m2.prev[u] = m.prev[u]
  /\ IsList(m2.next, m2.prev, bl2[s], q2)
  /\ \A u \in Threads : In(u, q2) => u = t \/ In(u, q)

(* One list changes: the others are not touched. *)
LEMMA ListChanged ==
  ASSUME NEW m, NEW bl, NEW R, NEW L, Represents(m, bl, R, L),
         NEW s \in Semaphores, NEW t \in Threads, NEW m2, NEW bl2, NEW q,
         \A r \in Priorities : ~In(t, R[r]),
         \A x \in Semaphores \ {s} : ~In(t, L[x]),
         ListEdited(m, m2, bl, bl2, s, t, L[s], q)
  PROVE  Represents(m2, bl2, R, [L EXCEPT ![s] = q])
<1>0. /\ m2 = [next |-> m2.next, prev |-> m2.prev, head |-> m.head]
      /\ m2.next \in Fields /\ m2.prev \in Fields
      /\ bl2 = [x \in Semaphores |-> bl2[x]]
      /\ \A x \in Semaphores \ {s} : bl2[x] = bl[x]
      /\ \A u \in Threads : u # t /\ ~In(u, L[s]) =>
           m2.next[u] = m.next[u] /\ m2.prev[u] = m.prev[u]
      /\ IsList(m2.next, m2.prev, bl2[s], q)
      /\ \A u \in Threads : In(u, q) => u = t \/ In(u, L[s])
  BY DEF ListEdited
<1> USE <1>0
<1> DEFINE L2 == [L EXCEPT ![s] = q]
<1>1. L2 = [x \in Semaphores |-> L2[x]] /\ L2[s] = q /\ \A x \in Semaphores \ {s} : L2[x] = L[x]
  BY DEF Represents
<1>2. m2.head = m.head
  OBVIOUS
<1> HIDE DEF L2
<1>3. ASSUME NEW x \in Semaphores PROVE IsList(m2.next, m2.prev, bl2[x], L2[x])
  <2>1. CASE x = s
    BY <1>1, <2>1
  <2>2. CASE x # s
    <3>1. IsList(m.next, m.prev, bl[x], L[x])
      BY DEF Represents
    <3>2. ASSUME NEW u \in Threads, In(u, L[x])
          PROVE m2.next[u] = m.next[u] /\ m2.prev[u] = m.prev[u]
      <4>1. u # t /\ ~In(u, L[s])
        BY <2>2, <3>2 DEF Represents, Apart
      <4>2. QED
        BY <4>1
    <3>3. IsList(m2.next, m2.prev, bl[x], L[x])
      BY <3>1, <3>2, ListFrame
    <3>4. QED
      BY <1>1, <2>2, <3>3
  <2>3. QED
    BY <2>1, <2>2
<1>4. ASSUME NEW p \in Priorities PROVE IsRing(m2.next, m2.prev, m.head[p], R[p])
  <2>1. IsRing(m.next, m.prev, m.head[p], R[p])
    BY DEF Represents
  <2>2. ASSUME NEW u \in Threads, In(u, R[p])
        PROVE m2.next[u] = m.next[u] /\ m2.prev[u] = m.prev[u]
    <3>1. u # t /\ ~In(u, L[s])
      BY <2>2 DEF Represents, Apart
    <3>2. QED
      BY <3>1
  <2>3. QED
    BY <2>1, <2>2, RingFrame
<1>5. Apart(R, L2)
  <2>1. ASSUME NEW u \in Threads, NEW r \in Priorities, In(u, R[r])
        PROVE  /\ \A x \in Priorities : In(u, R[x]) => x = r
               /\ \A x \in Semaphores : ~In(u, L2[x])
    BY <1>1, <2>1 DEF Represents, Apart
  <2>2. ASSUME NEW u \in Threads, NEW y \in Semaphores, In(u, L2[y])
        PROVE  \A x \in Semaphores : In(u, L2[x]) => x = y
    BY <1>1, <2>2 DEF Represents, Apart
  <2>3. QED
    BY <2>1, <2>2 DEF Apart
<1>6. Represents(m2, bl2, R, L2)
  BY <1>1, <1>2, <1>3, <1>4, <1>5 DEF Represents
<1>7. QED
  BY <1>6 DEF L2

LEMMA NoFirst ==
  ASSUME NEW nx, NEW pv, NEW h, NEW q
  PROVE  /\ IsRing(nx, pv, h, q) => (h = NULL <=> q = <<>>)
         /\ IsList(nx, pv, h, q) => (h = NULL <=> q = <<>>)
<1>1. ASSUME Sequence(q), q # <<>> PROVE q[1] # NULL
  BY <1>1, Different
<1>2. QED
  BY <1>1 DEF IsRing, IsList

(* addThreadPriority appends to the ring. *)
LEMMA AddRepresents ==
  ASSUME NEW m, NEW bl, NEW R, NEW L, Represents(m, bl, R, L),
         NEW p \in Priorities, NEW t \in Threads, Unplaced(R, L, t)
  PROVE  Represents(addThreadPriority(m, t, p), bl, K!addThreadPriority(R, t, p), L)
<1> DEFINE m2 == addThreadPriority(m, t, p)
           q == R[p]
           h == m.head[p]
           r == Append(q, t)
<1>1. /\ IsRing(m.next, m.prev, h, q) /\ Sequence(q) /\ ~In(t, q) /\ q \in Seq(Threads)
      /\ m.next \in Fields /\ m.prev \in Fields
      /\ m.head = [x \in Priorities |-> m.head[x]]
  BY DEF Represents, Unplaced, IsRing, Sequence
<1>2. t \in Nodes /\ (h = NULL <=> q = <<>>)
  BY <1>1, NoFirst DEF Nodes
<1>3. /\ m2 = [next |-> m2.next, prev |-> m2.prev, head |-> m2.head]
      /\ m2.next \in Fields /\ m2.prev \in Fields
      /\ m2.head = [x \in Priorities |-> m2.head[x]]
      /\ \A x \in Priorities \ {p} : m2.head[x] = m.head[x]
      /\ \A u \in Threads : u # t /\ ~In(u, q) => m2.next[u] = m.next[u] /\ m2.prev[u] = m.prev[u]
      /\ IsRing(m2.next, m2.prev, m2.head[p], r)
  <2>1. CASE h = NULL
    <3>1. m2 = [next |-> [m.next EXCEPT ![t] = t], prev |-> [m.prev EXCEPT ![t] = t],
                head |-> [m.head EXCEPT ![p] = t]]
      BY <2>1 DEF addThreadPriority
    <3> HIDE DEF m2
    <3>2. /\ m2 = [next |-> m2.next, prev |-> m2.prev, head |-> m2.head]
          /\ m2.next = [m.next EXCEPT ![t] = t] /\ m2.prev = [m.prev EXCEPT ![t] = t]
          /\ m2.head = [m.head EXCEPT ![p] = t]
      BY <3>1
    <3>3. m2.head = [x \in Priorities |-> m2.head[x]] /\ m2.head[p] = t
          /\ \A x \in Priorities \ {p} : m2.head[x] = m.head[x]
      BY <1>1, <3>2
    <3>4. IsRing(m2.next, m2.prev, t, r)
      <4>1. q = <<>>
        BY <1>2, <2>1
      <4>2. IsRing([m.next EXCEPT ![t] = t], [m.prev EXCEPT ![t] = t], t, Append(<<>>, t))
        BY <1>1, FirstInRing
      <4>3. QED
        BY <3>2, <4>1, <4>2
    <3>5. /\ m2.next \in Fields /\ m2.prev \in Fields
          /\ \A u \in Threads : u # t => m2.next[u] = m.next[u] /\ m2.prev[u] = m.prev[u]
      BY <1>1, <3>2 DEF Fields, Nodes
    <3>6. QED
      BY <3>2, <3>3, <3>4, <3>5
  <2>2. CASE h # NULL
    <3> DEFINE last == q[Len(q)]
    <3>1. q # <<>> /\ last \in Threads /\ h \in Threads /\ In(last, q) /\ In(h, q)
      <4>1. q # <<>>
        BY <1>2, <2>2
      <4>2. 1 \in 1..Len(q) /\ Len(q) \in 1..Len(q) /\ h = q[1]
        BY <1>1, <4>1, Different DEF IsRing
      <4>3. QED
        BY <1>1, <4>1, <4>2, Different, InIs
    <3>2. RingTail(m.next, h) = last
      BY <1>1, <2>2, RingTailIs
    <3> HIDE DEF last
    <3>3. m2 = [m EXCEPT !.next = [m.next EXCEPT ![last] = t, ![t] = h],
                         !.prev = [m.prev EXCEPT ![t] = last, ![h] = t]]
      BY <2>2, <3>2, Zenon DEF addThreadPriority
    <3> HIDE DEF m2
    <3>4. m = [next |-> m.next, prev |-> m.prev, head |-> m.head]
      BY DEF Represents
    <3>5. /\ m2 = [next |-> m2.next, prev |-> m2.prev, head |-> m2.head]
          /\ m2.next = [m.next EXCEPT ![last] = t, ![t] = h]
          /\ m2.prev = [m.prev EXCEPT ![t] = last, ![h] = t]
          /\ m2.head = m.head
      BY <3>3, <3>4
    <3>6. IsRing(m2.next, m2.prev, h, r)
      BY <1>1, <3>1, <3>5, LastInRing DEF last
    <3>7. /\ m2.next \in Fields /\ m2.prev \in Fields
          /\ \A u \in Threads : u # t /\ u # last /\ u # h =>
               m2.next[u] = m.next[u] /\ m2.prev[u] = m.prev[u]
      BY <1>1, <3>1, <3>5 DEF Fields, Nodes
    <3>8. QED
      BY <1>1, <3>1, <3>5, <3>6, <3>7
  <2>3. QED
    BY <2>1, <2>2
<1>4. \A u \in Threads : In(u, r) => u = t \/ In(u, q)
  BY <1>1, ListsAssumption, K!AppendLemma DEF In
<1> HIDE DEF m2, r
<1>5. Represents(m2, bl, [R EXCEPT ![p] = r], L)
  <2>1. RingEdited(m, m2, p, t, R[p], r)
    BY <1>3, <1>4 DEF RingEdited
  <2>2. QED
    BY <2>1, RingChanged DEF Unplaced
<1>6. K!addThreadPriority(R, t, p) = [R EXCEPT ![p] = r]
  BY DEF K!addThreadPriority, r
<1>7. QED
  BY <1>5, <1>6 DEF m2

(* removeThreadPriority takes the TCB out of the ring. *)
LEMMA RemoveRepresents ==
  ASSUME NEW m, NEW bl, NEW R, NEW L, Represents(m, bl, R, L),
         NEW p \in Priorities, NEW t \in Threads, In(t, R[p])
  PROVE  /\ Represents(removeThreadPriority(m, t, p), bl, K!removeThreadPriority(R, t, p), L)
         /\ Unplaced(K!removeThreadPriority(R, t, p), L, t)
<1> DEFINE m2 == removeThreadPriority(m, t, p)
           q == R[p]
           h == m.head[p]
           k == K!IndexOf(q, t)
           r == K!RemoveAt(q, k)
<1>1. /\ IsRing(m.next, m.prev, h, q) /\ Sequence(q) /\ q \in Seq(Threads) /\ K!IsInjective(q)
      /\ m.next \in Fields /\ m.prev \in Fields
      /\ m.head = [x \in Priorities |-> m.head[x]]
      /\ m = [next |-> m.next, prev |-> m.prev, head |-> m.head]
  BY DEF Represents, IsRing, Sequence
<1>2. k \in 1..Len(q) /\ q[k] = t
  BY <1>1, ListsAssumption, K!IndexOfLemma DEF In
<1> HIDE DEF k
<1>3. /\ r \in Seq(Threads) /\ Len(r) = Len(q) - 1 /\ K!ToSet(r) = K!ToSet(q) \ {t}
           /\ K!IsInjective(r)
  BY <1>1, <1>2, ListsAssumption, K!RemoveAtLemma, K!RemoveAtSet
<1>4. /\ \A x \in Priorities \ {p} : ~In(t, R[x])
      /\ \A s \in Semaphores : ~In(t, L[s])
      /\ NULL \in Nodes
  BY DEF Represents, Apart, Nodes
<1>5. /\ m2 = [next |-> m2.next, prev |-> m2.prev, head |-> m2.head]
      /\ m2.next \in Fields /\ m2.prev \in Fields
      /\ m2.head = [x \in Priorities |-> m2.head[x]]
      /\ \A x \in Priorities \ {p} : m2.head[x] = m.head[x]
      /\ \A u \in Threads : u # t /\ ~In(u, q) => m2.next[u] = m.next[u] /\ m2.prev[u] = m.prev[u]
      /\ IsRing(m2.next, m2.prev, m2.head[p], r)
  <2>1. CASE m.next[t] = t
    <3>1. m2 = [m EXCEPT !.head[p] = NULL]
      BY <2>1 DEF removeThreadPriority
    <3> HIDE DEF m2
    <3>2. /\ m2 = [next |-> m2.next, prev |-> m2.prev, head |-> m2.head]
          /\ m2.next = m.next /\ m2.prev = m.prev
          /\ m2.head = [m.head EXCEPT ![p] = NULL]
      BY <1>1, <3>1
    <3>3. m2.head = [x \in Priorities |-> m2.head[x]] /\ m2.head[p] = NULL
          /\ \A x \in Priorities \ {p} : m2.head[x] = m.head[x]
      BY <1>1, <3>2
    <3>4. Len(q) = 1
      BY <1>1, <1>2, <2>1, AloneInRing
    <3>5. r = <<>>
      BY <1>3, <3>4
    <3>6. IsRing(m2.next, m2.prev, NULL, r)
      <4>1. Len(r) = 0 /\ Sequence(r)
        BY <1>3, <3>4 DEF Sequence
      <4>2. QED
        BY <3>5, <4>1 DEF IsRing, Chained
    <3>7. QED
      BY <1>1, <3>2, <3>3, <3>6
  <2>2. CASE m.next[t] # t
    <3> DEFINE a == m.prev[t]
               b == m.next[t]
    <3>1. m2 = [next |-> [m.next EXCEPT ![a] = b, ![t] = NULL],
                prev |-> [m.prev EXCEPT ![b] = a, ![t] = NULL],
                head |-> IF h = t THEN [m.head EXCEPT ![p] = b] ELSE m.head]
      BY <2>2 DEF removeThreadPriority
    <3> HIDE DEF m2
    <3>2. /\ m2 = [next |-> m2.next, prev |-> m2.prev, head |-> m2.head]
          /\ m2.next = [m.next EXCEPT ![a] = b, ![t] = NULL]
          /\ m2.prev = [m.prev EXCEPT ![b] = a, ![t] = NULL]
          /\ m2.head = IF h = t THEN [m.head EXCEPT ![p] = b] ELSE m.head
      BY <3>1
    <3>3. m2.head = [x \in Priorities |-> m2.head[x]] /\ m2.head[p] = (IF h = t THEN b ELSE h)
          /\ \A x \in Priorities \ {p} : m2.head[x] = m.head[x]
      BY <1>1, <3>2
    <3>4. IsRing(m2.next, m2.prev, m2.head[p], r)
      BY <1>1, <1>2, <2>2, <3>2, <3>3, RemovedFromRing
    <3>5. a \in Threads /\ b \in Threads /\ In(a, q) /\ In(b, q)
      <4>1. Len(q) \in Nat /\ Len(q) >= 1
        BY <1>1, <1>2, Different
      <4>2. PICK i \in 1..Len(q) : b = q[i]
        <5>1. b = IF k = Len(q) THEN q[1] ELSE q[k + 1]
          BY <1>1, <1>2, RingNeighbours
        <5>2. 1 \in 1..Len(q) /\ (k # Len(q) => k + 1 \in 1..Len(q))
          BY <1>2, <4>1
        <5>3. QED
          BY <5>1, <5>2
      <4>3. PICK j \in 1..Len(q) : a = q[j]
        <5>1. a = IF k = 1 THEN q[Len(q)] ELSE q[k - 1]
          BY <1>1, <1>2, RingNeighbours
        <5>2. Len(q) \in 1..Len(q) /\ (k # 1 => k - 1 \in 1..Len(q))
          BY <1>2, <4>1
        <5>3. QED
          BY <5>1, <5>2
      <4>4. QED
        BY <1>1, <4>2, <4>3, Different, InIs
    <3>6. /\ m2.next \in Fields /\ m2.prev \in Fields
          /\ \A u \in Threads : u # t /\ u # a /\ u # b =>
               m2.next[u] = m.next[u] /\ m2.prev[u] = m.prev[u]
      <4> HIDE DEF a, b
      <4>1. QED
        BY <1>1, <1>4, <3>2, <3>5 DEF Fields, Nodes
    <3>7. QED
      BY <3>2, <3>3, <3>4, <3>5, <3>6
  <2>3. QED
    BY <2>1, <2>2
<1>6. \A u \in Threads : In(u, r) => In(u, q) /\ u # t
  BY <1>3 DEF In
<1> HIDE DEF m2, r
<1>7. Represents(m2, bl, [R EXCEPT ![p] = r], L)
  <2>1. RingEdited(m, m2, p, t, R[p], r)
    BY <1>5, <1>6 DEF RingEdited
  <2>2. QED
    BY <1>4, <2>1, RingChanged
<1>8. K!removeThreadPriority(R, t, p) = [R EXCEPT ![p] = r]
  BY DEF K!removeThreadPriority, r, k
<1>9. Unplaced([R EXCEPT ![p] = r], L, t)
  <2>1. \A x \in Priorities : ~In(t, [R EXCEPT ![p] = r][x])
    BY <1>4, <1>6 DEF Represents
  <2>2. QED
    BY <1>4, <2>1 DEF Unplaced
<1>10. QED
  BY <1>7, <1>8, <1>9 DEF m2

(* OS_Wait links the TCB, which is in no ring or list, into a list.        *)
WaitLinks(m, h, t, nx2, pv2, h2) ==
  \/ /\ h = NULL
     /\ nx2 = [m.next EXCEPT ![t] = NULL]
     /\ pv2 = [m.prev EXCEPT ![t] = NULL]
     /\ h2 = t
  \/ /\ h # NULL
     /\ priority[t] < priority[h]
     /\ nx2 = [m.next EXCEPT ![t] = h]
     /\ pv2 = [m.prev EXCEPT ![h] = t, ![t] = NULL]
     /\ h2 = t
  \/ /\ h # NULL
     /\ priority[t] >= priority[h]
     /\ LET temp == InsertionPoint(m, h, priority[t])
            save == m.next[temp]
        IN  /\ nx2 = [m.next EXCEPT ![temp] = t, ![t] = save]
            /\ pv2 = IF save = NULL THEN [m.prev EXCEPT ![t] = temp]
                     ELSE [m.prev EXCEPT ![t] = temp, ![save] = t]
     /\ h2 = h

LEMMA WaitPositionFirst ==
  ASSUME NEW q, Sequence(q), q # <<>>, priority \in [Threads -> Priorities],
         NEW p \in Priorities, p < priority[q[1]]
  PROVE  K!WaitPosition(q, p) = 1
<1> DEFINE I == K!Slots(q, p)
<1>1. I = {k \in 1..Len(q) : p < priority[q[k]] /\ (k > 1 => priority[q[k - 1]] <= p)}
  BY DEF K!Slots
<1>2. 1 \in I /\ \A x \in I : 1 <= x
  BY <1>1, Different
<1>3. I \in SUBSET Nat
  BY <1>1
<1> HIDE DEF I
<1>4. \A x \in I : (\A y \in I : x <= y) => x = 1
  BY <1>2, <1>3
<1>5. K!Least(I) = 1
  BY <1>2, <1>4 DEF K!Least
<1>6. QED
  BY <1>2, <1>5 DEF K!WaitPosition, I

LEMMA WaitInserts ==
  ASSUME NEW m, NEW pv, m.next \in Fields, m.prev \in Fields,
         NEW h, NEW q, IsList(m.next, m.prev, h, q), NEW t \in Threads, ~In(t, q),
         priority \in [Threads -> Priorities],
         NEW nx2, NEW pv2, NEW h2, WaitLinks(m, h, t, nx2, pv2, h2)
  PROVE  /\ IsList(nx2, pv2, h2, K!InsertAt(q, K!WaitPosition(q, priority[t]), t))
         /\ nx2 \in Fields /\ pv2 \in Fields
         /\ \A u \in Threads : u # t /\ ~In(u, q) => nx2[u] = m.next[u] /\ pv2[u] = m.prev[u]
         /\ K!WaitPosition(q, priority[t]) \in 1..Len(q) + 1
<1> DEFINE p == priority[t]
           k == K!WaitPosition(q, p)
           n == Len(q)
<1>1. /\ Sequence(q) /\ q \in Seq(Threads) /\ n \in Nat /\ p \in Priorities
      /\ \A i \in 1..n : q[i] \in Threads /\ q[i] # t /\ q[i] # NULL /\ In(q[i], q)
      /\ \A i, j \in 1..n : q[i] = q[j] => i = j
      /\ NULL \in Nodes /\ t \in Nodes /\ Threads \subseteq Nodes
  BY Different, InIs DEF IsList, Nodes
<1>2. CASE h = NULL
  <2>1. q = <<>>
    BY <1>2, NoFirst
  <2>2. nx2 = [m.next EXCEPT ![t] = NULL] /\ pv2 = [m.prev EXCEPT ![t] = NULL] /\ h2 = t
    BY <1>2 DEF WaitLinks
  <2>3. k = 1
    <3>1. K!Slots(q, p) = {}
      BY <2>1 DEF K!Slots
    <3>2. n = 0
      BY <2>1
    <3>3. QED
      BY <3>1, <3>2 DEF K!WaitPosition
  <2>4. IsList(nx2, pv2, h2, K!InsertAt(<<>>, 1, t))
    BY <2>2, AloneInList
  <2>5. /\ nx2 \in Fields /\ pv2 \in Fields
        /\ \A u \in Threads : u # t => nx2[u] = m.next[u] /\ pv2[u] = m.prev[u]
    BY <1>1, <2>2 DEF Fields
  <2>6. 1 \in 1..n + 1
    BY <2>1
  <2> HIDE DEF k, n
  <2>7. IsList(nx2, pv2, h2, K!InsertAt(q, k, t))
    BY <2>1, <2>3, <2>4
  <2>8. QED
    BY <2>3, <2>5, <2>6, <2>7 DEF k, n
<1>3. CASE h # NULL /\ p < priority[h]
  <2>1. q # <<>> /\ h = q[1] /\ n >= 1 /\ 1 \in 1..n /\ h \in Threads /\ h # t /\ In(h, q)
    BY <1>1, <1>3, Different DEF IsList
  <2>2. nx2 = [m.next EXCEPT ![t] = h] /\ pv2 = [m.prev EXCEPT ![h] = t, ![t] = NULL] /\ h2 = t
    BY <1>1, <1>3, <2>1 DEF WaitLinks, Priorities
  <2>3. k = 1
    BY <1>1, <1>3, <2>1, WaitPositionFirst
  <2>4. /\ nx2 \in Fields /\ pv2 \in Fields
        /\ \A u \in Threads : u # t => nx2[u] = m.next[u]
        /\ \A u \in Threads : u # t /\ u # h => pv2[u] = m.prev[u]
        /\ nx2[t] = h /\ pv2[h] = t /\ pv2[t] = NULL
    BY <1>1, <2>1, <2>2 DEF Fields
  <2> HIDE DEF k, p, n
  <2>5. k \in 1..n + 1 /\ k <= n /\ ~(k > 1)
    BY <1>1, <2>1, <2>3
  <2>6. IsList(nx2, pv2, IF k = 1 THEN t ELSE h, K!InsertAt(q, k, t))
    BY <2>1, <2>3, <2>4, <2>5, InsertedInList DEF n
  <2>7. QED
    BY <2>1, <2>2, <2>3, <2>4, <2>5, <2>6 DEF k, p, n
<1>4. CASE h # NULL /\ p >= priority[h]
  <2> DEFINE temp == InsertionPoint(m, h, p)
             save == m.next[temp]
             j == k - 1
  <2>1. q # <<>> /\ h = q[1] /\ n >= 1 /\ h \in Threads
    BY <1>1, <1>4, Different DEF IsList
  <2>2. nx2 = [m.next EXCEPT ![temp] = t, ![t] = save]
        /\ pv2 = (IF save = NULL THEN [m.prev EXCEPT ![t] = temp]
                  ELSE [m.prev EXCEPT ![t] = temp, ![save] = t])
        /\ h2 = h
    BY <1>1, <1>4, <2>1 DEF WaitLinks, Priorities
  <2>3. k \in 2..n + 1 /\ temp = q[j]
    <3>1. priority[h] <= p
      BY <1>1, <1>4, <2>1 DEF Priorities
    <3>2. p \in Priorities
      BY <1>1
    <3> HIDE DEF p
    <3>3. /\ K!WaitPosition(q, p) \in 2..Len(q) + 1
          /\ InsertionPoint(m, h, p) = q[K!WaitPosition(q, p) - 1]
      <4> DEFINE nx == m.next
      <4>1. IsList(nx, m.prev, h, q) /\ h # NULL /\ priority \in [Threads -> Priorities]
              /\ nx = m.next
        BY <1>4
      <4> HIDE DEF nx
      <4>2. QED
        BY ONLY <3>1, <3>2, <4>1, InsertionIs
    <3>4. QED
      BY <3>3
  <2> HIDE DEF k, p, n, temp
  <2>4. j \in 1..n /\ k \in 1..n + 1 /\ k > 1 /\ k # 1 /\ (k <= n => k \in 1..n /\ k # j)
        /\ (j = n <=> ~(k <= n)) /\ j + 1 = k
    BY <1>1, <2>3
  <2>5. save = IF k <= n THEN q[k] ELSE NULL
    <3>1. m.next[q[j]] = IF j = n THEN NULL ELSE q[j + 1]
      BY <2>4, ListNeighbours DEF n
    <3>2. QED
      BY <2>3, <2>4, <3>1
  <2> HIDE DEF save, j
  <2>6. temp \in Threads /\ temp # t /\ In(temp, q) /\ (k <= n => save \in Threads /\ save # t
          /\ save # NULL /\ In(save, q))
    BY <1>1, <2>3, <2>4, <2>5
  <2>7. /\ nx2 \in Fields
        /\ \A u \in Threads : u # t /\ u # temp => nx2[u] = m.next[u]
        /\ nx2[temp] = t /\ nx2[t] = save
    BY <1>1, <2>2, <2>5, <2>6 DEF Fields
  <2>8. /\ pv2 \in Fields
        /\ \A u \in Threads : u # t /\ ~(k <= n /\ u = save) => pv2[u] = m.prev[u]
        /\ pv2[t] = temp /\ (k <= n => pv2[save] = t)
    BY <1>1, <2>2, <2>5, <2>6 DEF Fields
  <2>9. IsList(nx2, pv2, IF k = 1 THEN t ELSE h, K!InsertAt(q, k, t))
    BY <2>1, <2>3, <2>4, <2>5, <2>7, <2>8, InsertedInList DEF n, j
  <2>10. \A u \in Threads : u # t /\ ~In(u, q) => nx2[u] = m.next[u] /\ pv2[u] = m.prev[u]
    BY <2>6, <2>7, <2>8
  <2>11. QED
    BY <2>2, <2>4, <2>7, <2>8, <2>9, <2>10 DEF k, p, n
<1>5. QED
  <2>1. h # NULL => h \in Threads
    BY <1>1, Different DEF IsList
  <2>2. h # NULL => priority[h] \in Int
    BY <2>1 DEF Priorities
  <2>3. p \in Int
    BY <1>1 DEF Priorities
  <2> HIDE DEF p
  <2>4. QED
    BY <1>2, <1>3, <1>4, <2>2, <2>3

LEMMA WaitRepresents ==
  ASSUME NEW m, NEW bl, NEW R, NEW L, Represents(m, bl, R, L),
         NEW s \in Semaphores, NEW t \in Threads, Unplaced(R, L, t),
         priority \in [Threads -> Priorities],
         NEW nx2, NEW pv2, NEW bl2, bl2 = [bl EXCEPT ![s] = bl2[s]],
         WaitLinks(m, bl[s], t, nx2, pv2, bl2[s])
  PROVE  Represents([next |-> nx2, prev |-> pv2, head |-> m.head], bl2, R,
                    [L EXCEPT ![s] = K!InsertAt(@, K!WaitPosition(@, priority[t]), t)])
<1> DEFINE q == L[s]
           k == K!WaitPosition(q, priority[t])
           r == K!InsertAt(q, k, t)
           m2 == [next |-> nx2, prev |-> pv2, head |-> m.head]
<1>1. /\ IsList(m.next, m.prev, bl[s], q) /\ ~In(t, q) /\ q \in Seq(Threads)
      /\ m.next \in Fields /\ m.prev \in Fields /\ bl = [x \in Semaphores |-> bl[x]]
      /\ L = [x \in Semaphores |-> L[x]]
  BY DEF Represents, Unplaced, IsList, Sequence
<1>2. /\ IsList(nx2, pv2, bl2[s], r)
      /\ nx2 \in Fields /\ pv2 \in Fields
      /\ \A u \in Threads : u # t /\ ~In(u, q) => nx2[u] = m.next[u] /\ pv2[u] = m.prev[u]
      /\ k \in 1..Len(q) + 1
  BY <1>1, WaitInserts
<1> HIDE DEF k
<1>3. \A u \in Threads : In(u, r) => u = t \/ In(u, q)
  BY <1>1, <1>2, ListsAssumption, K!InsertAtSet DEF In
<1> HIDE DEF r
<1>4. bl2 = [x \in Semaphores |-> bl2[x]] /\ \A x \in Semaphores \ {s} : bl2[x] = bl[x]
  BY <1>1
<1>5. m2 = [next |-> m2.next, prev |-> m2.prev, head |-> m.head] /\ m2.next = nx2 /\ m2.prev = pv2
  OBVIOUS
<1> HIDE DEF m2
<1>6. Represents(m2, bl2, R, [L EXCEPT ![s] = r])
  <2>1. ListEdited(m, m2, bl, bl2, s, t, L[s], r)
    BY <1>2, <1>3, <1>4, <1>5 DEF ListEdited
  <2>2. QED
    BY <2>1, ListChanged DEF Unplaced
<1>7. [L EXCEPT ![s] = K!InsertAt(@, K!WaitPosition(@, priority[t]), t)] = [L EXCEPT ![s] = r]
  BY <1>1 DEF r, k
<1>8. QED
  BY <1>6, <1>7 DEF m2

LEMMA ListHead ==
  ASSUME NEW nx, NEW pv, NEW h, NEW q, IsList(nx, pv, h, q), q # <<>>
  PROVE  /\ h = Head(q) /\ h \in Threads /\ In(h, q)
         /\ nx[h] = NULL <=> Len(q) = 1
         /\ nx[h] # NULL => In(nx[h], q) /\ nx[h] \in Threads
<1> DEFINE n == Len(q)
<1>1. n \in Nat /\ n >= 1 /\ 1 \in 1..n /\ h = q[1] /\ q \in Seq(Threads) /\ Sequence(q)
  BY Different DEF IsList
<1>2. h = Head(q) /\ h \in Threads /\ In(h, q)
  BY <1>1, InIs
<1>3. CASE n = 1
  BY <1>1, <1>2, <1>3 DEF IsList
<1>4. CASE n # 1
  <2>1. 1 \in 1..n - 1 /\ 2 \in 1..n
    <3>1. n \in Nat /\ n >= 1
      BY <1>1
    <3> HIDE DEF n
    <3>2. QED
      BY <1>4, <3>1
  <2>2. nx[h] = q[2]
    BY <1>1, <2>1 DEF IsList, Chained
  <2>3. q[2] \in Threads /\ q[2] # NULL /\ In(q[2], q)
    BY <1>1, <2>1, Different, InIs
  <2>4. QED
    BY <1>2, <1>4, <2>2, <2>3
<1>5. QED
  BY <1>3, <1>4

(* OS_Signal takes the head h of a list: only the successor's prev changes. *)
HeadPopped(m, h, m2) ==
  /\ m2 = [next |-> m.next, prev |-> m2.prev, head |-> m.head]
  /\ IF m.next[h] = NULL THEN m2.prev = m.prev
     ELSE m2.prev = [m.prev EXCEPT ![m.next[h]] = NULL]

LEMMA HeadOfList ==
  ASSUME NEW m, NEW bl, NEW R, NEW L, Represents(m, bl, R, L), NEW s \in Semaphores, L[s] # <<>>
  PROVE  /\ bl[s] = Head(L[s]) /\ bl[s] \in Threads /\ bl[s] # NULL
         /\ m.next[bl[s]] = NULL <=> Len(L[s]) = 1
<1>1. IsList(m.next, m.prev, bl[s], L[s])
  BY DEF Represents
<1>2. QED
  BY <1>1, ListHead, Sizes

LEMMA PopRepresents ==
  ASSUME NEW m, NEW bl, NEW R, NEW L, Represents(m, bl, R, L),
         NEW s \in Semaphores, L[s] # <<>>, NEW m2, HeadPopped(m, bl[s], m2)
  PROVE  /\ Represents(m2, [bl EXCEPT ![s] = m.next[bl[s]]], R, [L EXCEPT ![s] = Tail(@)])
         /\ Unplaced(R, [L EXCEPT ![s] = Tail(@)], Head(L[s]))
<1> DEFINE second == m.next[bl[s]]
<1>0. /\ m2 = [next |-> m.next, prev |-> m2.prev, head |-> m.head]
      /\ second = NULL => m2.prev = m.prev
      /\ second # NULL => m2.prev = [m.prev EXCEPT ![second] = NULL]
      /\ second = m.next[bl[s]]
  BY DEF HeadPopped
<1> HIDE DEF second
<1> DEFINE q == L[s]
           h == bl[s]
           r == Tail(q)
           bl2 == [bl EXCEPT ![s] = second]
           L2 == [L EXCEPT ![s] = r]
<1>1. /\ IsList(m.next, m.prev, h, q) /\ q \in Seq(Threads) /\ Sequence(q) /\ K!IsInjective(q)
      /\ m.next \in Fields /\ m.prev \in Fields /\ bl = [x \in Semaphores |-> bl[x]]
      /\ m = [next |-> m.next, prev |-> m.prev, head |-> m.head]
      /\ L = [x \in Semaphores |-> L[x]] /\ NULL \in Nodes
  BY DEF Represents, IsList, Sequence, Nodes
<1>2. /\ h = Head(q) /\ h \in Threads /\ In(h, q)
      /\ second = NULL <=> Len(q) = 1
      /\ second # NULL => In(second, q) /\ second \in Threads
  BY <1>0, <1>1, ListHead
<1>3. m2.next = m.next /\ m2.head = m.head
        /\ m2 = [next |-> m2.next, prev |-> m2.prev, head |-> m.head]
  BY <1>0
<1>4. /\ m2.next \in Fields /\ m2.prev \in Fields
      /\ \A u \in Threads : ~In(u, q) => m2.next[u] = m.next[u] /\ m2.prev[u] = m.prev[u]
  <2>1. CASE second = NULL
    BY <1>0, <1>1, <1>3, <2>1
  <2>2. CASE second # NULL
    BY <1>0, <1>1, <1>2, <1>3, <2>2 DEF Fields
  <2>3. QED
    BY <2>1, <2>2
<1>5. IsList(m2.next, m2.prev, second, r)
  BY <1>0, <1>1, <1>3, HeadTaken
<1>6. r \in Seq(Threads) /\ Sequence(r) /\ \A u \in Threads : In(u, r) => In(u, q) /\ u # h
  BY <1>1, <1>2, ListsAssumption, K!TailLemma DEF In, Sequence
<1>7. /\ \A x \in Priorities : ~In(h, R[x])
      /\ \A x \in Semaphores \ {s} : ~In(h, L[x])
  BY <1>2 DEF Represents, Apart
<1>8. bl2 = [x \in Semaphores |-> bl2[x]] /\ bl2[s] = second
        /\ \A x \in Semaphores \ {s} : bl2[x] = bl[x]
  BY <1>1
<1> HIDE DEF r, bl2
<1>9. Represents(m2, bl2, R, L2)
  <2>1. ListEdited(m, m2, bl, bl2, s, h, L[s], r)
    BY <1>3, <1>4, <1>5, <1>6, <1>8 DEF ListEdited
  <2> HIDE DEF h
  <2>2. QED
    BY <1>2, <1>7, <2>1, ListChanged
<1>10. Unplaced(R, L2, h)
  BY <1>1, <1>2, <1>6, <1>7 DEF Unplaced
<1>11. [L EXCEPT ![s] = Tail(@)] = L2
  BY <1>1 DEF r
<1> HIDE DEF L2
<1>12. QED
  BY <1>9, <1>10, <1>11, <1>2 DEF bl2, second

-----------------------------------------------------------------------------
(* Kernel, which the operations of OSLists are built from, and K, which the *)
(* theorems are about, are the same kernel.                                 *)

LEMMA SameKernel ==
  /\ Kernel!Init <=> K!Init
  /\ Kernel!Next <=> K!Next
  /\ Kernel!vars = K!vars
<1>1. Kernel!Init <=> K!Init
  BY DEF Rings, Lists, Kernel!Init, K!Init, Kernel!NULL, K!NULL, Kernel!Threads, K!Threads,
         Kernel!Priorities, K!Priorities
<1>2. Kernel!Next <=> K!Next
  BY DEF Rings, Lists,
         Kernel!NULL, K!NULL, Kernel!Threads, K!Threads, Kernel!Priorities, K!Priorities,
         Kernel!Least, K!Least, Kernel!addThreadPriority, K!addThreadPriority,
         Kernel!removeThreadPriority, K!removeThreadPriority, Kernel!RemoveAt, K!RemoveAt,
         Kernel!InsertAt, K!InsertAt, Kernel!IndexOf, K!IndexOf, Kernel!Slots, K!Slots,
         Kernel!WaitPosition, K!WaitPosition, Kernel!RotateTo, K!RotateTo,
         Kernel!AliveAt, K!AliveAt, Kernel!Dead, K!Dead,
         Kernel!getNextDeadThread, K!getNextDeadThread,
         Kernel!OS_AddThread, K!OS_AddThread, Kernel!HasIdle, K!HasIdle,
         Kernel!MainAdds, K!MainAdds, Kernel!OS_Launch, K!OS_Launch, Kernel!Up, K!Up,
         Kernel!Executing, K!Executing, Kernel!Running, K!Running,
         Kernel!MayBlock, K!MayBlock, Kernel!OS_Suspend, K!OS_Suspend,
         Kernel!Blocks, K!Blocks, Kernel!WaitPasses, K!WaitPasses,
         Kernel!WaitBlocks, K!WaitBlocks, Kernel!OS_Wait, K!OS_Wait,
         Kernel!OS_Sleep, K!OS_Sleep, Kernel!KilledStatus, K!KilledStatus,
         Kernel!OS_Kill, K!OS_Kill, Kernel!RequestSwitch, K!RequestSwitch,
         Kernel!Preempts, K!Preempts, Kernel!SignalPasses, K!SignalPasses,
         Kernel!SignalSpins, K!SignalSpins, Kernel!SignalFaults, K!SignalFaults,
         Kernel!SignalWakes, K!SignalWakes, Kernel!OS_Signal, K!OS_Signal,
         Kernel!ISRSignals, K!ISRSignals, Kernel!ISRAdds, K!ISRAdds,
         Kernel!PREEMPTIVE, K!PREEMPTIVE, Kernel!Ticked, K!Ticked,
         Kernel!SysTick_Handler, K!SysTick_Handler, Kernel!Runnable, K!Runnable,
         Kernel!getNextPriorityThreadAndUpdateList, K!getNextPriorityThreadAndUpdateList,
         Kernel!Scheduler, K!Scheduler, Kernel!PendSV_Handler, K!PendSV_Handler,
         Kernel!ThreadStep, K!ThreadStep, Kernel!Next, K!Next
<1>3. Kernel!vars = K!vars
  BY DEF Rings, Lists, Kernel!vars, K!vars
<1>4. QED
  BY <1>1, <1>2, <1>3

LEMMA SameState ==
  /\ Kernel!Dead = K!Dead /\ Kernel!getNextDeadThread = K!getNextDeadThread
  /\ Kernel!HasIdle <=> K!HasIdle
  /\ Kernel!Up <=> K!Up
  /\ \A t : (Kernel!Running(t) <=> K!Running(t)) /\ (Kernel!MayBlock(t) <=> K!MayBlock(t))
  /\ \A s : Kernel!Blocks(s) <=> K!Blocks(s)
  /\ \A p : Kernel!Preempts(p) <=> K!Preempts(p)
  BY DEF Kernel!Dead, K!Dead, Kernel!Threads, K!Threads,
         Kernel!getNextDeadThread, K!getNextDeadThread, Kernel!Least, K!Least,
         Kernel!HasIdle, K!HasIdle, Kernel!Priorities, K!Priorities, Kernel!Up, K!Up,
         Kernel!Executing, K!Executing, Kernel!Running, K!Running,
         Kernel!MayBlock, K!MayBlock, Kernel!Blocks, K!Blocks,
         Kernel!Preempts, K!Preempts, Kernel!NULL, K!NULL

LEMMA SameSets ==
  /\ K!Threads = Threads /\ K!Priorities = Priorities /\ K!NULL = NULL
  /\ \A S : K!Least(S) = Least(S)
  BY DEF K!Threads, Threads, K!Priorities, Priorities, K!NULL, NULL, K!Least, Least

-----------------------------------------------------------------------------
(* The invariant: the pointers represent the rings and lists, of which the *)
(* invariant of the kernel holds.                                          *)

LInv == Represents(Pointers, blocked, Rings, Lists)

Inv == K!IInv /\ LInv

(* What is represented is what Ring and List read off the pointers.        *)
LEMMA ReadOff ==
  ASSUME NEW nx, NEW pv, NEW hd, NEW bl, NEW R, NEW L,
         Represents([next |-> nx, prev |-> pv, head |-> hd], bl, R, L)
  PROVE  /\ [p \in Priorities |-> RingFrom(nx, hd[p])] = R
         /\ [s \in Semaphores |-> ListFrom(nx, bl[s])] = L
<1> DEFINE m == [next |-> nx, prev |-> pv, head |-> hd]
<1>1. m.next = nx /\ m.prev = pv /\ m.head = hd
  OBVIOUS
<1> HIDE DEF m
<1>2. /\ R = [p \in Priorities |-> R[p]] /\ L = [s \in Semaphores |-> L[s]]
      /\ \A p \in Priorities : IsRing(nx, pv, hd[p], R[p])
      /\ \A s \in Semaphores : IsList(nx, pv, bl[s], L[s])
  BY <1>1 DEF Represents, m
<1>3. \A p \in Priorities : RingFrom(nx, hd[p]) = R[p]
  BY <1>2, RingIs
<1>4. \A s \in Semaphores : ListFrom(nx, bl[s]) = L[s]
  BY <1>2, ListIs
<1>5. QED
  BY <1>2, <1>3, <1>4

LEMMA ReadOffNow ==
  /\ Rings = [p \in Priorities |-> RingFrom(next, TCB_priority_array[p])]
  /\ Lists = [s \in Semaphores |-> ListFrom(next, blocked[s])]
  BY Zenon DEF Rings, Lists, Ring, List, RingFrom, ListFrom

LEMMA ReadOffNext ==
  /\ Rings' = [p \in Priorities |-> RingFrom(next', TCB_priority_array'[p])]
  /\ Lists' = [s \in Semaphores |-> ListFrom(next', blocked'[s])]
  BY Zenon DEF Rings, Lists, Ring, List, RingFrom, ListFrom

LEMMA RepresentedNext ==
  ASSUME NEW R, NEW L, Represents(Pointers', blocked', R, L)
  PROVE  LInv' /\ Rings' = R /\ Lists' = L
<1>1. Pointers' = [next |-> next', prev |-> prev', head |-> TCB_priority_array']
  BY DEF Pointers
<1>2. Rings' = R /\ Lists' = L
  BY <1>1, ReadOff, ReadOffNext
<1>3. QED
  BY <1>2 DEF LInv

LEMMA RepresentedNow ==
  ASSUME NEW R, NEW L, Represents(Pointers, blocked, R, L)
  PROVE  LInv /\ Rings = R /\ Lists = L
<1>1. Rings = R /\ Lists = L
  BY ReadOff, ReadOffNow DEF Pointers
<1>2. QED
  BY <1>1 DEF LInv

LEMMA LinksKept ==
  ASSUME LInv, UNCHANGED links PROVE LInv'
<1>1. Pointers' = Pointers /\ blocked' = blocked
  BY DEF links, Pointers
<1>2. QED
  BY <1>1, RepresentedNext DEF LInv

LEMMA Empty ==
  ASSUME Init PROVE Inv
<1> DEFINE R == [p \in Priorities |-> <<>>]
           L == [s \in Semaphores |-> <<>>]
<1>1. K!Init
  BY SameKernel DEF Init
<1>3. Sequence(<<>>) /\ \A t : ~In(t, <<>>)
  <2> DEFINE e == <<>>
  <2>1. e \in Seq(Threads) /\ \A i \in 1..Len(e) : FALSE
    OBVIOUS
  <2> HIDE DEF e
  <2>2. Sequence(e)
    BY <2>1, ListsAssumption, K!InjectiveElements DEF Sequence
  <2>3. \A t : ~In(t, e)
    BY <2>1, <2>2, InIs
  <2>4. QED
    BY <2>2, <2>3 DEF e
<1>4. \A nx, pv : IsRing(nx, pv, NULL, <<>>) /\ IsList(nx, pv, NULL, <<>>)
  BY <1>3 DEF IsRing, IsList, Chained
<1>5. Apart(R, L)
  BY <1>3 DEF Apart
<1>6. Represents(Pointers, blocked, R, L)
  BY <1>4, <1>5 DEF Represents, Init, Pointers, Fields, Nodes
<1>7. LInv
  BY <1>6, RepresentedNow
<1>8. K!IInv
  BY <1>1, ListsAssumption, K!InitInv
<1>9. QED
  BY <1>7, <1>8 DEF Inv

-----------------------------------------------------------------------------
(* Where the TCBs are.                                                     *)

LEMMA Types ==
  ASSUME Inv
  PROVE  /\ priority \in [Threads -> Priorities] /\ status \in [Threads -> K!Status]
         /\ currThread \in Threads \cup {NULL}
         /\ LInv /\ K!IInv
  BY SameSets DEF Inv, K!IInv, K!TypeOK

LEMMA Places ==
  ASSUME Inv, machine # "fault", NEW t \in Threads
  PROVE  /\ status[t] = "ALIVE" => In(t, Rings[priority[t]])
         /\ status[t] \in {"DEAD", "DYING"} => Unplaced(Rings, Lists, t)
<1>1. /\ \A p \in Priorities : In(t, Rings[p]) <=> K!InRing(t, p)
      /\ \A s \in Semaphores : In(t, Lists[s]) => status[t] = "BLOCKED"
  BY SameSets DEF Inv, K!IInv, K!Linked, K!Rings, K!Lists, In
<1>2. priority[t] \in Priorities
  BY Types
<1>3. QED
  BY <1>1, <1>2 DEF K!InRing, Unplaced

-----------------------------------------------------------------------------
(* The operations.                                                         *)

LEMMA AddStep ==
  ASSUME Inv, machine # "fault", NEW p \in Priorities, OS_AddThread(p)
  PROVE  K!OS_AddThread(p) /\ LInv'
<1> DEFINE t == K!getNextDeadThread
           R == K!addThreadPriority(Rings, t, p)
<1>1. /\ K!Dead # {}
      /\ status' = [status EXCEPT ![t] = "ALIVE"]
      /\ priority' = [priority EXCEPT ![t] = p]
      /\ currThread' = IF currThread = NULL THEN t ELSE currThread
      /\ atSuspend' = atSuspend \ {t}
      /\ SetPointers(addThreadPriority(Pointers, t, p))
      /\ UNCHANGED <<blocked, sleep, Value, pendSV, launched, machine>>
  BY SameState DEF OS_AddThread
<1>2. t \in Threads /\ status[t] = "DEAD"
  <2>1. K!Dead = {u \in Threads : status[u] = "DEAD"}
    BY SameSets DEF K!Dead
  <2>2. K!Dead \in SUBSET Nat
    BY <2>1, Sizes
  <2>3. t \in K!Dead
    BY <1>1, <2>2, ListsAssumption, K!LeastLemma DEF K!getNextDeadThread
  <2> HIDE DEF t
  <2>4. QED
    BY <2>1, <2>3
<1> HIDE DEF t
<1>3. Unplaced(Rings, Lists, t)
  BY <1>2, Places
<1>4. Represents(addThreadPriority(Pointers, t, p), blocked, R, Lists)
  BY <1>2, <1>3, AddRepresents DEF Inv, LInv
<1> HIDE DEF R
<1>5. Pointers' = addThreadPriority(Pointers, t, p)
  BY <1>1, <1>4 DEF SetPointers, Pointers, Represents
<1>6. LInv' /\ Rings' = R /\ Lists' = Lists
  BY <1>1, <1>4, <1>5, RepresentedNext
<1>7. QED
  BY <1>1, <1>6, SameSets DEF K!OS_AddThread, t, R

LEMMA RunningAlive ==
  ASSUME Inv, NEW t \in Threads, K!Running(t)
  PROVE  status[t] = "ALIVE" /\ machine = "ok" /\ In(t, Rings[priority[t]])
<1>1. status[t] = "ALIVE"
  BY SameSets DEF Inv, K!IInv, K!RunsOnlyAlive
<1>2. machine = "ok"
  BY DEF K!Running, K!Executing, K!Up
<1>3. QED
  BY <1>1, <1>2, Places

LEMMA WaitStep ==
  ASSUME Inv, NEW t \in Threads, NEW s \in Semaphores, WaitBlocks(t, s)
  PROVE  K!WaitBlocks(t, s) /\ LInv'
<1> DEFINE p == priority[t]
           m == removeThreadPriority(Pointers, t, p)
           R == K!removeThreadPriority(Rings, t, p)
           L == [Lists EXCEPT ![s] = K!InsertAt(@, K!WaitPosition(@, p), t)]
           m2 == [next |-> next', prev |-> prev', head |-> m.head]
<1>1. K!Running(t) /\ K!MayBlock(t) /\ K!Blocks(s)
  BY SameState DEF WaitBlocks
<1>2. p \in Priorities /\ priority \in [Threads -> Priorities] /\ In(t, Rings[p])
  BY <1>1, Types, RunningAlive
<1>3. Represents(m, blocked, R, Lists) /\ Unplaced(R, Lists, t)
  BY <1>2, RemoveRepresents DEF Inv, LInv
<1>4. /\ blocked' = [blocked EXCEPT ![s] = blocked'[s]]
      /\ WaitLinks(m, blocked[s], t, next', prev', blocked'[s])
      /\ TCB_priority_array' = m.head
  <2> DEFINE h == blocked[s]
  <2>1. blocked = [x \in Semaphores |-> blocked[x]]
    BY <1>3 DEF Represents
  <2>2. /\ TCB_priority_array' = m.head
        /\ \/ /\ h = NULL
              /\ LinkAlone(m, t)
              /\ blocked' = [blocked EXCEPT ![s] = t]
           \/ /\ h # NULL
              /\ priority[t] < priority[h]
              /\ LinkFirst(m, h, t)
              /\ blocked' = [blocked EXCEPT ![s] = t]
           \/ /\ h # NULL
              /\ priority[t] >= priority[h]
              /\ LinkAfter(m, InsertionPoint(m, h, priority[t]), t)
              /\ UNCHANGED blocked
    BY Zenon DEF WaitBlocks
  <2> HIDE DEF m
  <2>3. CASE h = NULL /\ LinkAlone(m, t) /\ blocked' = [blocked EXCEPT ![s] = t]
    BY <2>1, <2>2, <2>3 DEF LinkAlone, WaitLinks
  <2>4. CASE /\ h # NULL /\ priority[t] < priority[h] /\ LinkFirst(m, h, t)
             /\ blocked' = [blocked EXCEPT ![s] = t]
    BY <2>1, <2>2, <2>4 DEF LinkFirst, WaitLinks
  <2>5. CASE /\ h # NULL /\ priority[t] >= priority[h]
             /\ LinkAfter(m, InsertionPoint(m, h, priority[t]), t) /\ UNCHANGED blocked
    <3>1. blocked' = [blocked EXCEPT ![s] = blocked'[s]]
      BY <2>1, <2>5
    <3>2. WaitLinks(m, h, t, next', prev', blocked'[s])
      BY <2>5 DEF LinkAfter, WaitLinks
    <3>3. QED
      BY <2>2, <3>1, <3>2
  <2>6. QED
    BY <2>2, <2>3, <2>4, <2>5
<1> HIDE DEF m, R
<1>5. Represents(m2, blocked', R, L)
  BY <1>2, <1>3, <1>4, WaitRepresents
<1> HIDE DEF L
<1>6. Pointers' = m2
  BY <1>4 DEF Pointers
<1> HIDE DEF m2
<1>7. LInv' /\ Rings' = R /\ Lists' = L
  BY <1>5, <1>6, RepresentedNext
<1>8. /\ Value' = [Value EXCEPT ![s] = @ - 1]
      /\ status' = [status EXCEPT ![t] = "BLOCKED"]
      /\ atSuspend' = atSuspend \cup {t}
      /\ UNCHANGED <<sleep, priority, currThread, pendSV, launched, machine>>
  BY DEF WaitBlocks
<1>9. QED
  BY <1>1, <1>7, <1>8 DEF K!WaitBlocks, R, L

LEMMA KillStep ==
  ASSUME Inv, NEW t \in Threads, OS_Kill(t)
  PROVE  K!OS_Kill(t) /\ LInv'
<1> DEFINE p == priority[t]
           m == removeThreadPriority(Pointers, t, p)
           R == K!removeThreadPriority(Rings, t, p)
<1>1. /\ K!Running(t) /\ K!MayBlock(t)
      /\ status' = [status EXCEPT ![t] = "DYING"]
      /\ SetPointers(m)
      /\ atSuspend' = atSuspend \cup {t}
      /\ UNCHANGED <<blocked, sleep, priority, currThread, Value, pendSV, launched, machine>>
  BY SameState DEF OS_Kill
<1>2. p \in Priorities /\ In(t, Rings[p])
  BY <1>1, Types, RunningAlive
<1>3. Represents(m, blocked, R, Lists)
  BY <1>2, RemoveRepresents DEF Inv, LInv
<1> HIDE DEF m, R
<1>4. Pointers' = m
  BY <1>1, <1>3 DEF SetPointers, Pointers, Represents
<1>5. LInv' /\ Rings' = R /\ Lists' = Lists
  BY <1>1, <1>3, <1>4, RepresentedNext
<1>6. QED
  BY <1>1, <1>5 DEF K!OS_Kill, K!KilledStatus, R

LEMMA FaultStep ==
  ASSUME Inv, NEW s \in Semaphores, Lists[s] # <<>>, SignalFaults(s)
  PROVE  K!SignalFaults(s) /\ LInv'
<1> DEFINE L == [Lists EXCEPT ![s] = Tail(@)]
           second == next[blocked[s]]
           b == Head(Lists[s])
<1>1. /\ second = NULL /\ "fault" \in NullStore
      /\ Value' = [Value EXCEPT ![s] = @ + 1]
      /\ status' = [status EXCEPT ![blocked[s]] = "ALIVE"]
      /\ blocked' = [blocked EXCEPT ![s] = second]
      /\ machine' = "fault"
      /\ UNCHANGED <<next, prev, TCB_priority_array, sleep, priority, currThread,
                     pendSV, atSuspend, launched>>
  BY DEF SignalFaults, PopHead
<1>2. /\ Represents(Pointers, [blocked EXCEPT ![s] = second], Rings, L)
      /\ blocked[s] = b /\ (second = NULL <=> Len(Lists[s]) = 1)
  <2>1. second = Pointers.next[blocked[s]]
    BY DEF Pointers
  <2>2. HeadPopped(Pointers, blocked[s], Pointers)
    BY <1>1, <2>1 DEF HeadPopped, Pointers
  <2>3. Represents(Pointers, blocked, Rings, Lists)
    BY DEF Inv, LInv
  <2>4. blocked[s] = b /\ (second = NULL <=> Len(Lists[s]) = 1)
    BY <2>1, <2>3, HeadOfList
  <2>5. Represents(Pointers, [blocked EXCEPT ![s] = Pointers.next[blocked[s]]], Rings,
                   [Lists EXCEPT ![s] = Tail(@)])
    BY <2>2, <2>3, PopRepresents
  <2>6. QED
    BY <2>1, <2>4, <2>5
<1>3. Pointers' = Pointers
  BY <1>1 DEF Pointers
<1> HIDE DEF L
<1>4. LInv' /\ Rings' = Rings /\ Lists' = L
  BY <1>1, <1>2, <1>3, RepresentedNext
<1>5. QED
  BY <1>1, <1>2, <1>4 DEF K!SignalFaults, L

LEMMA WakeStep ==
  ASSUME Inv, NEW s \in Semaphores, Lists[s] # <<>>, NEW fromThread,
         SignalWakes(s, fromThread)
  PROVE  K!SignalWakes(s, fromThread) /\ LInv'
<1> DEFINE L == [Lists EXCEPT ![s] = Tail(@)]
           b == blocked[s]
           second == next[b]
           p == priority[b]
           m == IF second = NULL THEN Pointers ELSE [Pointers EXCEPT !.prev[second] = NULL]
           R == K!addThreadPriority(Rings, b, p)
<1>1. /\ second = NULL => "ignored" \in NullStore
      /\ Value' = [Value EXCEPT ![s] = @ + 1]
      /\ blocked' = [blocked EXCEPT ![s] = second]
      /\ status' = [status EXCEPT ![b] = "ALIVE"]
      /\ SetPointers(addThreadPriority(m, b, p))
      /\ UNCHANGED <<sleep, priority, currThread, launched, machine>>
  BY Zenon DEF SignalWakes, PopHead
<1>2. IF K!Preempts(p) THEN K!RequestSwitch(fromThread) ELSE UNCHANGED <<pendSV, atSuspend>>
  <2>1. IF Kernel!Preempts(p) THEN Kernel!RequestSwitch(fromThread)
        ELSE UNCHANGED <<pendSV, atSuspend>>
    BY Zenon DEF SignalWakes
  <2>2. Kernel!RequestSwitch(fromThread) <=> K!RequestSwitch(fromThread)
    BY DEF Kernel!RequestSwitch, K!RequestSwitch
  <2>3. QED
    BY <2>1, <2>2, SameState
<1>3. second = Pointers.next[b] /\ HeadPopped(Pointers, b, m)
  BY DEF Pointers, HeadPopped
<1> HIDE DEF m, second
<1>4. /\ Represents(m, [blocked EXCEPT ![s] = second], Rings, L)
      /\ Unplaced(Rings, L, b)
      /\ b = Head(Lists[s]) /\ b \in Threads /\ (second = NULL <=> Len(Lists[s]) = 1)
  <2>1. Represents(Pointers, blocked, Rings, Lists)
    BY DEF Inv, LInv
  <2>2. b = Head(Lists[s]) /\ b \in Threads /\ (second = NULL <=> Len(Lists[s]) = 1)
    BY <1>3, <2>1, HeadOfList
  <2>3. /\ Represents(m, [blocked EXCEPT ![s] = Pointers.next[blocked[s]]], Rings,
                      [Lists EXCEPT ![s] = Tail(@)])
        /\ Unplaced(Rings, [Lists EXCEPT ![s] = Tail(@)], Head(Lists[s]))
    BY <1>3, <2>1, PopRepresents
  <2>4. QED
    BY <1>3, <2>2, <2>3
<1>5. p \in Priorities
  BY <1>4, Types
<1>6. Represents(addThreadPriority(m, b, p), blocked', R, L)
  <2> HIDE DEF L, b, p
  <2>1. QED
    BY <1>1, <1>4, <1>5, AddRepresents DEF R
<1> HIDE DEF R, L
<1>7. Pointers' = addThreadPriority(m, b, p)
  BY <1>1, <1>6 DEF SetPointers, Pointers, Represents
<1>8. LInv' /\ Rings' = R /\ Lists' = L
  BY <1>6, <1>7, RepresentedNext
<1>9. QED
  BY <1>1, <1>2, <1>4, <1>8 DEF K!SignalWakes, R, L

LEMMA LinksAre == UNCHANGED links => UNCHANGED <<Rings, Lists>>
  BY DEF links, Rings, Lists, Ring, List

LEMMA SignalStep ==
  ASSUME Inv, NEW s \in Semaphores, NEW fromThread, OS_Signal(s, fromThread)
  PROVE  K!OS_Signal(s, fromThread) /\ LInv'
<1>1. IsList(next, prev, blocked[s], Lists[s])
  BY DEF Inv, LInv, Represents, Pointers
<1>2. blocked[s] = NULL <=> Lists[s] = <<>>
  BY <1>1, NoFirst
<1>3. Value[s] < MaxValue
  BY DEF OS_Signal
<1>4. CASE UNCHANGED links /\ Kernel!SignalPasses(s)
  <2>1. K!SignalPasses(s)
    BY <1>4 DEF Kernel!SignalPasses, K!SignalPasses, Rings, Lists
  <2>2. LInv'
    BY <1>4, LinksKept DEF Inv
  <2>3. QED
    BY <1>3, <2>1, <2>2 DEF K!OS_Signal
<1>5. CASE Value[s] < 0 /\ blocked[s] = NULL /\ SignalSpins(s)
  <2>1. UNCHANGED links
    BY <1>5 DEF SignalSpins
  <2>2. LInv'
    BY <2>1, LinksKept DEF Inv
  <2>3. K!SignalSpins(s)
    BY <1>5, <2>1, LinksAre DEF SignalSpins, K!SignalSpins
  <2>4. QED
    BY <1>2, <1>3, <1>5, <2>2, <2>3 DEF K!OS_Signal
<1>6. CASE Value[s] < 0 /\ blocked[s] # NULL /\ SignalFaults(s)
  BY <1>2, <1>3, <1>6, FaultStep DEF K!OS_Signal
<1>7. CASE Value[s] < 0 /\ blocked[s] # NULL /\ SignalWakes(s, fromThread)
  BY <1>2, <1>3, <1>7, WakeStep DEF K!OS_Signal
<1>8. QED
  BY <1>4, <1>5, <1>6, <1>7 DEF OS_Signal

(* The thread the scheduler finds in a ring. *)
LEMMA FirstAliveIs ==
  ASSUME Inv, NEW p \in Priorities
  PROVE  /\ FirstAlive(p) = NULL <=> K!AliveAt(Rings[p]) = {}
         /\ K!AliveAt(Rings[p]) # {} =>
              /\ K!Least(K!AliveAt(Rings[p])) \in 1..Len(Rings[p])
              /\ FirstAlive(p) = Rings[p][K!Least(K!AliveAt(Rings[p]))]
<1> DEFINE q == Rings[p]
           A == K!AliveAt(q)
<1>1. Ring(TCB_priority_array[p]) = q
  BY DEF Rings
<1>2. Sequence(q)
  BY DEF Inv, LInv, Represents, IsRing
<1>3. A = {k \in 1..Len(q) : status[q[k]] = "ALIVE"}
  BY DEF K!AliveAt
<1>4. FirstAlive(p) = IF A = {} THEN NULL ELSE q[Least(A)]
  BY <1>1, <1>3, Zenon DEF FirstAlive
<1>5. A # {} => K!Least(A) \in A
  <2>1. A \in SUBSET Nat
    BY <1>3
  <2> HIDE DEF A
  <2>2. QED
    BY <2>1, ListsAssumption, K!LeastLemma
<1> HIDE DEF A, q
<1>6. A # {} => K!Least(A) \in 1..Len(q) /\ q[K!Least(A)] # NULL
  BY <1>2, <1>3, <1>5, Different
<1>7. QED
  BY <1>4, <1>6, SameSets DEF A, q

(* The head of one ring moves. *)
LEMMA TurnRepresents ==
  ASSUME NEW m, NEW bl, NEW R, NEW L, Represents(m, bl, R, L),
         NEW p \in Priorities, NEW i \in 1..Len(R[p]), NEW m2,
         m2 = [m EXCEPT !.head = [m.head EXCEPT ![p] = m.next[R[p][i]]]]
  PROVE  Represents(m2, bl, [R EXCEPT ![p] = K!RotateTo(@, i)], L)
<1> DEFINE q == R[p]
           r == K!RotateTo(q, i)
           t == q[i]
<1>1. /\ IsRing(m.next, m.prev, m.head[p], q) /\ Sequence(q) /\ q \in Seq(Threads)
           /\ K!IsInjective(q)
      /\ m.next \in Fields /\ m.prev \in Fields
      /\ m.head = [x \in Priorities |-> m.head[x]]
      /\ m = [next |-> m.next, prev |-> m.prev, head |-> m.head]
      /\ R = [x \in Priorities |-> R[x]]
  BY DEF Represents, IsRing, Sequence
<1>2. t \in Threads /\ In(t, q)
  BY <1>1, Different, InIs
<1>3. IsRing(m.next, m.prev, m.next[t], r)
  BY <1>1, RingTurned
<1>4. K!ToSet(r) = K!ToSet(q)
  BY <1>1, ListsAssumption, K!RotationLemma DEF K!RotateTo
<1>5. \A u \in Threads : In(u, r) => u = t \/ In(u, R[p])
  BY <1>4 DEF In
<1> HIDE DEF r
<1>6. /\ m2.next = m.next /\ m2.prev = m.prev /\ m2.head = [m.head EXCEPT ![p] = m.next[t]]
      /\ m2 = [next |-> m2.next, prev |-> m2.prev, head |-> m2.head]
  BY <1>1
<1>7. /\ m2.head = [x \in Priorities |-> m2.head[x]] /\ m2.head[p] = m.next[t]
      /\ \A x \in Priorities \ {p} : m2.head[x] = m.head[x]
  BY <1>1, <1>6
<1>8. /\ \A x \in Priorities \ {p} : ~In(t, R[x])
      /\ \A s \in Semaphores : ~In(t, L[s])
  BY <1>2 DEF Represents, Apart
<1>9. Represents(m2, bl, [R EXCEPT ![p] = r], L)
  <2>1. RingEdited(m, m2, p, t, R[p], r)
    BY <1>1, <1>3, <1>5, <1>6, <1>7 DEF RingEdited
  <2> HIDE DEF t
  <2>2. QED
    BY <1>2, <1>8, <2>1, RingChanged
<1>10. [R EXCEPT ![p] = K!RotateTo(@, i)] = [R EXCEPT ![p] = r]
  BY <1>1 DEF r
<1>11. QED
  BY <1>9, <1>10

LEMMA PendSVStep ==
  ASSUME Inv, PendSV_Handler
  PROVE  K!PendSV_Handler /\ LInv'
<1> DEFINE S == {x \in Priorities : FirstAlive(x) # NULL}
           p == K!Least(K!Runnable)
           A == K!AliveAt(Rings[p])
           i == K!Least(A)
           t == Rings[p][i]
           R == [Rings EXCEPT ![p] = IF Len(@) = 1 THEN @ ELSE K!RotateTo(@, i)]
<1>1. /\ K!Up /\ pendSV /\ pendSV' = FALSE
      /\ status' = IF status[currThread] = "DYING"
                   THEN [status EXCEPT ![currThread] = "DEAD"] ELSE status
      /\ UNCHANGED <<sleep, priority, Value, atSuspend, launched>>
  BY SameState DEF PendSV_Handler
<1>2. \/ S = {} /\ currThread' = NULL /\ machine' = "nothread" /\ UNCHANGED links
      \/ /\ S # {}
         /\ currThread' = FirstAlive(Least(S))
         /\ TCB_priority_array' =
              IF next[FirstAlive(Least(S))] = FirstAlive(Least(S)) THEN TCB_priority_array
              ELSE [TCB_priority_array EXCEPT ![Least(S)] = next[FirstAlive(Least(S))]]
         /\ UNCHANGED <<next, prev, blocked, machine>>
  BY Zenon DEF PendSV_Handler
<1>3. S = K!Runnable
  BY FirstAliveIs, SameSets DEF K!Runnable
<1>4. Least(S) = p
  BY <1>3, SameSets
<1>5. CASE S = {}
  <2>1. currThread' = NULL /\ machine' = "nothread" /\ UNCHANGED links
    BY <1>2, <1>5
  <2>2. UNCHANGED <<Rings, Lists>>
    BY <2>1, LinksAre
  <2>3. LInv'
    BY <2>1, LinksKept DEF Inv
  <2>4. K!Scheduler
    BY <1>1, <1>3, <1>5, <2>1, <2>2, SameSets DEF K!Scheduler
  <2>5. QED
    BY <1>1, <2>2, <2>3, <2>4 DEF K!PendSV_Handler
<1>6. CASE S # {}
  <2>1. p \in Priorities /\ A # {}
    <3>1. K!Runnable \in SUBSET Nat
      BY SameSets, Sizes, ListsAssumption DEF K!Runnable, Kernel!KernelAssumption, Priorities
    <3>2. p \in K!Runnable
      BY <1>3, <1>6, <3>1, ListsAssumption, K!LeastLemma
    <3> HIDE DEF p
    <3>3. QED
      BY <3>2, SameSets DEF K!Runnable
  <2>2. i \in 1..Len(Rings[p]) /\ FirstAlive(p) = t
    BY <2>1, FirstAliveIs
  <2>3. /\ currThread' = t
        /\ TCB_priority_array' = IF next[t] = t THEN TCB_priority_array
                                 ELSE [TCB_priority_array EXCEPT ![p] = next[t]]
        /\ UNCHANGED <<next, prev, blocked, machine>>
    BY <1>2, <1>4, <1>6, <2>2
  <2>4. Represents(Pointers, blocked, Rings, Lists)
    BY DEF Inv, LInv
  <2> HIDE DEF S, A, i, p
  <2>5. next[t] = t <=> Len(Rings[p]) = 1
    <3>1. IsRing(next, prev, TCB_priority_array[p], Rings[p])
      BY <2>1, <2>4 DEF Represents, Pointers
    <3>2. QED
      BY <2>2, <3>1, AloneInRing
  <2>6. Rings = [x \in Priorities |-> Rings[x]]
    BY <2>4 DEF Represents
  <2>7. Represents(Pointers', blocked', R, Lists)
    <3>1. CASE Len(Rings[p]) = 1
      <4>1. Pointers' = Pointers /\ blocked' = blocked
        BY <2>3, <2>5, <3>1 DEF Pointers
      <4>2. R = Rings
        BY <2>6, <3>1
      <4>3. QED
        BY <2>4, <4>1, <4>2
    <3>2. CASE Len(Rings[p]) # 1
      <4> DEFINE m2 == Pointers'
      <4>1. /\ m2 = [Pointers EXCEPT !.head =
                        [Pointers.head EXCEPT ![p] = Pointers.next[Rings[p][i]]]]
            /\ blocked' = blocked
        BY <2>3, <2>5, <3>2 DEF Pointers
      <4>2. R = [Rings EXCEPT ![p] = K!RotateTo(@, i)]
        BY <2>6, <3>2
      <4> HIDE DEF R, m2
      <4>3. Represents(m2, blocked, [Rings EXCEPT ![p] = K!RotateTo(@, i)], Lists)
        BY ONLY <2>1, <2>2, <2>4, <4>1, TurnRepresents
      <4>4. QED
        BY <4>1, <4>2, <4>3 DEF m2
    <3>3. QED
      BY <3>1, <3>2
  <2> HIDE DEF R
  <2>8. LInv' /\ Rings' = R /\ Lists' = Lists
    BY <2>7, RepresentedNext
  <2>9. K!getNextPriorityThreadAndUpdateList
    BY <2>3, <2>8 DEF K!getNextPriorityThreadAndUpdateList, R, A, i, p
  <2>10. K!Scheduler
    BY <1>1, <1>3, <1>6, <2>3, <2>9 DEF K!Scheduler
  <2>11. QED
    BY <1>1, <2>3, <2>8, <2>10 DEF K!PendSV_Handler
<1>7. QED
  BY <1>5, <1>6

-----------------------------------------------------------------------------
(* Every step.                                                             *)

LEMMA SameActions ==
  /\ Kernel!OS_Launch <=> K!OS_Launch
  /\ Kernel!SysTick_Handler <=> K!SysTick_Handler
  /\ \A t : Kernel!OS_Suspend(t) <=> K!OS_Suspend(t)
  /\ \A t, s : Kernel!WaitPasses(t, s) <=> K!WaitPasses(t, s)
  /\ \A t, n : Kernel!OS_Sleep(t, n) <=> K!OS_Sleep(t, n)
<1>1. /\ Kernel!OS_Launch <=> K!OS_Launch
      /\ Kernel!SysTick_Handler <=> K!SysTick_Handler
  BY SameState DEF Kernel!OS_Launch, K!OS_Launch, Kernel!SysTick_Handler, K!SysTick_Handler,
         Kernel!Ticked, K!Ticked, Kernel!PREEMPTIVE, K!PREEMPTIVE, Kernel!Threads, K!Threads,
         Kernel!NULL, K!NULL, Rings, Lists
<1>2. \A t : Kernel!OS_Suspend(t) <=> K!OS_Suspend(t)
  BY DEF Kernel!OS_Suspend, K!OS_Suspend, Kernel!Executing, K!Executing, Kernel!Up, K!Up,
         Rings, Lists
<1>3. \A t, s : Kernel!WaitPasses(t, s) <=> K!WaitPasses(t, s)
  BY SameState DEF Kernel!WaitPasses, K!WaitPasses, Rings, Lists
<1>4. \A t, n : Kernel!OS_Sleep(t, n) <=> K!OS_Sleep(t, n)
  BY SameState DEF Kernel!OS_Sleep, K!OS_Sleep, Rings, Lists
<1>5. QED
  BY <1>1, <1>2, <1>3, <1>4

LEMMA ThreadStepped ==
  ASSUME Inv, NEW t \in Threads, ThreadStep(t)
  PROVE  K!ThreadStep(t) /\ LInv'
<1>1. CASE UNCHANGED links /\ Kernel!OS_Suspend(t)
  BY <1>1, LinksKept, SameActions DEF K!ThreadStep, Inv
<1>2. CASE \E s \in Semaphores : \/ UNCHANGED links /\ Kernel!WaitPasses(t, s)
                                 \/ WaitBlocks(t, s)
  <2>1. PICK s \in Semaphores : \/ UNCHANGED links /\ Kernel!WaitPasses(t, s)
                                \/ WaitBlocks(t, s)
    BY <1>2
  <2>2. K!OS_Wait(t, s) /\ LInv'
    BY <2>1, LinksKept, SameActions, WaitStep DEF K!OS_Wait, Inv
  <2>3. QED
    BY <2>2 DEF K!ThreadStep
<1>3. CASE \E s \in Semaphores : Kernel!Running(t) /\ OS_Signal(s, TRUE)
  <2>1. PICK s \in Semaphores : Kernel!Running(t) /\ OS_Signal(s, TRUE)
    BY <1>3
  <2>2. K!Running(t) /\ K!OS_Signal(s, TRUE) /\ LInv'
    BY <2>1, SameState, SignalStep
  <2>3. QED
    BY <2>2 DEF K!ThreadStep
<1>4. CASE UNCHANGED links /\ \E n \in 0..MaxSleep : Kernel!OS_Sleep(t, n)
  BY <1>4, LinksKept, SameActions DEF K!ThreadStep, Inv
<1>5. CASE OS_Kill(t)
  BY <1>5, KillStep DEF K!ThreadStep
<1>6. CASE \E p \in Priorities : Kernel!Running(t) /\ OS_AddThread(p)
  <2>1. PICK p \in Priorities : Kernel!Running(t) /\ OS_AddThread(p)
    BY <1>6
  <2>2. K!Running(t) /\ machine # "fault"
    BY <2>1, SameState DEF K!Running, K!Executing, K!Up
  <2>3. K!OS_AddThread(p) /\ LInv'
    BY <2>1, <2>2, AddStep
  <2>4. QED
    BY <2>2, <2>3, SameSets DEF K!ThreadStep
<1>7. QED
  BY <1>1, <1>2, <1>3, <1>4, <1>5, <1>6 DEF ThreadStep

LEMMA MainAddStep ==
  ASSUME Inv, MainAdds
  PROVE  K!MainAdds /\ LInv'
<1>1. ~launched /\ machine # "fault"
  BY DEF MainAdds, Inv, K!IInv, K!Control
<1>2. PICK p \in Priorities : OS_AddThread(p)
  BY DEF MainAdds
<1>3. K!OS_AddThread(p) /\ LInv'
  BY <1>1, <1>2, AddStep
<1>4. K!Dead' # {} \/ K!HasIdle'
  <2>1. Kernel!Dead' # {} \/ Kernel!HasIdle'
    BY DEF MainAdds
  <2>2. Kernel!Dead' = K!Dead' /\ (Kernel!HasIdle' <=> K!HasIdle')
    BY DEF Kernel!Dead, K!Dead, Kernel!Threads, K!Threads, Kernel!HasIdle, K!HasIdle,
           Kernel!Priorities, K!Priorities
  <2>3. QED
    BY <2>1, <2>2
<1>5. QED
  BY <1>1, <1>3, <1>4, SameSets DEF K!MainAdds

LEMMA Stepped ==
  ASSUME Inv, Next
  PROVE  K!Next /\ LInv'
<1>1. CASE MainAdds
  BY <1>1, MainAddStep DEF K!Next
<1>2. CASE UNCHANGED links /\ Kernel!OS_Launch
  BY <1>2, LinksKept, SameActions DEF K!Next, Inv
<1>3. CASE \E t \in Threads : ThreadStep(t)
  BY <1>3, ThreadStepped, SameSets DEF K!Next
<1>4. CASE \E s \in Semaphores : Kernel!Up /\ OS_Signal(s, FALSE)
  BY <1>4, SignalStep, SameState DEF K!Next, K!ISRSignals
<1>5. CASE Kernel!Up /\ \E p \in Priorities : OS_AddThread(p)
  <2>1. K!Up /\ machine # "fault"
    BY <1>5, SameState DEF K!Up
  <2>2. QED
    BY <1>5, <2>1, AddStep, SameSets DEF K!Next, K!ISRAdds
<1>6. CASE UNCHANGED links /\ Kernel!SysTick_Handler
  BY <1>6, LinksKept, SameActions DEF K!Next, Inv
<1>7. CASE PendSV_Handler
  BY <1>7, PendSVStep DEF K!Next
<1>8. QED
  BY <1>1, <1>2, <1>3, <1>4, <1>5, <1>6, <1>7 DEF Next

(* Every step of the pointer code is the step of the kernel it stands for. *)
LEMMA NextStep ==
  ASSUME Inv, [Next]_vars
  PROVE  [K!Next]_(K!vars) /\ Inv'
<1>1. [K!Next]_(K!vars) /\ LInv'
  <2>1. CASE Next
    BY <2>1, Stepped
  <2>2. CASE UNCHANGED vars
    <3>1. UNCHANGED links
      BY <2>2 DEF vars
    <3>2. UNCHANGED <<Rings, Lists>> /\ LInv'
      BY <3>1, LinksAre, LinksKept DEF Inv
    <3>3. K!vars' = K!vars
      BY <2>2, <3>2 DEF vars, K!vars
    <3>4. QED
      BY <3>2, <3>3
  <2>3. QED
    BY <2>1, <2>2
<1>2. K!IInv'
  BY <1>1, ListsAssumption, K!NextInv DEF Inv
<1>3. QED
  BY <1>1, <1>2 DEF Inv

-----------------------------------------------------------------------------
(* The theorems.                                                           *)

(* The pointers of the TCBs and the heads represent, in every state, rings  *)
(* and lists that keep the invariant of the kernel.                         *)
THEOREM Invariance == Spec => []Inv
<1>1. QED
  BY Empty, NextStep, PTL DEF Spec

(* The code that follows and rewrites next and prev does what OSKernel does *)
(* with sequences: every theorem about OSKernel is one about the pointers.  *)
THEOREM PointersImplementKernel == Spec => ImplementsKernel
<1>1. Init => Kernel!Init
  BY DEF Init
<1>2. Inv /\ [Next]_vars => [Kernel!Next]_(Kernel!vars)
  <2>1. Kernel!vars' = K!vars'
    BY DEF Kernel!vars, K!vars, Rings, Lists
  <2>2. QED
    BY <2>1, NextStep, SameKernel
<1>3. QED
  BY <1>1, <1>2, Invariance, PTL DEF Spec, ImplementsKernel, Kernel!Spec

(* A thread of a ring or a list has neighbours that point back at it.      *)
LEMMA LinkedBothWays == Inv => DoublyLinked
<1> SUFFICES ASSUME Inv, machine # "fault", NEW t \in Threads
             PROVE  /\ status[t] \in {"ALIVE", "SLEEPING"} =>
                         next[t] # NULL /\ prev[next[t]] = t
                    /\ status[t] = "BLOCKED" =>
                         IF prev[t] = NULL THEN \E s \in Semaphores : blocked[s] = t
                         ELSE next[prev[t]] = t
  BY DEF DoublyLinked
<1>1. /\ priority[t] \in Priorities
      /\ status[t] \in {"ALIVE", "SLEEPING"} => In(t, Rings[priority[t]])
      /\ status[t] = "BLOCKED" => \E s \in Semaphores : In(t, Lists[s])
  BY Types, SameSets DEF Inv, K!IInv, K!Linked, K!Rings, K!Lists, K!InRing, In
<1>2. ASSUME NEW p \in Priorities, In(t, Rings[p])
      PROVE  next[t] # NULL /\ prev[next[t]] = t
  <2> DEFINE q == Rings[p]
             h == TCB_priority_array[p]
             n == Len(q)
  <2>1. IsRing(next, prev, h, q)
    BY DEF Inv, LInv, Represents, Pointers
  <2>2. Sequence(q) /\ n \in Nat /\ \A i \in 1..n : q[i] # NULL
    BY <2>1, Different DEF IsRing
  <2>3. PICK k \in 1..n : q[k] = t
    BY <1>2, <2>2, InIs
  <2> HIDE DEF q, h
  <2>4. \A j \in 1..n : /\ next[q[j]] = IF j = n THEN q[1] ELSE q[j + 1]
                        /\ prev[q[j]] = IF j = 1 THEN q[n] ELSE q[j - 1]
    BY <2>1, RingNeighbours
  <2>5. CASE k = n
    <3>1. 1 \in 1..n
      BY <2>2, <2>3
    <3>2. QED
      BY <2>2, <2>3, <2>4, <2>5, <3>1
  <2>6. CASE k # n
    <3>1. k + 1 \in 1..n /\ k + 1 # 1 /\ k + 1 - 1 = k
      BY <2>2, <2>3, <2>6
    <3>2. QED
      BY <2>2, <2>3, <2>4, <2>6, <3>1
  <2>7. QED
    BY <2>5, <2>6
<1>3. ASSUME NEW s \in Semaphores, In(t, Lists[s]), prev[t] = NULL
      PROVE  blocked[s] = t
  <2> DEFINE q == Lists[s]
  <2>1. IsList(next, prev, blocked[s], q)
    BY DEF Inv, LInv, Represents, Pointers
  <2>2. Sequence(q) /\ Len(q) \in Nat /\ \A i \in 1..Len(q) : q[i] # NULL
    BY <2>1, Different DEF IsList
  <2>3. PICK k \in 1..Len(q) : q[k] = t
    BY <1>3, <2>2, InIs
  <2> HIDE DEF q
  <2>4. prev[q[k]] = IF k = 1 THEN NULL ELSE q[k - 1]
    BY <2>1, ListNeighbours
  <2>5. k # 1 => k - 1 \in 1..Len(q)
    BY <2>2, <2>3
  <2>6. k = 1
    BY <1>3, <2>2, <2>3, <2>4, <2>5
  <2>7. q # <<>>
    BY <2>2, <2>3
  <2>8. QED
    BY <2>1, <2>3, <2>6, <2>7 DEF IsList
<1>4. ASSUME NEW s \in Semaphores, In(t, Lists[s]), prev[t] # NULL
      PROVE  next[prev[t]] = t
  <2> DEFINE q == Lists[s]
  <2>1. IsList(next, prev, blocked[s], q)
    BY DEF Inv, LInv, Represents, Pointers
  <2>2. Sequence(q) /\ Len(q) \in Nat
    BY <2>1, Different DEF IsList
  <2>3. PICK k \in 1..Len(q) : q[k] = t
    BY <1>4, <2>2, InIs
  <2> HIDE DEF q
  <2>4. \A j \in 1..Len(q) : /\ next[q[j]] = IF j = Len(q) THEN NULL ELSE q[j + 1]
                             /\ prev[q[j]] = IF j = 1 THEN NULL ELSE q[j - 1]
    BY <2>1, ListNeighbours
  <2>5. k # 1
    BY <1>4, <2>3, <2>4
  <2>6. k - 1 \in 1..Len(q) /\ k - 1 # Len(q) /\ k - 1 + 1 = k
    BY <2>2, <2>3, <2>5
  <2>7. QED
    BY <2>3, <2>4, <2>5, <2>6
<1>5. QED
  BY <1>1, <1>2, <1>3, <1>4

(* In a ring or a list prev undoes next, so the code that takes a TCB out   *)
(* through its neighbours never writes to a TCB of another ring or list.    *)
THEOREM LinksConsistent == Spec => []DoublyLinked
<1>1. QED
  BY Invariance, LinkedBothWays, PTL

(* What is proved of the kernel holds of the rings and lists the pointers   *)
(* make up: every TCB is in the one its status says, the lists are in order *)
(* of priority and arrival, and the semaphores are counting semaphores.     *)
THEOREM PointersKeepKernelTheorems ==
  Spec => []K!Placement /\ []K!WaitersSorted /\ K!NoOvertaking /\ K!ImplementsSemaphore
<1>1. Spec => K!Spec
  <2>1. Init => K!Init
    BY SameKernel DEF Init
  <2>2. Inv /\ [Next]_vars => [K!Next]_(K!vars)
    BY NextStep
  <2>3. QED
    BY <2>1, <2>2, Invariance, PTL DEF Spec, K!Spec
<1>2. QED
  BY <1>1, ListsAssumption, K!ThreadsPlaced, K!ListsSorted, K!EqualsInOrder,
     K!SemaphoresImplemented, PTL
=============================================================================
