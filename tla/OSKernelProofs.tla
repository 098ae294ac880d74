---------------------------- MODULE OSKernelProofs ----------------------------
(***************************************************************************)
(* Theorems about OSKernel, for any number of threads, priorities and      *)
(* semaphores, any initial values and any idle priority.                   *)
(*                                                                         *)
(* IInv is the inductive invariant.  Its core is Linked: a ring holds      *)
(* exactly the threads that can run or sleep at its priority, once each,   *)
(* the blocked lists are disjoint and hold exactly the blocked threads.    *)
(* Without it removeThreadPriority could be called for a TCB that is not   *)
(* in the ring and not even the types would be preserved.                  *)
(* What the semaphores promise is proved with it at the end.               *)
(***************************************************************************)
EXTENDS OSKernel, SequenceTheorems, WellFoundedInduction, TLAPS

-----------------------------------------------------------------------------
(* What the sequence operations do to the length, the elements and the     *)
(* absence of duplicates of a list of threads.                             *)

(* A non-empty set of natural numbers has a least element. *)
LEMMA LeastExists ==
  ASSUME NEW S \in SUBSET Nat, S # {}
  PROVE  \E x \in S : \A y \in S : x <= y
<1>1. \E x \in S : \A y \in S : ~(<<y, x>> \in OpToRel(<, Nat))
  BY NatLessThanWellFounded, WFMin
<1>2. \A x, y \in Nat : y < x => <<y, x>> \in OpToRel(<, Nat)
  BY DEF OpToRel
<1>3. PICK x \in S : \A y \in S : ~(<<y, x>> \in OpToRel(<, Nat))
  BY <1>1
<1>4. \A y \in S : ~(y < x)
  BY <1>2, <1>3
<1>5. QED
  BY <1>4

(* The elements of a sequence, by their positions. *)
LEMMA ToSetElement ==
  ASSUME NEW S, NEW q \in Seq(S), NEW x
  PROVE  /\ x \in ToSet(q) <=> \E i \in 1..Len(q) : q[i] = x
         /\ ToSet(q) \subseteq S
  BY DEF ToSet

(* An injective sequence has no two equal elements at different places. *)
LEMMA InjectiveElements ==
  ASSUME NEW S, NEW q \in Seq(S)
  PROVE  IsInjective(q) <=> \A i, j \in 1..Len(q) : q[i] = q[j] => i = j
  BY DEF IsInjective

(* Append adds one element and keeps a sequence injective if it was not in it. *)
LEMMA AppendLemma ==
  ASSUME NEW S, NEW q \in Seq(S), NEW x \in S
  PROVE  /\ Append(q, x) \in Seq(S)
         /\ Len(Append(q, x)) = Len(q) + 1
         /\ ToSet(Append(q, x)) = ToSet(q) \cup {x}
         /\ IsInjective(q) /\ x \notin ToSet(q) => IsInjective(Append(q, x))
<1> DEFINE r == Append(q, x)
<1>1. /\ r \in Seq(S)
      /\ Len(r) = Len(q) + 1
      /\ \A j \in 1..Len(q) : r[j] = q[j]
      /\ r[Len(q) + 1] = x
  OBVIOUS
<1>2. Len(q) \in Nat
  OBVIOUS
<1> HIDE DEF r
<1>3. \A y : y \in ToSet(r) <=> y \in ToSet(q) \/ y = x
  BY <1>1, <1>2, ToSetElement
<1>4. ASSUME IsInjective(q), x \notin ToSet(q)
      PROVE  IsInjective(r)
  BY <1>1, <1>2, <1>4, ToSetElement, InjectiveElements
<1>5. QED
  BY <1>1, <1>3, <1>4 DEF r

(* RemoveAt takes out one place and shifts the later ones down. *)
LEMMA RemoveAtLemma ==
  ASSUME NEW S, NEW q \in Seq(S), NEW i \in 1..Len(q)
  PROVE  /\ RemoveAt(q, i) \in Seq(S)
         /\ Len(RemoveAt(q, i)) = Len(q) - 1
         /\ \A j \in 1..Len(q) - 1 : RemoveAt(q, i)[j] = IF j < i THEN q[j] ELSE q[j + 1]
<1> DEFINE a == SubSeq(q, 1, i - 1)
           b == SubSeq(q, i + 1, Len(q))
<1>1. i \in Nat /\ Len(q) \in Nat /\ i >= 1 /\ i <= Len(q)
  OBVIOUS
<1>2. /\ a \in Seq(S)
      /\ Len(a) = i - 1
      /\ \A j \in 1..i - 1 : a[j] = q[j]
  BY <1>1, SubSeqProperties, ElementOfSeq
<1>3. /\ b \in Seq(S)
      /\ Len(b) = Len(q) - i
      /\ \A j \in 1..Len(q) - i : b[j] = q[j + i]
  BY <1>1, SubSeqProperties, ElementOfSeq
<1>4. RemoveAt(q, i) = a \o b
  BY DEF RemoveAt
<1> HIDE DEF a, b
<1>5. /\ a \o b \in Seq(S)
      /\ Len(a \o b) = Len(a) + Len(b)
      /\ \A j \in 1..Len(a) + Len(b) : (a \o b)[j] = IF j <= Len(a) THEN a[j] ELSE b[j - Len(a)]
  BY <1>2, <1>3, ConcatProperties
<1>6. QED
  BY <1>1, <1>2, <1>3, <1>4, <1>5

(* RemoveAt of an injective sequence removes exactly one element. *)
LEMMA RemoveAtSet ==
  ASSUME NEW S, NEW q \in Seq(S), NEW i \in 1..Len(q), IsInjective(q)
  PROVE  /\ ToSet(RemoveAt(q, i)) = ToSet(q) \ {q[i]}
         /\ IsInjective(RemoveAt(q, i))
<1> DEFINE r == RemoveAt(q, i)
<1>1. /\ r \in Seq(S)
      /\ Len(r) = Len(q) - 1
      /\ \A j \in 1..Len(q) - 1 : r[j] = IF j < i THEN q[j] ELSE q[j + 1]
  BY RemoveAtLemma
<1>0. Len(q) \in Nat /\ \A j, k \in 1..Len(q) : q[j] = q[k] => j = k
  BY InjectiveElements
<1> HIDE DEF r
<1>2. IsInjective(r)
  <2> DEFINE f(j) == IF j < i THEN j ELSE j + 1
  <2>a. \A j \in 1..Len(r) : f(j) \in 1..Len(q) /\ r[j] = q[f(j)]
    BY <1>0, <1>1
  <2>b. \A j, k \in 1..Len(r) : f(j) = f(k) => j = k
    BY <1>0, <1>1
  <2> HIDE DEF f
  <2>1. \A j, k \in 1..Len(r) : r[j] = r[k] => j = k
    BY <1>0, <2>a, <2>b
  <2>2. QED
    BY <2>1, <1>1, InjectiveElements
<1>3. ASSUME NEW y \in ToSet(r)
      PROVE  y \in ToSet(q) /\ y # q[i]
  <2>1. PICK j \in 1..Len(r) : r[j] = y
    BY <1>1, <1>3, ToSetElement
  <2>2. \E k \in 1..Len(q) : k # i /\ q[k] = y
    BY <1>0, <1>1, <2>1
  <2>3. QED
    BY <1>0, <2>2, ToSetElement
<1>4. ASSUME NEW y \in ToSet(q), y # q[i]
      PROVE  y \in ToSet(r)
  <2>1. PICK k \in 1..Len(q) : q[k] = y
    BY ToSetElement
  <2>2. CASE k < i
    <3>1. r[k] = y /\ k \in 1..Len(r)
      BY <1>0, <1>1, <2>1, <2>2
    <3>2. QED
      BY <3>1, <1>1, ToSetElement
  <2>3. CASE k > i
    <3>1. r[k - 1] = y /\ k - 1 \in 1..Len(r)
      BY <1>0, <1>1, <2>1, <2>3
    <3>2. QED
      BY <3>1, <1>1, ToSetElement
  <2>4. QED
    BY <1>0, <1>4, <2>1, <2>2, <2>3
<1>5. QED
  BY <1>2, <1>3, <1>4 DEF r

(* Tail removes exactly the head of an injective sequence. *)
LEMMA TailLemma ==
  ASSUME NEW S, NEW q \in Seq(S), q # <<>>
  PROVE  /\ Tail(q) \in Seq(S)
         /\ Len(Tail(q)) = Len(q) - 1
         /\ Head(q) = q[1]
         /\ Head(q) \in ToSet(q)
         /\ IsInjective(q) => /\ ToSet(Tail(q)) = ToSet(q) \ {Head(q)}
                              /\ IsInjective(Tail(q))
<1> DEFINE r == Tail(q)
<1>1. /\ r \in Seq(S)
      /\ Len(r) = Len(q) - 1
      /\ \A j \in 1..Len(q) - 1 : r[j] = q[j + 1]
      /\ Head(q) = q[1]
      /\ Len(q) \in Nat \ {0}
  OBVIOUS
<1>2. Head(q) \in ToSet(q)
  BY <1>1, ToSetElement
<1> HIDE DEF r
<1>3. ASSUME IsInjective(q)
      PROVE  ToSet(r) = ToSet(q) \ {q[1]} /\ IsInjective(r)
  <2>1. \A i, j \in 1..Len(q) : q[i] = q[j] => i = j
    BY <1>3, InjectiveElements
  <2>2. IsInjective(r)
    <3>1. \A i, j \in 1..Len(r) : r[i] = r[j] => i = j
      BY <1>1, <2>1
    <3>2. QED
      BY <3>1, <1>1, InjectiveElements
  <2>3. ASSUME NEW y \in ToSet(r)
        PROVE  y \in ToSet(q) /\ y # q[1]
    <3>1. PICK j \in 1..Len(r) : r[j] = y
      BY <1>1, <2>3, ToSetElement
    <3>2. \E k \in 1..Len(q) : k # 1 /\ q[k] = y
      BY <1>1, <3>1
    <3>3. QED
      BY <1>1, <2>1, <3>2, ToSetElement
  <2>4. ASSUME NEW y \in ToSet(q), y # q[1]
        PROVE  y \in ToSet(r)
    <3>1. PICK k \in 1..Len(q) : q[k] = y
      BY <2>4, ToSetElement
    <3>2. k - 1 \in 1..Len(r) /\ r[k - 1] = y
      BY <1>1, <2>4, <3>1
    <3>3. QED
      BY <1>1, <3>2, ToSetElement
  <2>5. QED
    BY <2>2, <2>3, <2>4
<1>4. QED
  BY <1>1, <1>2, <1>3 DEF r

(* InsertAt opens one place and shifts the later ones up. *)
LEMMA InsertAtLemma ==
  ASSUME NEW S, NEW q \in Seq(S), NEW x \in S, NEW i \in 1..Len(q) + 1
  PROVE  /\ InsertAt(q, i, x) \in Seq(S)
         /\ Len(InsertAt(q, i, x)) = Len(q) + 1
         /\ \A j \in 1..Len(q) + 1 :
              InsertAt(q, i, x)[j] = IF j < i THEN q[j] ELSE IF j = i THEN x ELSE q[j - 1]
<1> DEFINE a == SubSeq(q, 1, i - 1)
           b == SubSeq(q, i, Len(q))
           c == a \o <<x>>
<1>1. i \in Nat /\ Len(q) \in Nat /\ i >= 1 /\ i <= Len(q) + 1
  OBVIOUS
<1>2. /\ a \in Seq(S)
      /\ Len(a) = i - 1
      /\ \A j \in 1..i - 1 : a[j] = q[j]
  BY <1>1, SubSeqProperties, ElementOfSeq
<1>3. /\ b \in Seq(S)
      /\ Len(b) = Len(q) - i + 1
      /\ \A j \in 1..Len(q) - i + 1 : b[j] = q[j + i - 1]
  BY <1>1, SubSeqProperties, ElementOfSeq
<1>4. <<x>> \in Seq(S) /\ Len(<<x>>) = 1 /\ <<x>>[1] = x
  OBVIOUS
<1>5. InsertAt(q, i, x) = c \o b
  BY DEF InsertAt
<1> HIDE DEF a, b
<1>6. /\ c \in Seq(S)
      /\ Len(c) = i
      /\ \A j \in 1..i : c[j] = IF j < i THEN q[j] ELSE x
  <2>1. /\ c \in Seq(S)
        /\ Len(c) = Len(a) + 1
        /\ \A j \in 1..Len(a) + 1 : c[j] = IF j <= Len(a) THEN a[j] ELSE <<x>>[j - Len(a)]
    BY <1>2, <1>4, ConcatProperties
  <2>2. QED
    BY <1>1, <1>2, <1>4, <2>1
<1> HIDE DEF c
<1>7. /\ c \o b \in Seq(S)
      /\ Len(c \o b) = Len(c) + Len(b)
      /\ \A j \in 1..Len(c) + Len(b) : (c \o b)[j] = IF j <= Len(c) THEN c[j] ELSE b[j - Len(c)]
  BY <1>3, <1>6, ConcatProperties
<1>8. QED
  BY <1>1, <1>3, <1>5, <1>6, <1>7

(* InsertAt adds exactly one element. *)
LEMMA InsertAtSet ==
  ASSUME NEW S, NEW q \in Seq(S), NEW x \in S, NEW i \in 1..Len(q) + 1
  PROVE  /\ ToSet(InsertAt(q, i, x)) = ToSet(q) \cup {x}
         /\ IsInjective(q) /\ x \notin ToSet(q) => IsInjective(InsertAt(q, i, x))
<1> DEFINE r == InsertAt(q, i, x)
<1>1. /\ r \in Seq(S)
      /\ Len(r) = Len(q) + 1
      /\ \A j \in 1..Len(q) + 1 : r[j] = IF j < i THEN q[j] ELSE IF j = i THEN x ELSE q[j - 1]
  BY InsertAtLemma
<1>2. i \in Nat /\ Len(q) \in Nat /\ i >= 1 /\ i <= Len(q) + 1
  OBVIOUS
<1> HIDE DEF r
<1>3. ASSUME NEW y \in ToSet(r), y # x
      PROVE  y \in ToSet(q)
  <2>1. PICK j \in 1..Len(r) : r[j] = y
    BY <1>1, <1>3, ToSetElement
  <2>2. \E k \in 1..Len(q) : q[k] = y
    <3>1. CASE j < i
      BY <1>1, <1>2, <2>1, <3>1
    <3>2. CASE j > i
      <4>1. j - 1 \in 1..Len(q) /\ q[j - 1] = y
        BY <1>1, <1>2, <2>1, <3>2
      <4>2. QED
        BY <4>1
    <3>3. QED
      BY <1>1, <1>2, <1>3, <2>1, <3>1, <3>2
  <2>3. QED
    BY <2>2, ToSetElement
<1>4. x \in ToSet(r)
  <2>1. i \in 1..Len(r) /\ r[i] = x
    BY <1>1, <1>2
  <2>2. QED
    BY <1>1, <2>1, ToSetElement
<1>5. ASSUME NEW y \in ToSet(q)
      PROVE  y \in ToSet(r)
  <2>1. PICK k \in 1..Len(q) : q[k] = y
    BY <1>5, ToSetElement
  <2>2. \E j \in 1..Len(r) : r[j] = y
    <3>1. CASE k < i
      BY <1>1, <1>2, <2>1, <3>1
    <3>2. CASE k >= i
      <4>1. k + 1 \in 1..Len(r) /\ r[k + 1] = y
        BY <1>1, <1>2, <2>1, <3>2
      <4>2. QED
        BY <4>1
    <3>3. QED
      BY <1>2, <3>1, <3>2
  <2>3. QED
    BY <1>1, <2>2, ToSetElement
<1>6. ASSUME IsInjective(q), x \notin ToSet(q)
      PROVE  IsInjective(r)
  <2>1. /\ \A j, k \in 1..Len(q) : q[j] = q[k] => j = k
        /\ \A k \in 1..Len(q) : q[k] # x
    BY <1>6, InjectiveElements, ToSetElement
  <2> DEFINE f(j) == IF j < i THEN j ELSE j - 1
  <2>2. ASSUME NEW j \in 1..Len(r), j # i
        PROVE  f(j) \in 1..Len(q) /\ r[j] = q[f(j)]
    <3>1. j \in 1..Len(q) + 1 /\ j \in Int
      BY <1>1, <1>2
    <3>2. r[j] = IF j < i THEN q[j] ELSE q[j - 1]
      BY <1>1, <2>2, <3>1
    <3>3. CASE j < i
      BY <1>2, <3>1, <3>2, <3>3
    <3>4. CASE j > i
      BY <1>2, <3>1, <3>2, <3>4
    <3>5. QED
      BY <1>2, <2>2, <3>1, <3>3, <3>4
  <2>3. ASSUME NEW j \in 1..Len(r), NEW k \in 1..Len(r), j # i, k # i, f(j) = f(k)
        PROVE  j = k
    <3>1. j \in Int /\ k \in Int /\ i \in Int
      OBVIOUS
    <3>2. QED
      BY <2>3, <3>1
  <2>4. i \in 1..Len(r) /\ r[i] = x
    BY <1>1, <1>2
  <2> HIDE DEF f
  <2>5. ASSUME NEW j \in 1..Len(r), NEW k \in 1..Len(r), r[j] = r[k]
        PROVE  j = k
    <3>1. CASE j = i
      BY <2>1, <2>2, <2>4, <2>5, <3>1
    <3>2. CASE k = i
      BY <2>1, <2>2, <2>4, <2>5, <3>2
    <3>3. CASE j # i /\ k # i
      <4>1. f(j) = f(k)
        BY <2>1, <2>2, <2>5, <3>3
      <4>2. QED
        BY <2>3, <3>3, <4>1
    <3>4. QED
      BY <3>1, <3>2, <3>3
  <2>6. QED
    BY <1>1, <2>5, InjectiveElements
<1>7. QED
  BY <1>3, <1>4, <1>5, <1>6 DEF r

(* Turning a sequence round keeps its length, its elements and injectivity. *)
LEMMA RotationLemma ==
  ASSUME NEW S, NEW q \in Seq(S), NEW i \in 1..Len(q)
  PROVE  LET r == SubSeq(q, i + 1, Len(q)) \o SubSeq(q, 1, i)
         IN  /\ r \in Seq(S)
             /\ Len(r) = Len(q)
             /\ \A j \in 1..Len(q) :
                  r[j] = IF j <= Len(q) - i THEN q[j + i] ELSE q[j - (Len(q) - i)]
             /\ ToSet(r) = ToSet(q)
             /\ IsInjective(q) => IsInjective(r)
<1> DEFINE a == SubSeq(q, i + 1, Len(q))
           b == SubSeq(q, 1, i)
           r == a \o b
           n == Len(q)
<1>1. i \in Nat /\ n \in Nat /\ i >= 1 /\ i <= n
  OBVIOUS
<1>2. /\ a \in Seq(S)
      /\ Len(a) = n - i
      /\ \A j \in 1..n - i : a[j] = q[j + i]
  BY <1>1, SubSeqProperties, ElementOfSeq
<1>3. /\ b \in Seq(S)
      /\ Len(b) = i
      /\ \A j \in 1..i : b[j] = q[j]
  BY <1>1, SubSeqProperties, ElementOfSeq
<1> HIDE DEF a, b
<1>4. /\ r \in Seq(S)
      /\ Len(r) = Len(a) + Len(b)
      /\ \A j \in 1..Len(a) + Len(b) : r[j] = IF j <= Len(a) THEN a[j] ELSE b[j - Len(a)]
  BY <1>2, <1>3, ConcatProperties
<1> HIDE DEF r, n
<1>5. /\ Len(r) = n
      /\ \A j \in 1..n : r[j] = IF j <= n - i THEN q[j + i] ELSE q[j - (n - i)]
  <2>1. Len(a) + Len(b) = n
    BY <1>1, <1>2, <1>3
  <2>2. ASSUME NEW j \in 1..n
        PROVE  r[j] = IF j <= n - i THEN q[j + i] ELSE q[j - (n - i)]
    <3>1. r[j] = IF j <= n - i THEN a[j] ELSE b[j - (n - i)]
      BY <1>2, <1>4, <2>1
    <3>2. CASE j <= n - i
      <4>1. j \in 1..n - i
        BY <1>1, <3>2
      <4>2. QED
        BY <1>2, <3>1, <3>2, <4>1
    <3>3. CASE ~(j <= n - i)
      <4>1. j - (n - i) \in 1..i
        BY <1>1, <3>3
      <4>2. QED
        BY <1>3, <3>1, <3>3, <4>1
    <3>4. QED
      BY <3>2, <3>3
  <2>3. QED
    BY <1>4, <2>1, <2>2
<1>6. ASSUME NEW y \in ToSet(r)
      PROVE  y \in ToSet(q)
  <2>1. PICK j \in 1..n : r[j] = y
    BY <1>4, <1>5, <1>6, ToSetElement
  <2>2. \E k \in 1..n : q[k] = y
    <3>1. CASE j <= n - i
      <4>1. j + i \in 1..n /\ q[j + i] = y
        BY <1>1, <1>5, <2>1, <3>1
      <4>2. QED
        BY <4>1
    <3>2. CASE ~(j <= n - i)
      <4>1. j - (n - i) \in 1..n /\ q[j - (n - i)] = y
        BY <1>1, <1>5, <2>1, <3>2
      <4>2. QED
        BY <4>1
    <3>3. QED
      BY <3>1, <3>2
  <2>3. QED
    BY <2>2, ToSetElement DEF n
<1>7. ASSUME NEW y \in ToSet(q)
      PROVE  y \in ToSet(r)
  <2>1. PICK k \in 1..n : q[k] = y
    BY <1>7, ToSetElement DEF n
  <2>2. CASE k > i
    <3>1. PICK j \in 1..n : j <= n - i /\ j + i = k
      <4>1. k - i \in 1..n /\ k - i <= n - i /\ (k - i) + i = k
        BY <1>1, <2>2
      <4>2. QED
        BY <4>1
    <3>2. QED
      BY <3>1, <1>4, <1>5, <2>1, ToSetElement
  <2>3. CASE k <= i
    <3>1. k + (n - i) \in 1..n /\ r[k + (n - i)] = y
      BY <1>1, <1>5, <2>1, <2>3
    <3>2. QED
      BY <3>1, <1>4, <1>5, ToSetElement
  <2>4. QED
    BY <1>1, <2>1, <2>2, <2>3
<1>8. ASSUME IsInjective(q)
      PROVE  IsInjective(r)
  <2>1. \A j, k \in 1..n : q[j] = q[k] => j = k
    BY <1>8, InjectiveElements DEF n
  <2> DEFINE f(j) == IF j <= n - i THEN j + i ELSE j - (n - i)
  <2>2. \A j \in 1..n : f(j) \in 1..n /\ r[j] = q[f(j)]
    BY <1>1, <1>5
  <2>3. \A j, k \in 1..n : f(j) = f(k) => j = k
    BY <1>1
  <2> HIDE DEF f
  <2>4. \A j, k \in 1..n : r[j] = r[k] => j = k
    BY <2>1, <2>2, <2>3
  <2>5. QED
    BY <1>4, <1>5, <2>4, InjectiveElements
<1>9. QED
  BY <1>4, <1>5, <1>6, <1>7, <1>8 DEF r, a, b, n

-----------------------------------------------------------------------------
(* The invariant.                                                          *)

InRing(t, p) == status[t] \in {"ALIVE", "SLEEPING"} /\ priority[t] = p

Rings ==
  \A p \in Priorities :
    /\ IsInjective(ready[p])
    /\ \A t \in Threads : t \in ToSet(ready[p]) <=> InRing(t, p)

Lists ==
  /\ \A s \in Semaphores :
       /\ IsInjective(blocked[s])
       /\ \A t \in Threads : t \in ToSet(blocked[s]) => status[t] = "BLOCKED"
  /\ \A r, s \in Semaphores : \A t \in Threads :
       t \in ToSet(blocked[r]) /\ t \in ToSet(blocked[s]) => r = s
  /\ \A t \in Threads :
       status[t] = "BLOCKED" => \E s \in Semaphores : t \in ToSet(blocked[s])

Linked == machine # "fault" => Rings /\ Lists

(* Where the processor is: before the launch only main adds threads, after
   it there is a current thread until the scheduler finds none. *)
Control ==
  /\ machine # "ok" => launched
  /\ ~launched /\ currThread # NULL => status[currThread] = "ALIVE"
  /\ launched /\ machine # "nothread" => currThread \in Threads
  /\ launched => HasIdle

IInv ==
  /\ TypeOK
  /\ CountMatchesList
  /\ Linked
  /\ Control
  /\ SignalNeverSpins
  /\ RunningNotFree
  /\ RunsOnlyAlive
  /\ SchedulerFindsThread

-----------------------------------------------------------------------------
(* The helpers of the model.                                               *)

(* TCB indices and priorities are naturals, NULL is not a TCB. *)
LEMMA Constants ==
  /\ Threads \subseteq Nat
  /\ Priorities \subseteq Nat
  /\ NULL \notin Threads
  /\ \A t \in Threads : t # NULL
  BY KernelAssumption DEF KernelAssumption, Threads, Priorities, NULL

(* Least picks the smallest element of a nonempty set of naturals. *)
LEMMA LeastLemma ==
  ASSUME NEW S \in SUBSET Nat, S # {}
  PROVE  Least(S) \in S /\ \A y \in S : Least(S) <= y
  BY LeastExists DEF Least

(* IndexOf finds an element that is there. *)
LEMMA IndexOfLemma ==
  ASSUME NEW S, NEW q \in Seq(S), NEW t \in ToSet(q)
  PROVE  IndexOf(q, t) \in 1..Len(q) /\ q[IndexOf(q, t)] = t
  BY ToSetElement DEF IndexOf

(* addThreadPriority adds the thread to the ring of its priority and leaves the
   other rings alone. *)
LEMMA AddLemma ==
  ASSUME NEW rings \in [Priorities -> Seq(Threads)], NEW p \in Priorities,
         NEW t \in Threads
  PROVE  LET new == addThreadPriority(rings, t, p) IN
         /\ new \in [Priorities -> Seq(Threads)]
         /\ \A r \in Priorities \ {p} : new[r] = rings[r]
         /\ ToSet(new[p]) = ToSet(rings[p]) \cup {t}
         /\ IsInjective(rings[p]) /\ t \notin ToSet(rings[p]) => IsInjective(new[p])
<1> DEFINE new == addThreadPriority(rings, t, p)
<1>1. new[p] = Append(rings[p], t) /\ rings[p] \in Seq(Threads)
  BY DEF addThreadPriority
<1>2. QED
  BY <1>1, AppendLemma DEF addThreadPriority

(* removeThreadPriority takes a thread out of the ring it is in and leaves the
   other rings alone. *)
LEMMA RemoveLemma ==
  ASSUME NEW rings \in [Priorities -> Seq(Threads)], NEW p \in Priorities,
         NEW t \in ToSet(rings[p]), IsInjective(rings[p])
  PROVE  LET new == removeThreadPriority(rings, t, p) IN
         /\ new \in [Priorities -> Seq(Threads)]
         /\ \A r \in Priorities \ {p} : new[r] = rings[r]
         /\ ToSet(new[p]) = ToSet(rings[p]) \ {t}
         /\ IsInjective(new[p])
<1> DEFINE new == removeThreadPriority(rings, t, p)
<1>1. rings[p] \in Seq(Threads)
  OBVIOUS
<1>2. IndexOf(rings[p], t) \in 1..Len(rings[p]) /\ rings[p][IndexOf(rings[p], t)] = t
  BY <1>1, IndexOfLemma
<1>3. new[p] = RemoveAt(rings[p], IndexOf(rings[p], t))
  BY DEF removeThreadPriority
<1>4. new[p] \in Seq(Threads) /\ ToSet(new[p]) = ToSet(rings[p]) \ {t} /\ IsInjective(new[p])
  BY <1>1, <1>2, <1>3, RemoveAtLemma, RemoveAtSet
<1>5. QED
  BY <1>4 DEF removeThreadPriority

(* OS_Wait inserts at a place of the list or just behind it. *)
LEMMA WaitPositionLemma ==
  ASSUME NEW q \in Seq(Threads), NEW p
  PROVE  WaitPosition(q, p) \in 1..Len(q) + 1
<1>1. Slots(q, p) \subseteq 1..Len(q) /\ Len(q) \in Nat
  BY DEF Slots
<1>2. CASE Slots(q, p) = {}
  BY <1>1, <1>2 DEF WaitPosition
<1>3. CASE Slots(q, p) # {}
  <2>1. Least(Slots(q, p)) \in Slots(q, p)
    BY <1>1, <1>3, LeastLemma
  <2>2. QED
    BY <1>1, <1>3, <2>1 DEF WaitPosition
<1>4. QED
  BY <1>2, <1>3

-----------------------------------------------------------------------------
(* Every action preserves the invariant.                                   *)

(* The initial state satisfies the invariant. *)
LEMMA InitInv == Init => IInv
<1> SUFFICES ASSUME Init PROVE IInv
  OBVIOUS
<1> USE DEF Init
<1>1. TypeOK
  <2>1. 0 \in Priorities /\ 0 \in 0..MaxSleep
    BY KernelAssumption DEF KernelAssumption, Priorities
  <2>2. InitialValue \in [Semaphores -> Int]
    BY KernelAssumption DEF KernelAssumption
  <2>3. /\ status \in [Threads -> Status]
        /\ sleep \in [Threads -> 0..MaxSleep]
        /\ priority \in [Threads -> Priorities]
        /\ Value \in [Semaphores -> Int]
    BY <2>1, <2>2 DEF Status
  <2>4. /\ ready \in [Priorities -> Seq(Threads)]
        /\ blocked \in [Semaphores -> Seq(Threads)]
        /\ currThread \in Threads \cup {NULL}
        /\ atSuspend \subseteq Threads
    OBVIOUS
  <2>5. pendSV \in BOOLEAN /\ launched \in BOOLEAN /\ machine \in {"ok", "spin", "fault", "nothread"}
    OBVIOUS
  <2>6. QED
    BY <2>3, <2>4, <2>5 DEF TypeOK
<1>2. CountMatchesList
  BY KernelAssumption DEF CountMatchesList, KernelAssumption
<1>3. Linked
  <2>1. ToSet(<<>>) = {} /\ IsInjective(<<>>)
    BY DEF ToSet, IsInjective
  <2>2. QED
    BY <2>1 DEF Linked, Rings, Lists, InRing
<1>4. Control /\ SignalNeverSpins /\ RunningNotFree /\ RunsOnlyAlive /\ SchedulerFindsThread
  BY DEF Control, SignalNeverSpins, RunningNotFree, RunsOnlyAlive, Running, Executing, Up,
         SchedulerFindsThread
<1>5. QED
  BY <1>1, <1>2, <1>3, <1>4 DEF IInv

(* Putting a thread that is in no ring into one makes it runnable there. *)
LEMMA IntoRing ==
  ASSUME TypeOK, Rings, NEW t \in Threads, NEW p \in Priorities,
         \A q \in Priorities : t \notin ToSet(ready[q]),
         ready' = addThreadPriority(ready, t, p),
         status' = [status EXCEPT ![t] = "ALIVE"],
         priority' = [priority EXCEPT ![t] = p]
  PROVE  Rings' /\ ready' \in [Priorities -> Seq(Threads)]
<1> DEFINE new == addThreadPriority(ready, t, p)
<1>1. ready \in [Priorities -> Seq(Threads)]
  BY DEF TypeOK
<1>2. /\ new \in [Priorities -> Seq(Threads)]
      /\ \A r \in Priorities \ {p} : new[r] = ready[r]
      /\ ToSet(new[p]) = ToSet(ready[p]) \cup {t}
      /\ IsInjective(ready[p]) /\ t \notin ToSet(ready[p]) => IsInjective(new[p])
  BY ONLY <1>1, t \in Threads, p \in Priorities, AddLemma
<1> HIDE DEF new
<1>3. ready' = new
  BY DEF new
<1>4. ASSUME NEW r \in Priorities
      PROVE  /\ IsInjective(ready'[r])
             /\ \A u \in Threads : u \in ToSet(ready'[r]) <=> InRing(u, r)'
  <2>1. CASE r = p
    BY <1>2, <1>3, <2>1 DEF Rings, InRing, TypeOK
  <2>2. CASE r # p
    BY <1>2, <1>3, <2>2 DEF Rings, InRing, TypeOK
  <2>3. QED
    BY <2>1, <2>2
<1>5. QED
  BY <1>2, <1>3, <1>4 DEF Rings

(* Taking an ALIVE thread that blocks or dies out of its ring. *)
LEMMA OutOfRing ==
  ASSUME TypeOK, Rings, NEW t \in Threads, status[t] = "ALIVE",
         NEW st \in {"BLOCKED", "DYING"},
         ready' = removeThreadPriority(ready, t, priority[t]),
         status' = [status EXCEPT ![t] = st],
         priority' = priority
  PROVE  Rings' /\ ready' \in [Priorities -> Seq(Threads)]
<1> DEFINE p == priority[t]
           new == removeThreadPriority(ready, t, p)
<1>1. ready \in [Priorities -> Seq(Threads)] /\ p \in Priorities
  BY DEF TypeOK
<1>2. t \in ToSet(ready[p]) /\ IsInjective(ready[p])
  BY <1>1 DEF Rings, InRing
<1> HIDE DEF p
<1>3. /\ new \in [Priorities -> Seq(Threads)]
      /\ \A r \in Priorities \ {p} : new[r] = ready[r]
      /\ ToSet(new[p]) = ToSet(ready[p]) \ {t}
      /\ IsInjective(new[p])
  BY ONLY <1>1, <1>2, RemoveLemma
<1> HIDE DEF new
<1>4. ready' = new
  BY DEF new, p
<1>5. ASSUME NEW r \in Priorities
      PROVE  /\ IsInjective(ready'[r])
             /\ \A u \in Threads : u \in ToSet(ready'[r]) <=> InRing(u, r)'
  <2>1. CASE r = p
    BY <1>3, <1>4, <2>1 DEF Rings, InRing, TypeOK
  <2>2. CASE r # p
    BY <1>3, <1>4, <2>2 DEF Rings, InRing, TypeOK, p
  <2>3. QED
    BY <2>1, <2>2
<1>6. QED
  BY <1>3, <1>4, <1>5 DEF Rings

(* OS_AddThread takes a dead TCB, which no ring and no list holds. *)
LEMMA AddThreadStep ==
  ASSUME IInv, machine = "ok", NEW p \in Priorities, OS_AddThread(p)
  PROVE  IInv'
<1> DEFINE t == getNextDeadThread
<1>1. t \in Threads /\ status[t] = "DEAD"
  <2>1. Dead \subseteq Nat /\ Dead # {}
    BY Constants DEF Dead, OS_AddThread
  <2>2. QED
    BY <2>1, LeastLemma DEF getNextDeadThread, Dead
<1>2. /\ status' = [status EXCEPT ![t] = "ALIVE"]
      /\ priority' = [priority EXCEPT ![t] = p]
      /\ ready' = addThreadPriority(ready, t, p)
      /\ currThread' = IF currThread = NULL THEN t ELSE currThread
      /\ atSuspend' = atSuspend \ {t}
      /\ UNCHANGED <<sleep, Value, blocked, pendSV, launched, machine>>
  BY DEF OS_AddThread
<1> HIDE DEF t
<1>3. TypeOK /\ Rings /\ Lists
  BY DEF Linked, IInv
<1>4. \A q \in Priorities : t \notin ToSet(ready[q])
  BY <1>1, <1>3 DEF Rings, InRing
<1>5. \A s \in Semaphores : t \notin ToSet(blocked[s])
  BY <1>1, <1>3 DEF Lists
<1>6. Rings' /\ ready' \in [Priorities -> Seq(Threads)]
  BY <1>1, <1>2, <1>3, <1>4, IntoRing
<1>7. TypeOK'
  <2>1. status' \in [Threads -> Status] /\ priority' \in [Threads -> Priorities]
    BY <1>1, <1>2, <1>3 DEF TypeOK, Status
  <2>2. currThread' \in Threads \cup {NULL} /\ atSuspend' \subseteq Threads
    BY <1>1, <1>2, <1>3 DEF TypeOK
  <2>3. QED
    BY <1>2, <1>3, <1>6, <2>1, <2>2 DEF TypeOK
<1>8. CountMatchesList'
  BY <1>2 DEF CountMatchesList, IInv
<1>9. Lists'
  BY <1>1, <1>2, <1>3, <1>5 DEF Lists, TypeOK
<1>10. Control'
  BY <1>1, <1>2, <1>3, Constants DEF Control, TypeOK, HasIdle, IInv
<1>11. RunningNotFree' /\ RunsOnlyAlive'
  BY <1>1, <1>2, <1>3, Constants
     DEF RunningNotFree, RunsOnlyAlive, Running, Executing, Up, Control, TypeOK, IInv
<1>12. QED
  BY <1>2, <1>6, <1>7, <1>8, <1>9, <1>10, <1>11
     DEF Linked, SignalNeverSpins, SchedulerFindsThread, IInv

(* OS_Launch keeps the invariant. *)
LEMMA LaunchStep == IInv /\ OS_Launch => IInv'
<1> SUFFICES ASSUME IInv, OS_Launch PROVE IInv'
  OBVIOUS
<1> USE DEF IInv, OS_Launch
<1>1. TypeOK' /\ CountMatchesList' /\ Linked'
  BY DEF TypeOK, CountMatchesList, Linked, Rings, Lists, InRing
<1>2. Control' /\ RunningNotFree' /\ RunsOnlyAlive'
  BY DEF Control, RunningNotFree, RunsOnlyAlive, Running, Executing, Up, HasIdle, TypeOK
<1>3. QED
  BY <1>1, <1>2 DEF SignalNeverSpins, SchedulerFindsThread

(* OS_Suspend keeps the invariant. *)
LEMMA SuspendStep ==
  ASSUME IInv, NEW t \in Threads, OS_Suspend(t)
  PROVE  IInv'
<1> USE DEF IInv, OS_Suspend
<1>1. TypeOK' /\ CountMatchesList' /\ Linked'
  BY DEF TypeOK, CountMatchesList, Linked, Rings, Lists, InRing
<1>2. Control' /\ RunningNotFree' /\ RunsOnlyAlive'
  BY DEF Control, RunningNotFree, RunsOnlyAlive, Running, Executing, Up, HasIdle
<1>3. QED
  BY <1>1, <1>2 DEF SignalNeverSpins, SchedulerFindsThread

(* A wait that passes moves no thread. *)
LEMMA WaitPassesStep ==
  ASSUME IInv, NEW t \in Threads, NEW s \in Semaphores, WaitPasses(t, s)
  PROVE  IInv'
<1>1. TypeOK' /\ CountMatchesList'
  BY DEF IInv, WaitPasses, TypeOK, CountMatchesList, Blocks
<1>2. Linked'
  BY DEF IInv, WaitPasses, Linked, Rings, Lists, InRing
<1>3. Control' /\ RunningNotFree' /\ RunsOnlyAlive'
  BY DEF IInv, WaitPasses, Control, RunningNotFree, RunsOnlyAlive, Running, Executing, Up, HasIdle
<1>4. QED
  BY <1>1, <1>2, <1>3 DEF IInv, WaitPasses, SignalNeverSpins, SchedulerFindsThread

(* A wait that blocks moves the caller, which is ALIVE, from its ring into
   the list and counts it. *)
LEMMA WaitBlocksStep ==
  ASSUME IInv, NEW t \in Threads, NEW s \in Semaphores, WaitBlocks(t, s)
  PROVE  IInv'
<1> DEFINE i == WaitPosition(blocked[s], priority[t])
<1>1. /\ launched /\ machine = "ok" /\ currThread = t
      /\ MayBlock(t)
      /\ Value[s] - 1 < 0
      /\ Value' = [Value EXCEPT ![s] = @ - 1]
      /\ status' = [status EXCEPT ![t] = "BLOCKED"]
      /\ ready' = removeThreadPriority(ready, t, priority[t])
      /\ blocked' = [blocked EXCEPT ![s] = InsertAt(@, i, t)]
      /\ atSuspend' = atSuspend \cup {t}
      /\ UNCHANGED <<sleep, priority, currThread, pendSV, launched, machine>>
  BY DEF WaitBlocks, Blocks, Running, Executing, Up
<1>2. TypeOK /\ Rings /\ Lists /\ status[t] = "ALIVE"
  BY <1>1 DEF Linked, IInv, RunsOnlyAlive, WaitBlocks
<1>3. Rings' /\ ready' \in [Priorities -> Seq(Threads)]
  BY <1>1, <1>2, OutOfRing
<1>4. blocked[s] \in Seq(Threads) /\ t \notin ToSet(blocked[s]) /\ IsInjective(blocked[s])
  BY <1>2 DEF TypeOK, Lists
<1>5. i \in 1..Len(blocked[s]) + 1
  BY <1>4, WaitPositionLemma
<1> HIDE DEF i
<1>6. /\ blocked'[s] \in Seq(Threads)
      /\ Len(blocked'[s]) = Len(blocked[s]) + 1
      /\ ToSet(blocked'[s]) = ToSet(blocked[s]) \cup {t}
      /\ IsInjective(blocked'[s])
      /\ \A r \in Semaphores \ {s} : blocked'[r] = blocked[r]
      /\ blocked' \in [Semaphores -> Seq(Threads)]
  <2>1. blocked'[s] = InsertAt(blocked[s], i, t)
    BY <1>1, <1>2 DEF TypeOK
  <2>2. /\ InsertAt(blocked[s], i, t) \in Seq(Threads)
        /\ Len(InsertAt(blocked[s], i, t)) = Len(blocked[s]) + 1
    BY ONLY <1>4, <1>5, t \in Threads, InsertAtLemma
  <2>3. /\ ToSet(InsertAt(blocked[s], i, t)) = ToSet(blocked[s]) \cup {t}
        /\ IsInjective(InsertAt(blocked[s], i, t))
    BY ONLY <1>4, <1>5, t \in Threads, InsertAtSet
  <2>4. QED
    BY <1>1, <1>2, <2>1, <2>2, <2>3 DEF TypeOK
<1>7. TypeOK'
  <2>1. status' \in [Threads -> Status] /\ atSuspend' \subseteq Threads
    BY <1>1, <1>2 DEF TypeOK, Status
  <2>2. Value' \in [Semaphores -> Int]
    BY <1>1, <1>2 DEF TypeOK
  <2>3. /\ sleep' \in [Threads -> 0..MaxSleep]
        /\ priority' \in [Threads -> Priorities]
        /\ currThread' \in Threads \cup {NULL}
        /\ pendSV' \in BOOLEAN /\ launched' \in BOOLEAN
        /\ machine' \in {"ok", "spin", "fault", "nothread"}
    BY <1>1, <1>2 DEF TypeOK
  <2>4. QED
    BY <1>3, <1>6, <2>1, <2>2, <2>3 DEF TypeOK
<1>8. CountMatchesList'
  <2>1. /\ Value'[s] = Value[s] - 1
        /\ Value[s] \in Int
        /\ \A r \in Semaphores \ {s} : Value'[r] = Value[r]
    BY <1>1, <1>2 DEF TypeOK
  <2>2. \A r \in Semaphores : Len(blocked[r]) = IF Value[r] < 0 THEN -Value[r] ELSE 0
    BY DEF CountMatchesList, IInv
  <2>3. Len(blocked'[s]) = IF Value'[s] < 0 THEN -Value'[s] ELSE 0
    BY <1>1, <1>6, <2>1, <2>2
  <2>4. QED
    BY <1>6, <2>1, <2>2, <2>3 DEF CountMatchesList
<1>9. Lists'
  <2>1. \A u \in Threads \ {t} : status'[u] = status[u]
    BY <1>1, <1>2 DEF TypeOK
  <2>2. status'[t] = "BLOCKED"
    BY <1>1, <1>2 DEF TypeOK
  <2>3. \A r \in Semaphores : t \notin ToSet(blocked[r])
    BY <1>2 DEF Lists
  <2>4. \A r \in Semaphores, u \in Threads :
          u \in ToSet(blocked'[r]) <=> u \in ToSet(blocked[r]) \/ (r = s /\ u = t)
    <3> TAKE r \in Semaphores, u \in Threads
    <3>1. CASE r = s
      BY <1>6, <3>1
    <3>2. CASE r # s
      BY <1>6, <3>2
    <3>3. QED
      BY <3>1, <3>2
  <2>5. \A r \in Semaphores :
          /\ IsInjective(blocked'[r])
          /\ \A u \in Threads : u \in ToSet(blocked'[r]) => status'[u] = "BLOCKED"
    BY <1>2, <1>6, <2>1, <2>2, <2>4 DEF Lists
  <2>6. \A q, r \in Semaphores : \A u \in Threads :
          u \in ToSet(blocked'[q]) /\ u \in ToSet(blocked'[r]) => q = r
    BY <1>2, <2>3, <2>4 DEF Lists
  <2>7. \A u \in Threads :
          status'[u] = "BLOCKED" => \E r \in Semaphores : u \in ToSet(blocked'[r])
    <3> TAKE u \in Threads
    <3>1. CASE u = t
      BY <2>4, <3>1
    <3>2. CASE u # t
      BY <1>2, <2>1, <2>4, <3>2 DEF Lists
    <3>3. QED
      BY <3>1, <3>2
  <2>8. QED
    BY <2>5, <2>6, <2>7 DEF Lists
<1>10. Control'
  BY <1>1, <1>2 DEF Control, TypeOK, HasIdle, MayBlock, IInv
<1>11. RunningNotFree' /\ RunsOnlyAlive'
  BY <1>1, <1>2 DEF RunningNotFree, RunsOnlyAlive, Running, Executing, Up, TypeOK, IInv
<1>12. QED
  BY <1>1, <1>3, <1>7, <1>8, <1>9, <1>10, <1>11
     DEF Linked, SignalNeverSpins, SchedulerFindsThread, IInv

(* OS_Sleep keeps the invariant: the thread stays in its ring. *)
LEMMA SleepStep ==
  ASSUME IInv, NEW t \in Threads, NEW n \in 0..MaxSleep, OS_Sleep(t, n)
  PROVE  IInv'
<1>1. /\ launched /\ machine = "ok" /\ currThread = t
      /\ MayBlock(t)
      /\ \/ status' = [status EXCEPT ![t] = "SLEEPING"] /\ sleep' = [sleep EXCEPT ![t] = n]
         \/ UNCHANGED <<status, sleep>>
      /\ atSuspend' = atSuspend \cup {t}
      /\ UNCHANGED <<priority, currThread, ready, Value, blocked, pendSV, launched, machine>>
  BY DEF OS_Sleep, Running, Executing, Up
<1>2. TypeOK /\ Rings /\ Lists /\ status[t] = "ALIVE"
  BY <1>1 DEF Linked, IInv, RunsOnlyAlive, OS_Sleep
<1>3. TypeOK' /\ CountMatchesList'
  BY <1>1, <1>2 DEF TypeOK, Status, CountMatchesList, IInv
<1>4. Rings' /\ Lists'
  <2>1. \A u \in Threads : /\ status'[u] = "BLOCKED" <=> status[u] = "BLOCKED"
                          /\ \A p \in Priorities : InRing(u, p)' <=> InRing(u, p)
    BY <1>1, <1>2 DEF InRing, TypeOK
  <2>2. QED
    BY <1>1, <1>2, <2>1 DEF Rings, Lists
<1>5. Control'
  BY <1>1, <1>2 DEF Control, TypeOK, HasIdle, MayBlock, IInv
<1>6. RunningNotFree' /\ RunsOnlyAlive'
  BY <1>1, <1>2 DEF RunningNotFree, RunsOnlyAlive, Running, Executing, Up, TypeOK, IInv
<1>7. QED
  BY <1>1, <1>3, <1>4, <1>5, <1>6 DEF Linked, SignalNeverSpins, SchedulerFindsThread, IInv

(* OS_Kill keeps the invariant: the thread leaves its ring and is not free yet. *)
LEMMA KillStep ==
  ASSUME IInv, NEW t \in Threads, OS_Kill(t)
  PROVE  IInv'
<1>1. /\ launched /\ machine = "ok" /\ currThread = t
      /\ MayBlock(t)
      /\ status' = [status EXCEPT ![t] = "DYING"]
      /\ ready' = removeThreadPriority(ready, t, priority[t])
      /\ atSuspend' = atSuspend \cup {t}
      /\ UNCHANGED <<sleep, priority, currThread, Value, blocked, pendSV, launched, machine>>
  BY DEF OS_Kill, KilledStatus, Running, Executing, Up
<1>2. TypeOK /\ Rings /\ Lists /\ status[t] = "ALIVE"
  BY <1>1 DEF Linked, IInv, RunsOnlyAlive, OS_Kill
<1>3. Rings' /\ ready' \in [Priorities -> Seq(Threads)]
  BY <1>1, <1>2, OutOfRing
<1>4. TypeOK' /\ CountMatchesList'
  BY <1>1, <1>2, <1>3 DEF TypeOK, Status, CountMatchesList, IInv
<1>5. Lists'
  BY <1>1, <1>2 DEF Lists, TypeOK
<1>6. Control'
  BY <1>1, <1>2 DEF Control, TypeOK, HasIdle, MayBlock, IInv
<1>7. RunningNotFree' /\ RunsOnlyAlive'
  BY <1>1, <1>2 DEF RunningNotFree, RunsOnlyAlive, Running, Executing, Up, TypeOK, IInv
<1>8. QED
  BY <1>1, <1>3, <1>4, <1>5, <1>6, <1>7 DEF Linked, SignalNeverSpins, SchedulerFindsThread, IInv

(* A signal never finds a counted waiter missing, so it never spins. *)
LEMMA SignalFindsWaiter ==
  ASSUME IInv, NEW s \in Semaphores, Value[s] < 0
  PROVE  /\ blocked[s] # <<>>
         /\ Head(blocked[s]) \in Threads
         /\ Head(blocked[s]) \in ToSet(blocked[s])
         /\ Tail(blocked[s]) \in Seq(Threads)
         /\ Len(Tail(blocked[s])) = Len(blocked[s]) - 1
         /\ IsInjective(blocked[s]) =>
              /\ ToSet(Tail(blocked[s])) = ToSet(blocked[s]) \ {Head(blocked[s])}
              /\ IsInjective(Tail(blocked[s]))
<1>1. blocked[s] \in Seq(Threads) /\ Value[s] \in Int
  BY DEF IInv, TypeOK
<1>2. Len(blocked[s]) = -Value[s]
  BY DEF IInv, CountMatchesList
<1>3. blocked[s] # <<>>
  BY <1>1, <1>2
<1>4. /\ Tail(blocked[s]) \in Seq(Threads)
      /\ Len(Tail(blocked[s])) = Len(blocked[s]) - 1
      /\ Head(blocked[s]) \in ToSet(blocked[s])
      /\ IsInjective(blocked[s]) =>
              /\ ToSet(Tail(blocked[s])) = ToSet(blocked[s]) \ {Head(blocked[s])}
              /\ IsInjective(Tail(blocked[s]))
  BY <1>1, <1>3, TailLemma
<1>5. Head(blocked[s]) \in Threads
  BY <1>1, <1>3
<1>6. QED
  BY <1>3, <1>4, <1>5

(* Taking the head off a list keeps the count right. *)
LEMMA HandOverCount ==
  ASSUME IInv, NEW s \in Semaphores, Value[s] < 0,
         Value' = [Value EXCEPT ![s] = @ + 1],
         blocked' = [blocked EXCEPT ![s] = Tail(@)]
  PROVE  /\ CountMatchesList'
         /\ Value' \in [Semaphores -> Int]
         /\ blocked' \in [Semaphores -> Seq(Threads)]
<1>1. Value \in [Semaphores -> Int] /\ blocked \in [Semaphores -> Seq(Threads)]
  BY DEF IInv, TypeOK
<1>2. Tail(blocked[s]) \in Seq(Threads) /\ Len(Tail(blocked[s])) = Len(blocked[s]) - 1
  BY SignalFindsWaiter
<1>3. /\ Value'[s] = Value[s] + 1
      /\ Value[s] \in Int
      /\ blocked'[s] = Tail(blocked[s])
      /\ \A r \in Semaphores \ {s} : Value'[r] = Value[r] /\ blocked'[r] = blocked[r]
  BY <1>1
<1>4. \A r \in Semaphores : Len(blocked[r]) = IF Value[r] < 0 THEN -Value[r] ELSE 0
  BY DEF CountMatchesList, IInv
<1>5. Len(blocked'[s]) = IF Value'[s] < 0 THEN -Value'[s] ELSE 0
  <2>1. Len(blocked[s]) = -Value[s]
    BY <1>4
  <2>2. Len(blocked'[s]) = Len(blocked[s]) - 1
    BY <1>2, <1>3
  <2>3. QED
    BY <1>3, <2>1, <2>2
<1>6. CountMatchesList'
  BY <1>3, <1>4, <1>5 DEF CountMatchesList
<1>7. QED
  BY <1>1, <1>2, <1>6

(* OS_Signal without a waiter keeps the invariant. *)
LEMMA SignalPassesStep ==
  ASSUME IInv, Up, NEW s \in Semaphores, SignalPasses(s)
  PROVE  IInv'
<1>1. TypeOK'
  BY DEF IInv, SignalPasses, TypeOK
<1>2. CountMatchesList'
  BY DEF IInv, SignalPasses, TypeOK, CountMatchesList
<1>3. Linked'
  BY DEF IInv, SignalPasses, Linked, Rings, Lists, InRing
<1>4. Control' /\ RunningNotFree' /\ RunsOnlyAlive'
  BY DEF IInv, SignalPasses, Control, RunningNotFree, RunsOnlyAlive, Running, Executing, Up, HasIdle
<1>5. QED
  BY <1>1, <1>2, <1>3, <1>4 DEF IInv, SignalPasses, SignalNeverSpins, SchedulerFindsThread

(* The machine stops with the waiter off the list: nothing runs any more. *)
LEMMA SignalFaultsStep ==
  ASSUME IInv, Up, NEW s \in Semaphores, Value[s] < 0, SignalFaults(s)
  PROVE  IInv'
<1> DEFINE b == Head(blocked[s])
<1>1. /\ Value' = [Value EXCEPT ![s] = @ + 1]
      /\ status' = [status EXCEPT ![b] = "ALIVE"]
      /\ blocked' = [blocked EXCEPT ![s] = Tail(@)]
      /\ machine' = "fault"
      /\ UNCHANGED <<sleep, priority, currThread, ready, pendSV, atSuspend, launched>>
  BY DEF SignalFaults
<1>2. b \in Threads
  BY SignalFindsWaiter
<1> HIDE DEF b
<1>3. /\ CountMatchesList'
      /\ Value' \in [Semaphores -> Int]
      /\ blocked' \in [Semaphores -> Seq(Threads)]
  BY <1>1, HandOverCount
<1>4. TypeOK'
  BY <1>1, <1>2, <1>3 DEF IInv, TypeOK, Status
<1>5. Control'
  BY <1>1, <1>2 DEF IInv, Control, Up, HasIdle, TypeOK
<1>6. RunningNotFree'
  BY <1>1, <1>2 DEF IInv, RunningNotFree, TypeOK
<1>7. RunsOnlyAlive'
  BY <1>1 DEF RunsOnlyAlive, Running, Executing, Up
<1>8. QED
  BY <1>1, <1>3, <1>4, <1>5, <1>6, <1>7 DEF IInv, Linked, SignalNeverSpins, SchedulerFindsThread

(* The head of the list goes back to its ring. *)
LEMMA SignalWakesStep ==
  ASSUME IInv, Up, NEW s \in Semaphores, Value[s] < 0, NEW fromThread \in BOOLEAN,
         SignalWakes(s, fromThread)
  PROVE  IInv'
<1> DEFINE b == Head(blocked[s])
<1>1. /\ Value' = [Value EXCEPT ![s] = @ + 1]
      /\ status' = [status EXCEPT ![b] = "ALIVE"]
      /\ blocked' = [blocked EXCEPT ![s] = Tail(@)]
      /\ ready' = addThreadPriority(ready, b, priority[b])
      /\ UNCHANGED <<sleep, priority, currThread, launched, machine>>
  BY DEF SignalWakes
<1>2. /\ \/ pendSV' = TRUE
         \/ UNCHANGED pendSV
      /\ \/ atSuspend' = atSuspend \cup {currThread}
         \/ UNCHANGED atSuspend
  BY DEF SignalWakes, RequestSwitch
<1>3. TypeOK /\ Rings /\ Lists /\ machine = "ok" /\ launched /\ currThread \in Threads
  BY DEF IInv, Linked, Up, Control
<1>4. /\ b \in Threads
      /\ b \in ToSet(blocked[s])
      /\ ToSet(Tail(blocked[s])) = ToSet(blocked[s]) \ {b}
      /\ IsInjective(Tail(blocked[s]))
  BY <1>3, SignalFindsWaiter DEF Lists
<1>5. status[b] = "BLOCKED" /\ \A r \in Semaphores \ {s} : b \notin ToSet(blocked[r])
  BY <1>3, <1>4 DEF Lists
<1> HIDE DEF b
<1>6. \A q \in Priorities : b \notin ToSet(ready[q])
  BY <1>3, <1>4, <1>5 DEF Rings, InRing
<1>7. Rings' /\ ready' \in [Priorities -> Seq(Threads)]
  <2>1. priority[b] \in Priorities /\ priority' = [priority EXCEPT ![b] = priority[b]]
    BY <1>1, <1>3, <1>4 DEF TypeOK
  <2>2. QED
    BY <1>1, <1>3, <1>4, <1>6, <2>1, IntoRing
<1>8. /\ CountMatchesList'
      /\ Value' \in [Semaphores -> Int]
      /\ blocked' \in [Semaphores -> Seq(Threads)]
  BY <1>1, HandOverCount
<1>9. TypeOK'
  <2>1. pendSV' \in BOOLEAN
    BY <1>2, <1>3 DEF TypeOK
  <2>2. atSuspend' \subseteq Threads
    BY <1>2, <1>3 DEF TypeOK
  <2>3. status' \in [Threads -> Status]
    BY <1>1, <1>3, <1>4 DEF TypeOK, Status
  <2>4. QED
    BY <1>1, <1>3, <1>7, <1>8, <2>1, <2>2, <2>3 DEF TypeOK
<1>10. Lists'
  <2>1. /\ \A u \in Threads \ {b} : status'[u] = status[u]
        /\ status'[b] = "ALIVE"
    BY <1>1, <1>3, <1>4 DEF TypeOK
  <2>2. /\ blocked'[s] = Tail(blocked[s])
        /\ \A r \in Semaphores \ {s} : blocked'[r] = blocked[r]
    BY <1>1, <1>3 DEF TypeOK
  <2>3. \A r \in Semaphores, u \in Threads :
          u \in ToSet(blocked'[r]) <=> u \in ToSet(blocked[r]) /\ u # b
    <3> TAKE r \in Semaphores, u \in Threads
    <3>1. CASE r = s
      BY <1>4, <2>2, <3>1
    <3>2. CASE r # s
      BY <1>5, <2>2, <3>2
    <3>3. QED
      BY <3>1, <3>2
  <2>4. \A r \in Semaphores : IsInjective(blocked'[r])
    BY <1>3, <1>4, <2>2 DEF Lists
  <2>5. \A r \in Semaphores : \A u \in Threads :
          u \in ToSet(blocked'[r]) => status'[u] = "BLOCKED"
    BY <1>3, <2>1, <2>3 DEF Lists
  <2>6. \A q, r \in Semaphores : \A u \in Threads :
          u \in ToSet(blocked'[q]) /\ u \in ToSet(blocked'[r]) => q = r
    BY <1>3, <2>3 DEF Lists
  <2>7. \A u \in Threads :
          status'[u] = "BLOCKED" => \E r \in Semaphores : u \in ToSet(blocked'[r])
    BY <1>3, <2>1, <2>3 DEF Lists
  <2>8. QED
    BY <2>4, <2>5, <2>6, <2>7 DEF Lists
<1>11. Control'
  BY <1>1, <1>3, <1>4 DEF IInv, Control, HasIdle, TypeOK
<1>12. RunningNotFree' /\ RunsOnlyAlive'
  <2>1. RunningNotFree'
    BY <1>1, <1>3, <1>4 DEF IInv, RunningNotFree, TypeOK
  <2>2. ASSUME NEW u \in Threads, Running(u)'
        PROVE  status'[u] = "ALIVE"
    <3>1. Running(u)
      BY <1>1, <1>2, <2>2 DEF Running, Executing, Up
    <3>2. status[u] = "ALIVE"
      BY <3>1 DEF IInv, RunsOnlyAlive
    <3>3. QED
      BY <1>1, <1>3, <1>4, <3>2 DEF TypeOK
  <2>3. QED
    BY <2>1, <2>2 DEF RunsOnlyAlive
<1>13. QED
  BY <1>1, <1>7, <1>8, <1>9, <1>10, <1>11, <1>12
     DEF IInv, Linked, SignalNeverSpins, SchedulerFindsThread

(* OS_Signal keeps the invariant, called by a thread or by a handler. *)
LEMMA SignalStep ==
  ASSUME IInv, Up, NEW s \in Semaphores, NEW fromThread \in BOOLEAN,
         OS_Signal(s, fromThread)
  PROVE  IInv'
<1>1. CASE SignalPasses(s)
  BY <1>1, SignalPassesStep
<1>2. CASE Value[s] < 0 /\ (SignalFaults(s) \/ SignalWakes(s, fromThread))
  BY <1>2, SignalFaultsStep, SignalWakesStep
<1>3. Value[s] < 0 => blocked[s] # <<>>
  BY SignalFindsWaiter
<1>4. QED
  BY <1>1, <1>2, <1>3 DEF OS_Signal

(* The tick wakes sleepers, which never left their ring. *)
LEMMA SysTickStep == IInv /\ SysTick_Handler => IInv'
<1> SUFFICES ASSUME IInv, SysTick_Handler PROVE IInv'
  OBVIOUS
<1>1. /\ Up
      /\ sleep' = [t \in Threads |-> Ticked(t)]
      /\ status' = [t \in Threads |-> IF Ticked(t) = 0 /\ status[t] = "SLEEPING"
                                      THEN "ALIVE" ELSE status[t]]
      /\ pendSV' = TRUE
      /\ UNCHANGED <<priority, currThread, ready, Value, blocked, atSuspend, launched, machine>>
  BY DEF SysTick_Handler, PREEMPTIVE
<1>2. TypeOK /\ Rings /\ Lists
  BY <1>1 DEF Linked, IInv, Up
<1>3. \A t \in Threads : /\ status'[t] \in Status
                         /\ status'[t] # status[t] => status[t] = "SLEEPING" /\ status'[t] = "ALIVE"
                         /\ \A p \in Priorities : InRing(t, p)' <=> InRing(t, p)
  BY <1>1, <1>2 DEF TypeOK, Status, InRing
<1>4. TypeOK'
  <2>1. sleep' \in [Threads -> 0..MaxSleep]
    BY <1>1, <1>2, KernelAssumption DEF TypeOK, Ticked, KernelAssumption
  <2>2. status' \in [Threads -> Status]
    BY <1>1, <1>3
  <2>3. QED
    BY <1>1, <1>2, <2>1, <2>2 DEF TypeOK
<1>5. CountMatchesList'
  BY <1>1 DEF IInv, CountMatchesList
<1>6. Rings' /\ Lists'
  BY <1>1, <1>2, <1>3 DEF Rings, Lists
<1>7. Control'
  BY <1>1, <1>2, <1>3 DEF IInv, Control, HasIdle, Up, TypeOK
<1>8. RunningNotFree'
  BY <1>1, <1>2, <1>3 DEF IInv, RunningNotFree, TypeOK
<1>9. RunsOnlyAlive'
  BY <1>1 DEF RunsOnlyAlive, Running, Executing
<1>10. QED
  BY <1>1, <1>4, <1>5, <1>6, <1>7, <1>8, <1>9
     DEF IInv, Linked, SignalNeverSpins, SchedulerFindsThread

(* The scheduler finds an ALIVE thread in the ring of the highest priority
   that has one, and only turns that ring round. *)
LEMMA SchedulerChoice ==
  ASSUME IInv, machine = "ok", Runnable # {}, getNextPriorityThreadAndUpdateList
  PROVE  /\ currThread' \in Threads
         /\ status[currThread'] = "ALIVE"
         /\ \A t \in Threads : status[t] = "ALIVE" => priority[t] >= priority[currThread']
         /\ ready' \in [Priorities -> Seq(Threads)]
         /\ \A p \in Priorities : /\ ToSet(ready'[p]) = ToSet(ready[p])
                                  /\ IsInjective(ready'[p])
<1> DEFINE p == Least(Runnable)
           i == Least(AliveAt(ready[p]))
<1>1. TypeOK /\ Rings
  BY DEF IInv, Linked
<1>2. p \in Priorities /\ AliveAt(ready[p]) # {} /\ \A q \in Runnable : p <= q
  <2>1. Runnable \subseteq Nat
    BY Constants DEF Runnable
  <2>2. p \in Runnable /\ \A q \in Runnable : p <= q
    BY <2>1, LeastLemma
  <2>3. QED
    BY <2>2 DEF Runnable
<1>3. /\ currThread' = ready[p][i]
      /\ ready' = [ready EXCEPT ![p] = IF Len(@) = 1 THEN @ ELSE RotateTo(@, i)]
  BY DEF getNextPriorityThreadAndUpdateList
<1> HIDE DEF p
<1>4. i \in 1..Len(ready[p]) /\ status[ready[p][i]] = "ALIVE"
  <2>1. AliveAt(ready[p]) \subseteq Nat
    BY DEF AliveAt
  <2>2. i \in AliveAt(ready[p])
    BY <1>2, <2>1, LeastLemma
  <2>3. QED
    BY <2>2 DEF AliveAt
<1> HIDE DEF i
<1>5. ready[p] \in Seq(Threads) /\ IsInjective(ready[p])
  BY <1>1, <1>2 DEF TypeOK, Rings
<1>6. currThread' \in ToSet(ready[p]) /\ currThread' \in Threads
  BY <1>3, <1>4, <1>5, ToSetElement
<1>7. priority[currThread'] = p
  BY <1>1, <1>2, <1>6 DEF Rings, InRing
<1>8. ASSUME NEW t \in Threads, status[t] = "ALIVE"
      PROVE  priority[t] >= p
  <2>1. priority[t] \in Priorities /\ ready[priority[t]] \in Seq(Threads)
    BY <1>1 DEF TypeOK
  <2>2. t \in ToSet(ready[priority[t]])
    BY <1>1, <1>8, <2>1 DEF Rings, InRing
  <2>3. PICK j \in 1..Len(ready[priority[t]]) : ready[priority[t]][j] = t
    BY <2>1, <2>2, ToSetElement
  <2>4. priority[t] \in Runnable
    BY <1>8, <2>1, <2>3 DEF Runnable, AliveAt
  <2>5. QED
    BY <1>2, <2>1, <2>4, Constants
<1>9. /\ RotateTo(ready[p], i) \in Seq(Threads)
      /\ ToSet(RotateTo(ready[p], i)) = ToSet(ready[p])
      /\ IsInjective(RotateTo(ready[p], i))
  BY ONLY <1>4, <1>5, RotationLemma DEF RotateTo
<1>10. /\ ready'[p] \in {ready[p], RotateTo(ready[p], i)}
       /\ \A q \in Priorities \ {p} : ready'[q] = ready[q]
       /\ ready' \in [Priorities -> Seq(Threads)]
  BY <1>1, <1>2, <1>3, <1>5, <1>9 DEF TypeOK
<1>11. ASSUME NEW q \in Priorities
       PROVE  ToSet(ready'[q]) = ToSet(ready[q]) /\ IsInjective(ready'[q])
  <2>1. CASE q = p
    BY <1>5, <1>9, <1>10, <2>1
  <2>2. CASE q # p
    BY <1>1, <1>10, <2>2 DEF Rings
  <2>3. QED
    BY <2>1, <2>2
<1>12. QED
  BY <1>3, <1>4, <1>6, <1>7, <1>8, <1>10, <1>11

(* A thread that never blocks keeps some ring runnable. *)
LEMMA IdleIsRunnable ==
  ASSUME IInv, Up, IdlePriority \in Priorities
  PROVE  Runnable # {}
<1>1. TypeOK /\ Rings /\ HasIdle
  BY DEF IInv, Linked, Up, Control
<1>2. PICK t \in Threads : status[t] = "ALIVE" /\ priority[t] = IdlePriority
  BY <1>1 DEF HasIdle
<1>3. t \in ToSet(ready[IdlePriority]) /\ ready[IdlePriority] \in Seq(Threads)
  BY <1>1, <1>2 DEF Rings, InRing, TypeOK
<1>4. PICK j \in 1..Len(ready[IdlePriority]) : ready[IdlePriority][j] = t
  BY <1>3, ToSetElement
<1>5. QED
  BY <1>2, <1>4 DEF Runnable, AliveAt

(* A switch keeps the invariant: a dying thread is in no ring when it is freed. *)
LEMMA PendSVStep == IInv /\ PendSV_Handler => IInv'
<1> SUFFICES ASSUME IInv, PendSV_Handler PROVE IInv'
  OBVIOUS
<1>1. /\ Up
      /\ pendSV' = FALSE
      /\ status' = IF status[currThread] = "DYING"
                   THEN [status EXCEPT ![currThread] = "DEAD"] ELSE status
      /\ UNCHANGED <<sleep, priority, Value, blocked, atSuspend, launched>>
  BY DEF PendSV_Handler, Scheduler
<1>2. TypeOK /\ Rings /\ Lists /\ launched /\ machine = "ok" /\ currThread \in Threads
  BY <1>1 DEF IInv, Linked, Up, Control
<1>3. /\ status' \in [Threads -> Status]
      /\ \A t \in Threads :
           /\ status'[t] # status[t] => status[t] = "DYING" /\ status'[t] = "DEAD"
           /\ \A p \in Priorities : InRing(t, p)' <=> InRing(t, p)
  BY <1>1, <1>2 DEF TypeOK, Status, InRing
<1>4. CountMatchesList' /\ Lists'
  <2>1. CountMatchesList'
    BY <1>1 DEF IInv, CountMatchesList
  <2>2. Lists'
    BY <1>1, <1>2, <1>3 DEF Lists
  <2>3. QED
    BY <2>1, <2>2
<1>5. HasIdle'
  BY <1>1, <1>2, <1>3 DEF IInv, Control, HasIdle
<1>6. CASE Runnable = {}
  <2>1. currThread' = NULL /\ machine' = "nothread" /\ UNCHANGED ready
    BY <1>6 DEF PendSV_Handler, Scheduler
  <2>2. TypeOK'
    BY <1>1, <1>2, <1>3, <2>1 DEF TypeOK
  <2>3. Rings'
    BY <1>1, <1>2, <1>3, <2>1 DEF Rings
  <2>4. SchedulerFindsThread'
    BY <1>1, <1>6, IdleIsRunnable DEF SchedulerFindsThread
  <2>5. Control' /\ RunningNotFree' /\ RunsOnlyAlive'
    BY <1>1, <1>2, <1>5, <2>1
       DEF Control, RunningNotFree, RunsOnlyAlive, Running, Executing, Up
  <2>6. QED
    BY <1>4, <2>1, <2>2, <2>3, <2>4, <2>5 DEF IInv, Linked, SignalNeverSpins
<1>7. CASE Runnable # {}
  <2>1. getNextPriorityThreadAndUpdateList /\ UNCHANGED machine
    BY <1>7 DEF PendSV_Handler, Scheduler
  <2>2. /\ currThread' \in Threads
        /\ status[currThread'] = "ALIVE"
        /\ ready' \in [Priorities -> Seq(Threads)]
        /\ \A p \in Priorities : /\ ToSet(ready'[p]) = ToSet(ready[p])
                                 /\ IsInjective(ready'[p])
    BY <1>2, <1>7, <2>1, SchedulerChoice
  <2>3. TypeOK'
    BY <1>1, <1>2, <1>3, <2>1, <2>2 DEF TypeOK
  <2>4. Rings'
    BY <1>1, <1>2, <1>3, <2>2 DEF Rings
  <2>5. status'[currThread'] = "ALIVE"
    BY <1>3, <2>2
  <2>6. Control' /\ RunningNotFree' /\ RunsOnlyAlive'
    BY <1>1, <1>2, <1>5, <2>1, <2>2, <2>5
       DEF Control, RunningNotFree, RunsOnlyAlive, Running, Executing, Up
  <2>7. QED
    BY <1>1, <1>2, <1>4, <2>1, <2>3, <2>4, <2>6
       DEF IInv, Linked, SignalNeverSpins, SchedulerFindsThread
<1>8. QED
  BY <1>6, <1>7

(* Every call of the running thread keeps the invariant. *)
LEMMA ThreadStepInv ==
  ASSUME IInv, NEW t \in Threads, ThreadStep(t)
  PROVE  IInv'
<1>1. CASE OS_Suspend(t)
  BY <1>1, SuspendStep
<1>2. CASE \E s \in Semaphores : OS_Wait(t, s)
  BY <1>2, WaitPassesStep, WaitBlocksStep DEF OS_Wait
<1>3. CASE \E s \in Semaphores : Running(t) /\ OS_Signal(s, TRUE)
  <2>1. PICK s \in Semaphores : Up /\ OS_Signal(s, TRUE)
    BY <1>3 DEF Running, Executing
  <2>2. QED
    BY <2>1, SignalStep
<1>4. CASE \E n \in 0..MaxSleep : OS_Sleep(t, n)
  BY <1>4, SleepStep
<1>5. CASE OS_Kill(t)
  BY <1>5, KillStep
<1>6. CASE \E p \in Priorities : Running(t) /\ OS_AddThread(p)
  BY <1>6, AddThreadStep DEF Running, Executing, Up
<1>7. QED
  BY <1>1, <1>2, <1>3, <1>4, <1>5, <1>6 DEF ThreadStep

(* Every step keeps the invariant. *)
LEMMA NextInv == IInv /\ [Next]_vars => IInv'
<1> SUFFICES ASSUME IInv, [Next]_vars PROVE IInv'
  OBVIOUS
<1>1. CASE MainAdds
  <2>1. machine = "ok" /\ \E p \in Priorities : OS_AddThread(p)
    BY <1>1 DEF MainAdds, IInv, Control
  <2>2. QED
    BY <2>1, AddThreadStep
<1>2. CASE OS_Launch
  BY <1>2, LaunchStep
<1>3. CASE \E t \in Threads : ThreadStep(t)
  BY <1>3, ThreadStepInv
<1>4. CASE \E s \in Semaphores : ISRSignals(s)
  BY <1>4, SignalStep DEF ISRSignals
<1>5. CASE ISRAdds
  BY <1>5, AddThreadStep DEF ISRAdds, Up
<1>6. CASE SysTick_Handler
  BY <1>6, SysTickStep
<1>7. CASE PendSV_Handler
  BY <1>7, PendSVStep
<1>8. CASE UNCHANGED vars
  <2>1. UNCHANGED <<status, sleep, priority, currThread, ready, Value, blocked,
                    pendSV, atSuspend, launched, machine>>
    BY <1>8 DEF vars
  <2>2. TypeOK' /\ CountMatchesList' /\ Linked'
    BY <2>1 DEF IInv, TypeOK, CountMatchesList, Linked, Rings, Lists, InRing
  <2>3. Control' /\ RunningNotFree' /\ RunsOnlyAlive'
    BY <2>1 DEF IInv, Control, HasIdle, RunningNotFree, RunsOnlyAlive, Running, Executing, Up
  <2>4. QED
    BY <2>1, <2>2, <2>3 DEF IInv, SignalNeverSpins, SchedulerFindsThread
<1>9. QED
  BY <1>1, <1>2, <1>3, <1>4, <1>5, <1>6, <1>7, <1>8 DEF Next

-----------------------------------------------------------------------------
(* The theorems.                                                           *)

(* IInv is an invariant of the kernel. *)
THEOREM Invariance == Spec => []IInv
<1>1. QED
  BY InitInv, NextInv, PTL DEF Spec

(* The TCBs, rings, lists and semaphores keep their types: no operation ever
   takes a thread out of a ring or list it is not in. *)
THEOREM TypeCorrect == Spec => []TypeOK
  BY Invariance, PTL DEF IInv

(* OS_Wait and OS_Signal keep the count of a semaphore equal to its list. *)
THEOREM CountsMatchLists == Spec => []CountMatchesList
  BY Invariance, PTL DEF IInv

(* OS_Signal never enters its debug loop. *)
THEOREM SignalsNeverSpin == Spec => []SignalNeverSpins
  BY Invariance, PTL DEF IInv

(* The TCB and stack of the running thread are never given to a new one. *)
THEOREM RunningThreadNotFree == Spec => []RunningNotFree
  BY Invariance, PTL DEF IInv

(* Program code is executed by ALIVE threads only. *)
THEOREM OnlyAliveRuns == Spec => []RunsOnlyAlive
  BY Invariance, PTL DEF IInv

(* With a thread that never blocks the scheduler always finds a thread. *)
THEOREM SchedulerSucceeds == Spec => []SchedulerFindsThread
  BY Invariance, PTL DEF IInv

(* Each thread is where its status says: in one ring, in one list, nowhere. *)
LEMMA LinkedPlacement == IInv => Placement
<1> SUFFICES ASSUME IInv, machine # "fault", NEW t \in Threads
             PROVE  /\ \A p \in Priorities :
                         IF status[t] \in {"ALIVE", "SLEEPING"} /\ p = priority[t]
                         THEN OnceIn(ready[p], t) ELSE ~Occurs(ready[p], t)
                    /\ IF status[t] = "BLOCKED"
                       THEN \E s \in Semaphores :
                              /\ OnceIn(blocked[s], t)
                              /\ \A r \in Semaphores \ {s} : ~Occurs(blocked[r], t)
                       ELSE \A s \in Semaphores : ~Occurs(blocked[s], t)
  BY DEF Placement
<1>1. TypeOK /\ Rings /\ Lists
  BY DEF IInv, Linked
<1>2. \A q \in Seq(Threads) : /\ Occurs(q, t) <=> t \in ToSet(q)
                              /\ IsInjective(q) /\ t \in ToSet(q) => OnceIn(q, t)
  <2> TAKE q \in Seq(Threads)
  <2>1. Occurs(q, t) <=> t \in ToSet(q)
    BY ToSetElement DEF Occurs
  <2>2. ASSUME IsInjective(q), t \in ToSet(q)
        PROVE  OnceIn(q, t)
    <3>1. \A i, j \in 1..Len(q) : q[i] = q[j] => i = j
      BY <2>2, InjectiveElements
    <3>2. PICK i \in 1..Len(q) : q[i] = t
      BY <2>2, ToSetElement
    <3>3. QED
      BY <3>1, <3>2 DEF OnceIn
  <2>3. QED
    BY <2>1, <2>2
<1>3. \A p \in Priorities : IF status[t] \in {"ALIVE", "SLEEPING"} /\ p = priority[t]
                            THEN OnceIn(ready[p], t) ELSE ~Occurs(ready[p], t)
  BY <1>1, <1>2 DEF Rings, InRing, TypeOK
<1>4. CASE status[t] = "BLOCKED"
  <2>1. PICK s \in Semaphores : t \in ToSet(blocked[s])
    BY <1>1, <1>4 DEF Lists
  <2>2. OnceIn(blocked[s], t)
    BY <1>1, <1>2, <2>1 DEF Lists, TypeOK
  <2>3. \A r \in Semaphores \ {s} : ~Occurs(blocked[r], t)
    BY <1>1, <1>2, <2>1 DEF Lists, TypeOK
  <2>4. QED
    BY <1>3, <1>4, <2>2, <2>3
<1>5. CASE status[t] # "BLOCKED"
  BY <1>1, <1>2, <1>3, <1>5 DEF Lists, TypeOK
<1>6. QED
  BY <1>4, <1>5

(* No TCB is lost, duplicated or left behind in a ring or a list. *)
THEOREM ThreadsPlaced == Spec => []Placement
  BY Invariance, LinkedPlacement, PTL

(* A switch goes to an ALIVE thread of the highest priority that has one. *)
THEOREM SwitchHighest == Spec => SwitchesToHighest
<1>1. ASSUME IInv, [Next]_vars
      PROVE  [PendSV_Handler /\ currThread' # NULL =>
                /\ status'[currThread'] = "ALIVE"
                /\ \A t \in Threads :
                     status'[t] = "ALIVE" => priority[t] >= priority[currThread']]_vars
  <2> SUFFICES ASSUME PendSV_Handler, currThread' # NULL
               PROVE  /\ status'[currThread'] = "ALIVE"
                      /\ \A t \in Threads :
                           status'[t] = "ALIVE" => priority[t] >= priority[currThread']
    OBVIOUS
  <2>1. /\ machine = "ok" /\ Runnable # {} /\ getNextPriorityThreadAndUpdateList
        /\ status' = IF status[currThread] = "DYING"
                     THEN [status EXCEPT ![currThread] = "DEAD"] ELSE status
    BY DEF PendSV_Handler, Scheduler, Up
  <2>2. /\ currThread' \in Threads
        /\ status[currThread'] = "ALIVE"
        /\ \A t \in Threads : status[t] = "ALIVE" => priority[t] >= priority[currThread']
    BY <1>1, <2>1, SchedulerChoice
  <2>3. \A t \in Threads : status'[t] = "ALIVE" <=> status[t] = "ALIVE"
    BY <1>1, <2>1 DEF IInv, TypeOK
  <2>4. QED
    BY <2>2, <2>3
<1>2. QED
  BY <1>1, Invariance, PTL DEF Spec, SwitchesToHighest

-----------------------------------------------------------------------------
(* The semaphores: their blocked lists stay ordered by priority, equal      *)
(* priorities are served in arrival order, and OS_Wait and OS_Signal        *)
(* implement CountingSemaphore.                                             *)

Sorted(q) == \A i, j \in 1..Len(q) : i < j => priority[q[i]] <= priority[q[j]]

(* In a sorted list everybody before the place of a new waiter has its
   priority or a higher one, everybody from there on a lower one. *)
LEMMA WaitPositionSplits ==
  ASSUME priority \in [Threads -> Priorities], NEW q \in Seq(Threads), Sorted(q),
         NEW p \in Priorities
  PROVE  \A j \in 1..Len(q) : IF j < WaitPosition(q, p) THEN priority[q[j]] <= p
                              ELSE p < priority[q[j]]
<1> DEFINE lower == {j \in 1..Len(q) : p < priority[q[j]]}
<1>1. /\ \A j \in 1..Len(q) : priority[q[j]] \in Nat
      /\ p \in Nat /\ Len(q) \in Nat
  <2>1. \A j \in 1..Len(q) : q[j] \in Threads
    BY ElementOfSeq
  <2>2. \A j \in 1..Len(q) : priority[q[j]] \in Priorities
    BY <2>1
  <2>3. Len(q) \in Nat
    OBVIOUS
  <2>4. QED
    BY <2>2, <2>3, Constants
<1>2. Slots(q, p) \subseteq lower /\ Slots(q, p) \subseteq Nat /\ lower \subseteq Nat
  BY DEF Slots
<1>3. CASE lower = {}
  <2>1. Slots(q, p) = {} /\ \A j \in 1..Len(q) : priority[q[j]] <= p
    BY <1>1, <1>2, <1>3
  <2>2. QED
    BY <1>1, <2>1 DEF WaitPosition
<1>4. CASE lower # {}
  <2>1. PICK k \in lower : \A j \in lower : k <= j
    BY <1>2, <1>4, LeastExists
  <2>2. k \in 1..Len(q) /\ p < priority[q[k]] /\ \A j \in 1..Len(q) : j < k => priority[q[j]] <= p
    BY <1>1, <2>1
  <2>3. k \in Slots(q, p)
    BY <1>1, <2>2 DEF Slots
  <2>4. WaitPosition(q, p) \in Slots(q, p) /\ WaitPosition(q, p) <= k
    BY <1>2, <2>3, LeastLemma DEF WaitPosition
  <2>5. WaitPosition(q, p) = k
    BY <1>2, <2>1, <2>2, <2>4
  <2>6. \A j \in 1..Len(q) : k <= j => p < priority[q[j]]
    BY <1>1, <2>2 DEF Sorted
  <2>7. QED
    BY <2>2, <2>5, <2>6
<1>5. QED
  BY <1>3, <1>4

-----------------------------------------------------------------------------
(* What a step may do to the blocked lists: nothing, put the caller in its *)
(* place, or take the head off one.                                        *)

JoinsList(s, t) ==
  /\ Running(t)
  /\ Value[s] - 1 < 0
  /\ Value' = [Value EXCEPT ![s] = @ - 1]
  /\ blocked' = [blocked EXCEPT ![s] = InsertAt(@, WaitPosition(@, priority[t]), t)]
  /\ priority' = priority

LeavesList(s) ==
  /\ Value[s] < 0
  /\ Value' = [Value EXCEPT ![s] = @ + 1]
  /\ blocked' = [blocked EXCEPT ![s] = Tail(@)]
  /\ priority' = priority

(* The priority of a waiting thread never changes, OS_AddThread gives one
   to a dead TCB only. *)
ListsStay ==
  /\ UNCHANGED blocked
  /\ \A t \in Threads : status[t] # "DEAD" => priority'[t] = priority[t]

(* A machine that has stopped, by a fault or without a thread, does nothing. *)
LEMMA StoppedMachine ==
  ASSUME IInv, machine # "ok", [Next]_vars
  PROVE  UNCHANGED vars
  BY DEF IInv, Control, Next, MainAdds, OS_Launch, ThreadStep, OS_Suspend, OS_Wait, WaitPasses,
         WaitBlocks, OS_Sleep, OS_Kill, ISRSignals, ISRAdds, SysTick_Handler, PendSV_Handler,
         Running, Executing, Up

(* What one step does to a blocked list: nothing, one thread joins at its
   place, or the head leaves. *)
LEMMA StepsOfLists ==
  ASSUME IInv, [Next]_vars
  PROVE  \/ ListsStay /\ UNCHANGED Value
         \/ ListsStay /\ \E t \in Threads, s \in Semaphores : WaitPasses(t, s)
         \/ ListsStay /\ \E s \in Semaphores : SignalPasses(s)
         \/ \E t \in Threads, s \in Semaphores : JoinsList(s, t)
         \/ \E s \in Semaphores : LeavesList(s)
<1> DEFINE Goal == \/ ListsStay /\ UNCHANGED Value
                   \/ ListsStay /\ \E t \in Threads, s \in Semaphores : WaitPasses(t, s)
                   \/ ListsStay /\ \E s \in Semaphores : SignalPasses(s)
                   \/ \E t \in Threads, s \in Semaphores : JoinsList(s, t)
                   \/ \E s \in Semaphores : LeavesList(s)
<1>1. ASSUME NEW p \in Priorities, OS_AddThread(p)
      PROVE  ListsStay /\ UNCHANGED Value
  <2>1. status[getNextDeadThread] = "DEAD" /\ getNextDeadThread \in Threads
    <3>1. Dead \subseteq Nat /\ Dead # {}
      BY <1>1, Constants DEF Dead, OS_AddThread
    <3>2. QED
      BY <3>1, LeastLemma DEF getNextDeadThread, Dead
  <2>2. priority \in [Threads -> Priorities]
    BY DEF IInv, TypeOK
  <2>3. priority' = [priority EXCEPT ![getNextDeadThread] = p] /\ UNCHANGED <<blocked, Value>>
    BY <1>1 DEF OS_AddThread
  <2>4. QED
    BY <2>1, <2>2, <2>3 DEF ListsStay
<1>2. ASSUME NEW s \in Semaphores, NEW fromThread \in BOOLEAN, OS_Signal(s, fromThread)
      PROVE  Goal
  <2>1. CASE SignalPasses(s)
    BY <2>1 DEF SignalPasses, ListsStay
  <2>2. CASE Value[s] < 0 /\ (SignalFaults(s) \/ SignalWakes(s, fromThread))
    BY <2>2 DEF SignalFaults, SignalWakes, LeavesList
  <2>3. Value[s] < 0 => blocked[s] # <<>>
    BY SignalFindsWaiter
  <2>4. QED
    BY <1>2, <2>1, <2>2, <2>3 DEF OS_Signal
<1>3. CASE MainAdds \/ ISRAdds
  BY <1>1, <1>3 DEF MainAdds, ISRAdds
<1>4. CASE OS_Launch
  BY <1>4 DEF OS_Launch, ListsStay
<1>5. ASSUME NEW t \in Threads, ThreadStep(t)
      PROVE  Goal
  <2>1. CASE OS_Suspend(t) \/ OS_Kill(t) \/ \E n \in 0..MaxSleep : OS_Sleep(t, n)
    BY <2>1 DEF OS_Suspend, OS_Kill, OS_Sleep, ListsStay
  <2>2. CASE \E s \in Semaphores : WaitPasses(t, s)
    BY <2>2 DEF WaitPasses, ListsStay
  <2>3. CASE \E s \in Semaphores : WaitBlocks(t, s)
    BY <2>3 DEF WaitBlocks, Blocks, JoinsList
  <2>4. CASE \E s \in Semaphores : OS_Signal(s, TRUE)
    BY <1>2, <2>4
  <2>5. CASE \E p \in Priorities : OS_AddThread(p)
    BY <1>1, <2>5
  <2>6. QED
    BY <1>5, <2>1, <2>2, <2>3, <2>4, <2>5 DEF ThreadStep, OS_Wait
<1>6. CASE \E s \in Semaphores : ISRSignals(s)
  BY <1>2, <1>6 DEF ISRSignals
<1>7. CASE SysTick_Handler
  BY <1>7 DEF SysTick_Handler, ListsStay
<1>8. CASE PendSV_Handler
  BY <1>8 DEF PendSV_Handler, ListsStay
<1>9. CASE UNCHANGED vars
  BY <1>9 DEF vars, ListsStay
<1>10. QED
  BY <1>3, <1>4, <1>5, <1>6, <1>7, <1>8, <1>9 DEF Next

-----------------------------------------------------------------------------
(* Blocked lists stay sorted.                                              *)

(* A thread that joins at its place keeps a list sorted. *)
LEMMA JoinKeepsSorted ==
  ASSUME priority \in [Threads -> Priorities], NEW q \in Seq(Threads), Sorted(q),
         NEW t \in Threads
  PROVE  Sorted(InsertAt(q, WaitPosition(q, priority[t]), t))
<1> DEFINE k == WaitPosition(q, priority[t])
           r == InsertAt(q, k, t)
           f(j) == IF j < k THEN j ELSE j - 1
<1>1. k \in 1..Len(q) + 1
  BY WaitPositionLemma
<1>2. \A j \in 1..Len(q) : IF j < k THEN priority[q[j]] <= priority[t] ELSE priority[t] < priority[q[j]]
  BY WaitPositionSplits
<1>3. /\ Len(q) \in Nat
      /\ priority[t] \in Nat
      /\ \A j \in 1..Len(q) : priority[q[j]] \in Nat
  <2>1. \A j \in 1..Len(q) : q[j] \in Threads
    BY ElementOfSeq
  <2>2. \A j \in 1..Len(q) : priority[q[j]] \in Priorities
    BY <2>1
  <2>3. Len(q) \in Nat
    OBVIOUS
  <2>4. QED
    BY <2>2, <2>3, Constants
<1> HIDE DEF k
<1>4. /\ Len(r) = Len(q) + 1
      /\ \A j \in 1..Len(q) + 1 : r[j] = IF j < k THEN q[j] ELSE IF j = k THEN t ELSE q[j - 1]
  BY ONLY SMTT(60), <1>1, t \in Threads, q \in Seq(Threads), InsertAtLemma
<1> HIDE DEF r
<1>5. \A j \in 1..Len(r) : j # k => f(j) \in 1..Len(q) /\ r[j] = q[f(j)]
  BY <1>1, <1>3, <1>4
<1>6. \A i, j \in 1..Len(r) : i < j /\ i # k /\ j # k => f(i) < f(j)
  BY <1>1, <1>3, <1>4
<1>7. \A j \in 1..Len(r) : j # k => (f(j) < k <=> j < k)
  BY <1>1, <1>3, <1>4
<1>8. k \in 1..Len(r) /\ r[k] = t
  BY <1>1, <1>3, <1>4
<1> HIDE DEF f
<1>9. ASSUME NEW i \in 1..Len(r), NEW j \in 1..Len(r), i < j
      PROVE  priority[r[i]] <= priority[r[j]]
  <2>1. CASE i = k
    <3>1. j # k /\ ~(j < k)
      BY <1>1, <1>9, <2>1
    <3>2. f(j) \in 1..Len(q) /\ r[j] = q[f(j)] /\ ~(f(j) < k)
      BY <1>5, <1>7, <3>1
    <3>3. priority[t] < priority[q[f(j)]]
      BY <1>2, <3>2
    <3>4. QED
      BY <1>3, <1>8, <2>1, <3>2, <3>3
  <2>2. CASE j = k
    <3>1. i # k /\ i < k
      BY <1>1, <1>9, <2>2
    <3>2. f(i) \in 1..Len(q) /\ r[i] = q[f(i)] /\ f(i) < k
      BY <1>5, <1>7, <3>1
    <3>3. priority[q[f(i)]] <= priority[t]
      BY <1>2, <3>2
    <3>4. QED
      BY <1>8, <2>2, <3>2, <3>3
  <2>3. CASE i # k /\ j # k
    BY <1>5, <1>6, <1>9, <2>3 DEF Sorted
  <2>4. QED
    BY <2>1, <2>2, <2>3
<1>10. QED
  BY <1>9 DEF Sorted, r, k

(* Every step keeps the blocked lists sorted. *)
LEMMA SortedStep ==
  ASSUME IInv, WaitersSorted, [Next]_vars
  PROVE  WaitersSorted'
<1>1. TypeOK /\ \A s \in Semaphores : Sorted(blocked[s])
  BY DEF IInv, WaitersSorted, Sorted
<1>2. CASE ListsStay
  <2>1. machine # "fault" => \A s \in Semaphores : \A j \in 1..Len(blocked[s]) :
                               priority'[blocked[s][j]] = priority[blocked[s][j]]
    <3> SUFFICES ASSUME machine # "fault", NEW s \in Semaphores, NEW j \in 1..Len(blocked[s])
                 PROVE  priority'[blocked[s][j]] = priority[blocked[s][j]]
      OBVIOUS
    <3>1. blocked[s] \in Seq(Threads)
      BY <1>1 DEF TypeOK
    <3>2. blocked[s][j] \in Threads /\ blocked[s][j] \in ToSet(blocked[s])
      BY <3>1, ElementOfSeq, ToSetElement
    <3>3. status[blocked[s][j]] = "BLOCKED"
      BY <3>2 DEF IInv, Linked, Lists
    <3>4. QED
      BY <1>2, <3>2, <3>3 DEF ListsStay
  <2>2. CASE machine # "fault"
    BY <1>2, <2>1, <2>2 DEF WaitersSorted, ListsStay
  <2>3. CASE machine = "fault"
    <3>1. UNCHANGED <<blocked, priority>>
      BY <2>3, StoppedMachine DEF vars
    <3>2. QED
      BY <3>1 DEF WaitersSorted
  <2>4. QED
    BY <2>2, <2>3
<1>3. ASSUME NEW t \in Threads, NEW s \in Semaphores, JoinsList(s, t)
      PROVE  WaitersSorted'
  <2>1. blocked[s] \in Seq(Threads) /\ priority \in [Threads -> Priorities] /\ Sorted(blocked[s])
    BY <1>1 DEF TypeOK
  <2>2. Sorted(InsertAt(blocked[s], WaitPosition(blocked[s], priority[t]), t))
    BY ONLY <2>1, t \in Threads, JoinKeepsSorted
  <2>3. blocked'[s] = InsertAt(blocked[s], WaitPosition(blocked[s], priority[t]), t)
    BY <1>1, <1>3 DEF JoinsList, TypeOK
  <2>4. \A r \in Semaphores : Sorted(blocked'[r])
    BY <1>1, <1>3, <2>2, <2>3 DEF JoinsList, TypeOK
  <2>5. QED
    BY <1>3, <2>4 DEF WaitersSorted, Sorted, JoinsList
<1>4. ASSUME NEW s \in Semaphores, LeavesList(s)
      PROVE  WaitersSorted'
  <2>1. blocked[s] \in Seq(Threads) /\ blocked[s] # <<>>
    BY <1>1, <1>4, SignalFindsWaiter DEF TypeOK, LeavesList
  <2>2. Sorted(Tail(blocked[s]))
    <3>1. /\ Len(Tail(blocked[s])) = Len(blocked[s]) - 1
          /\ \A i \in 1..Len(Tail(blocked[s])) : Tail(blocked[s])[i] = blocked[s][i + 1]
          /\ Len(blocked[s]) \in Nat
      BY <2>1, HeadTailProperties
    <3> DEFINE q == blocked[s]
               r == Tail(q)
    <3>2. Sorted(q)
      BY <1>1
    <3> HIDE DEF q, r
    <3>3. ASSUME NEW i \in 1..Len(r), NEW j \in 1..Len(r), i < j
          PROVE  priority[r[i]] <= priority[r[j]]
      <4>1. i + 1 \in 1..Len(q) /\ j + 1 \in 1..Len(q) /\ i + 1 < j + 1
        BY <3>1, <3>3 DEF q, r
      <4>2. priority[q[i + 1]] <= priority[q[j + 1]]
        BY <3>2, <4>1 DEF Sorted
      <4>3. QED
        BY <3>1, <4>2 DEF q, r
    <3>4. QED
      BY <3>3 DEF Sorted, q, r
  <2>3. \A r \in Semaphores : Sorted(blocked'[r])
    BY <1>1, <1>4, <2>2 DEF LeavesList, TypeOK
  <2>4. QED
    BY <1>4, <2>3 DEF WaitersSorted, Sorted, LeavesList
<1>5. QED
  BY <1>2, <1>3, <1>4, StepsOfLists

(* A blocked list is ordered by priority, the waiter of the highest first. *)
THEOREM ListsSorted == Spec => []WaitersSorted
<1>1. Init => WaitersSorted
  BY DEF Init, WaitersSorted
<1>2. IInv /\ WaitersSorted /\ [Next]_vars => WaitersSorted'
  BY SortedStep
<1>3. QED
  BY <1>1, <1>2, Invariance, PTL DEF Spec

-----------------------------------------------------------------------------
(* Waiters do not overtake.                                                *)

(* A thread that joins changes no order and is behind its equals. *)
LEMMA JoinKeepsOrder ==
  ASSUME priority \in [Threads -> Priorities], NEW q \in Seq(Threads), Sorted(q),
         NEW v \in Threads, NEW t \in Threads, NEW u \in Threads,
         LET r == InsertAt(q, WaitPosition(q, priority[v]), v) IN
           /\ Occurs(q, t)
           /\ Occurs(r, u)
           /\ \/ Before(q, t, u)
              \/ ~Occurs(q, u) /\ priority[t] = priority[u]
  PROVE  Before(InsertAt(q, WaitPosition(q, priority[v]), v), t, u)
<1> DEFINE k == WaitPosition(q, priority[v])
           r == InsertAt(q, k, v)
           g(j) == IF j < k THEN j ELSE j + 1
<1>1. k \in 1..Len(q) + 1 /\ Len(q) \in Nat
  BY WaitPositionLemma
<1>2. \A j \in 1..Len(q) : IF j < k THEN priority[q[j]] <= priority[v] ELSE priority[v] < priority[q[j]]
  BY WaitPositionSplits
<1>3. /\ Occurs(q, t)
      /\ Occurs(r, u)
      /\ Before(q, t, u) \/ (~Occurs(q, u) /\ priority[t] = priority[u])
  OBVIOUS
<1> HIDE DEF k
<1>4. /\ Len(r) = Len(q) + 1
      /\ \A j \in 1..Len(q) + 1 : r[j] = IF j < k THEN q[j] ELSE IF j = k THEN v ELSE q[j - 1]
  BY ONLY <1>1, v \in Threads, q \in Seq(Threads), InsertAtLemma
<1> HIDE DEF r
<1>5. \A j \in 1..Len(q) : g(j) \in 1..Len(r) /\ r[g(j)] = q[j]
  <2> TAKE j \in 1..Len(q)
  <2>1. CASE j < k
    BY <1>1, <1>4, <2>1
  <2>2. CASE j >= k
    <3>1. j + 1 \in 1..Len(q) + 1 /\ ~(j + 1 < k) /\ j + 1 # k /\ (j + 1) - 1 = j
      BY <1>1, <2>2
    <3>2. r[j + 1] = q[(j + 1) - 1]
      BY <1>4, <3>1
    <3>3. QED
      BY <1>1, <1>4, <2>2, <3>1, <3>2
  <2>3. QED
    BY <1>1, <2>1, <2>2
<1>6. \A i, j \in 1..Len(q) : i < j => g(i) < g(j)
  BY <1>1
<1>7. k \in 1..Len(r) /\ r[k] = v
  BY <1>1, <1>4
<1>8. CASE Before(q, t, u)
  <2>1. PICK i, j \in 1..Len(q) : i < j /\ q[i] = t /\ q[j] = u
    BY <1>8 DEF Before
  <2>2. g(i) \in 1..Len(r) /\ g(j) \in 1..Len(r) /\ g(i) < g(j) /\ r[g(i)] = t /\ r[g(j)] = u
    BY <1>5, <1>6, <2>1
  <2> HIDE DEF g
  <2>3. QED
    BY <2>2 DEF Before, r, k
<1>9. CASE ~Occurs(q, u) /\ priority[t] = priority[u]
  <2>1. u = v
    <3>1. PICK j \in 1..Len(r) : r[j] = u
      BY <1>3 DEF Occurs
    <3>2. \A i \in 1..Len(q) : q[i] # u
      BY <1>9 DEF Occurs
    <3>3. CASE j < k
      BY <1>1, <1>4, <3>1, <3>2, <3>3
    <3>4. CASE j > k
      <4>1. j - 1 \in 1..Len(q) /\ r[j] = q[j - 1]
        BY <1>1, <1>4, <3>4
      <4>2. QED
        BY <3>1, <3>2, <4>1
    <3>5. CASE j = k
      BY <1>7, <3>1, <3>5
    <3>6. QED
      BY <1>1, <1>4, <3>3, <3>4, <3>5
  <2>2. PICK i \in 1..Len(q) : q[i] = t
    BY <1>3 DEF Occurs
  <2>3. priority[q[i]] = priority[v] /\ priority[v] \in Nat
    BY <1>9, <2>1, <2>2, Constants
  <2>4. i < k
    BY <1>2, <2>3
  <2>5. i \in 1..Len(r) /\ r[i] = t
    BY <1>1, <1>4, <2>2, <2>4
  <2>6. QED
    BY <1>7, <2>1, <2>4, <2>5 DEF Before, r, k
<1>10. QED
  BY <1>3, <1>8, <1>9

(* When the head leaves the others keep their order. *)
LEMMA LeaveKeepsOrder ==
  ASSUME NEW q \in Seq(Threads), q # <<>>, IsInjective(q), NEW t, NEW u,
         Occurs(Tail(q), t), Before(q, t, u)
  PROVE  Before(Tail(q), t, u)
<1> DEFINE r == Tail(q)
<1>1. /\ Len(r) = Len(q) - 1
      /\ Len(q) \in Nat
      /\ \A i \in 1..Len(r) : r[i] = q[i + 1]
  BY HeadTailProperties
<1>2. \A i, j \in 1..Len(q) : q[i] = q[j] => i = j
  BY InjectiveElements
<1>3. Occurs(r, t)
  OBVIOUS
<1> HIDE DEF r
<1>4. PICK i, j \in 1..Len(q) : i < j /\ q[i] = t /\ q[j] = u
  BY DEF Before
<1>5. PICK m \in 1..Len(r) : r[m] = t
  BY <1>3 DEF Occurs
<1>6. m + 1 \in 1..Len(q) /\ q[m + 1] = t
  BY <1>1, <1>5
<1>7. i = m + 1
  BY <1>2, <1>4, <1>6
<1>8. j - 1 \in 1..Len(r) /\ m < j - 1 /\ (j - 1) + 1 = j
  BY <1>1, <1>4, <1>7
<1>9. r[j - 1] = u
  BY <1>1, <1>4, <1>8
<1>10. QED
  BY <1>5, <1>8, <1>9 DEF Before, r

(* Two waiters never change places, a newcomer is behind its equals. *)
THEOREM EqualsInOrder == Spec => NoOvertaking
<1> DEFINE Ordered == \A s \in Semaphores : \A t, u \in Threads :
             /\ Occurs(blocked'[s], t)
             /\ Occurs(blocked[s], t)
             /\ Occurs(blocked'[s], u)
             /\ \/ Before(blocked[s], t, u)
                \/ ~Occurs(blocked[s], u) /\ priority[t] = priority[u]
             => Before(blocked'[s], t, u)
<1>1. ASSUME IInv, WaitersSorted, [Next]_vars
      PROVE  [Ordered]_vars
  <2> SUFFICES ASSUME machine = "ok",
                      NEW s \in Semaphores, NEW t \in Threads, NEW u \in Threads,
                      Occurs(blocked'[s], t),
                      Occurs(blocked[s], t),
                      Occurs(blocked'[s], u),
                      \/ Before(blocked[s], t, u)
                      \/ ~Occurs(blocked[s], u) /\ priority[t] = priority[u]
               PROVE  Before(blocked'[s], t, u)
    BY <1>1, StoppedMachine
  <2>1. /\ blocked \in [Semaphores -> Seq(Threads)]
        /\ priority \in [Threads -> Priorities]
        /\ Sorted(blocked[s])
        /\ IsInjective(blocked[s])
    BY <1>1 DEF IInv, TypeOK, WaitersSorted, Sorted, Linked, Lists
  <2>2. CASE blocked'[s] = blocked[s]
    BY <2>2
  <2>3. ASSUME NEW v \in Threads, JoinsList(s, v)
        PROVE  Before(blocked'[s], t, u)
    <3>1. blocked'[s] = InsertAt(blocked[s], WaitPosition(blocked[s], priority[v]), v)
      BY <2>1, <2>3 DEF JoinsList
    <3>2. blocked[s] \in Seq(Threads)
      BY <2>1
    <3>3. QED
      BY <2>1, <3>1, <3>2, JoinKeepsOrder
  <2>4. CASE LeavesList(s)
    <3>1. blocked'[s] = Tail(blocked[s]) /\ blocked[s] # <<>> /\ blocked[s] \in Seq(Threads)
      BY <1>1, <2>1, <2>4, SignalFindsWaiter DEF LeavesList
    <3>2. Before(blocked[s], t, u)
      <4>1. \A i \in 1..Len(Tail(blocked[s])) : /\ Tail(blocked[s])[i] = blocked[s][i + 1]
                                               /\ i + 1 \in 1..Len(blocked[s])
        BY <3>1, HeadTailProperties
      <4>2. Occurs(blocked[s], u)
        BY <3>1, <4>1 DEF Occurs
      <4>3. QED
        BY <4>2
    <3>3. QED
      BY <2>1, <3>1, <3>2, LeaveKeepsOrder
  <2>5. ASSUME NEW r \in Semaphores, r # s,
               LeavesList(r) \/ \E v \in Threads : JoinsList(r, v)
        PROVE  blocked'[s] = blocked[s]
    BY <2>1, <2>5 DEF LeavesList, JoinsList
  <2>6. QED
    BY <1>1, <2>2, <2>3, <2>4, <2>5, StepsOfLists DEF ListsStay
<1>2. QED
  BY <1>1, Invariance, ListsSorted, PTL DEF Spec, NoOvertaking

-----------------------------------------------------------------------------
(* The refinement.                                                         *)

(* OS_Wait and OS_Signal implement counting semaphores: a unit is never
   lost, never given twice, and nobody waits next to one. *)
THEOREM SemaphoresImplemented == Spec => ImplementsSemaphore
<1>1. Init => Semaphore!Init
  <2>1. ToSet(<<>>) = {}
    BY DEF ToSet
  <2>2. ASSUME Init
        PROVE  [s \in Semaphores |-> Value[s] + Len(blocked[s])] = InitialValue
    <3>1. ASSUME NEW s \in Semaphores
          PROVE  Value[s] + Len(blocked[s]) = InitialValue[s]
      BY <2>2, KernelAssumption DEF Init, KernelAssumption
    <3>2. QED
      BY <3>1, KernelAssumption DEF KernelAssumption
  <2>3. QED
    BY <2>1, <2>2 DEF Init, Semaphore!Init
<1>2. ASSUME IInv, [Next]_vars
      PROVE  [Semaphore!Next]_(Semaphore!vars)
  <2>1. CASE machine # "ok"
    BY <1>2, <2>1, StoppedMachine DEF vars, Semaphore!vars
  <2>2. CASE machine = "ok"
    <3> DEFINE units(V, b) == [s \in Semaphores |-> V[s] + Len(b[s])]
               waiting(b) == [s \in Semaphores |-> ToSet(b[s])]
    <3>1. /\ blocked \in [Semaphores -> Seq(Threads)]
          /\ Value \in [Semaphores -> Int]
          /\ Lists
          /\ \A s \in Semaphores : Len(blocked[s]) = IF Value[s] < 0 THEN -Value[s] ELSE 0
      BY <1>2, <2>2 DEF IInv, TypeOK, Linked, CountMatchesList
    <3>2. CASE ListsStay /\ UNCHANGED Value
      BY <3>2 DEF ListsStay, Semaphore!vars
    <3>3. ASSUME ListsStay, NEW t \in Threads, NEW s \in Semaphores, WaitPasses(t, s)
          PROVE  Semaphore!Take(s)
      <4>1. Value[s] > 0 /\ Value' = [Value EXCEPT ![s] = @ - 1] /\ blocked' = blocked
        BY <3>1, <3>3 DEF WaitPasses, Blocks, ListsStay
      <4>2. \A r \in Semaphores :
              /\ Value[r] \in Int /\ Len(blocked[r]) \in Nat
              /\ Value'[r] = IF r = s THEN Value[r] - 1 ELSE Value[r]
        BY <3>1, <4>1
      <4>3. /\ units(Value', blocked') = [units(Value, blocked) EXCEPT ![s] = @ - 1]
            /\ units(Value, blocked)[s] > 0
        <5>1. \A r \in Semaphores :
                Value'[r] + Len(blocked'[r]) =
                  IF r = s THEN (Value[s] + Len(blocked[s])) - 1 ELSE Value[r] + Len(blocked[r])
          BY <4>1, <4>2
        <5>2. Value[s] + Len(blocked[s]) > 0
          BY <4>1, <4>2
        <5>3. QED
          BY <5>1, <5>2
      <4>4. QED
        BY <4>1, <4>3 DEF Semaphore!Take
    <3>4. ASSUME ListsStay, NEW s \in Semaphores, SignalPasses(s)
          PROVE  Semaphore!Release(s)
      <4>1. Value[s] >= 0 /\ Value' = [Value EXCEPT ![s] = @ + 1] /\ blocked' = blocked
        BY <3>4 DEF SignalPasses, ListsStay
      <4>2. units(Value', blocked') = [units(Value, blocked) EXCEPT ![s] = @ + 1]
        <5>1. \A r \in Semaphores :
                /\ Value[r] \in Int /\ Len(blocked[r]) \in Nat
                /\ Value'[r] = IF r = s THEN Value[r] + 1 ELSE Value[r]
          BY <3>1, <4>1
        <5>2. \A r \in Semaphores :
                Value'[r] + Len(blocked'[r]) =
                  IF r = s THEN (Value[s] + Len(blocked[s])) + 1 ELSE Value[r] + Len(blocked[r])
          BY <4>1, <5>1
        <5>3. QED
          BY <5>2
      <4>3. ToSet(blocked[s]) = {}
        <5>1. Len(blocked[s]) = 0 /\ blocked[s] \in Seq(Threads)
          BY <1>2, <3>1, <4>1 DEF IInv, CountMatchesList
        <5>2. QED
          BY <5>1 DEF ToSet
      <4>4. QED
        BY <4>1, <4>2, <4>3 DEF Semaphore!Release
    <3>5. ASSUME NEW t \in Threads, NEW s \in Semaphores, JoinsList(s, t)
          PROVE  Semaphore!Join(s, t)
      <4> DEFINE k == WaitPosition(blocked[s], priority[t])
      <4>1. /\ Value[s] - 1 < 0
            /\ Value' = [Value EXCEPT ![s] = @ - 1]
            /\ blocked' = [blocked EXCEPT ![s] = InsertAt(@, k, t)]
        BY <3>5 DEF JoinsList
      <4>2. \A r \in Semaphores : t \notin ToSet(blocked[r])
        <5>1. status[t] = "ALIVE"
          BY <1>2, <3>5 DEF IInv, RunsOnlyAlive, JoinsList
        <5>2. QED
          BY <3>1, <5>1 DEF Lists
      <4>3. /\ ToSet(InsertAt(blocked[s], k, t)) = ToSet(blocked[s]) \cup {t}
            /\ Len(InsertAt(blocked[s], k, t)) = Len(blocked[s]) + 1
        <5>1. blocked[s] \in Seq(Threads)
          BY <3>1
        <5>2. k \in 1..Len(blocked[s]) + 1
          BY <5>1, WaitPositionLemma
        <5> HIDE DEF k
        <5>3. ToSet(InsertAt(blocked[s], k, t)) = ToSet(blocked[s]) \cup {t}
          BY ONLY <5>1, <5>2, t \in Threads, InsertAtSet
        <5>4. Len(InsertAt(blocked[s], k, t)) = Len(blocked[s]) + 1
          BY ONLY <5>1, <5>2, t \in Threads, InsertAtLemma
        <5>5. QED
          BY <5>3, <5>4
      <4> HIDE DEF k
      <4>4. units(Value', blocked') = units(Value, blocked) /\ units(Value, blocked)[s] = 0
        <5>1. ASSUME NEW r \in Semaphores
              PROVE  Value'[r] + Len(blocked'[r]) = Value[r] + Len(blocked[r])
          <6>1. Value[r] \in Int /\ Len(blocked[r]) \in Nat
            BY <3>1
          <6>2. QED
            BY <3>1, <4>1, <4>3, <6>1
        <5>2. Value[s] + Len(blocked[s]) = 0
          BY <3>1, <4>1
        <5>3. QED
          BY <5>1, <5>2
      <4>5. waiting(blocked') = [waiting(blocked) EXCEPT ![s] = @ \cup {t}]
        BY <3>1, <4>1, <4>3
      <4>6. QED
        BY <4>2, <4>4, <4>5 DEF Semaphore!Join
    <3>6. ASSUME NEW s \in Semaphores, LeavesList(s)
          PROVE  Semaphore!HandOver(s, Head(blocked[s])) /\ Head(blocked[s]) \in Threads
      <4> DEFINE b == Head(blocked[s])
      <4>1. /\ Value[s] < 0
            /\ Value' = [Value EXCEPT ![s] = @ + 1]
            /\ blocked' = [blocked EXCEPT ![s] = Tail(@)]
        BY <3>6 DEF LeavesList
      <4>2. /\ b \in Threads
            /\ b \in ToSet(blocked[s])
            /\ ToSet(Tail(blocked[s])) = ToSet(blocked[s]) \ {b}
        BY <1>2, <3>1, <4>1, SignalFindsWaiter DEF Lists
      <4> HIDE DEF b
      <4>3. units(Value', blocked') = units(Value, blocked)
        <5>1. blocked[s] \in Seq(Threads) /\ blocked[s] # <<>>
          BY <1>2, <3>1, <4>1, SignalFindsWaiter
        <5>2. Len(Tail(blocked[s])) = Len(blocked[s]) - 1
          BY <5>1, HeadTailProperties
        <5>3. ASSUME NEW r \in Semaphores
              PROVE  Value'[r] + Len(blocked'[r]) = Value[r] + Len(blocked[r])
          <6>1. Value[r] \in Int /\ Len(blocked[r]) \in Nat
            BY <3>1
          <6>2. QED
            BY <3>1, <4>1, <5>2, <6>1
        <5>4. QED
          BY <5>3
      <4>4. waiting(blocked') = [waiting(blocked) EXCEPT ![s] = @ \ {b}]
        BY <3>1, <4>1, <4>2
      <4>5. QED
        BY <4>2, <4>3, <4>4 DEF Semaphore!HandOver, b
    <3>7. QED
      BY <1>2, <3>2, <3>3, <3>4, <3>5, <3>6, StepsOfLists DEF Semaphore!Next
  <2>3. QED
    BY <2>1, <2>2
<1>3. QED
  BY <1>1, <1>2, Invariance, PTL DEF Spec, ImplementsSemaphore, Semaphore!Spec

=============================================================================
