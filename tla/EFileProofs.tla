------------------------------ MODULE EFileProofs ------------------------------
(***************************************************************************)
(* Proofs about EFile: no step joins two chains of sectors, loses an       *)
(* accepted byte or the file of another call, also when the power goes     *)
(* between two sector writes.  All of it is about a disk that is not       *)
(* damaged: no call was cut short by an error of the disk or the end of    *)
(* free space, and the power did not go while eFile_Write links a sector,  *)
(* which leaves a file that leads into the free chain.                     *)
(*                                                                         *)
(* The chains of files and free space are carried along as sequences of    *)
(* sectors without duplicates: taking the first sector off and adding one  *)
(* at the end are then Tail and Append, and what a chain does not touch    *)
(* stays as it is.  At the end the chains and their bytes are found by     *)
(* the walk and the sum the properties are written with.  A disk that is   *)
(* half formatted when the power goes has a free chain because sectors     *)
(* only ever lead to later ones: files are extended by the first free      *)
(* sector, and all of their sectors are before it.                         *)
(***************************************************************************)
EXTENDS EFile, FiniteSetTheorems, WellFoundedInduction, TLAPS

LEMMA Sizes == /\ NUM_FILES \in Nat /\ NUM_FILES >= 2
               /\ NUM_SECTORS \in Nat /\ NUM_SECTORS >= 2
               /\ MAX_SECTOR_DATA \in Nat /\ MAX_SECTOR_DATA >= 2
               /\ NoName \notin Names
  BY EFileAssumption DEF EFileAssumption

(* A non-empty set of natural numbers has a least element. *)
LEMMA Least ==
  ASSUME NEW S \in SUBSET Nat, S # {}
  PROVE  \E x \in S : \A y \in S : x <= y
<1>1. \E x \in S : \A y \in S : ~(<<y, x>> \in OpToRel(<, Nat))
  BY NatLessThanWellFounded, WFMin
<1>2. \A x, y \in Nat : y < x => <<y, x>> \in OpToRel(<, Nat)
  BY DEF OpToRel
<1>3. PICK x \in S : \A y \in S : ~(<<y, x>> \in OpToRel(<, Nat))
  BY <1>1
<1>4. \A y \in S : ~(y < x)
  BY <1>2, <1>3
<1>5. QED
  BY <1>4

LEMMA SetInduction ==
  ASSUME NEW S \in SUBSET Nat, 0 \in S, \A n \in S : n + 1 \in S
  PROVE  S = Nat
<1> SUFFICES ASSUME Nat \ S # {} PROVE FALSE
  OBVIOUS
<1>1. PICK x \in Nat \ S : \A y \in Nat \ S : x <= y
  BY Least
<1>2. x # 0 /\ x - 1 \in Nat
  OBVIOUS
<1>3. x - 1 \in S
  BY <1>1, <1>2
<1>4. QED
  BY <1>1, <1>2, <1>3

-----------------------------------------------------------------------------
(* Chains of sectors.                                                      *)

Blocks == [next : 0..OUTSIDE, data : Seq(Names)]
Disks  == [Sectors -> Blocks]

Of(q) == {q[k] : k \in 1..Len(q)}

(* The sectors q are linked, from s on; the last one leads to e. *)
Linked(sec, s, q, e) ==
  /\ q \in Seq(Sectors)
  /\ \A k, l \in 1..Len(q) : q[k] = q[l] => k = l
  /\ \A k \in 1..Len(q) - 1 : sec[q[k]].next = q[k + 1]
  /\ IF Len(q) = 0 THEN s = e ELSE q[1] = s /\ sec[q[Len(q)]].next = e

Filled(m) == m * MAX_SECTOR_DATA

(* The sectors q hold k bytes of n and no others, and all but the last are full. *)
Stored(sec, q, n, k) ==
  /\ Len(q) > 0
  /\ \A p \in 1..Len(q) :
       sec[q[p]].data \in Seq({n}) /\ Len(sec[q[p]].data) <= MAX_SECTOR_DATA
  /\ \A p \in 1..Len(q) - 1 : Len(sec[q[p]].data) = MAX_SECTOR_DATA
  /\ k = Filled(Len(q) - 1) + Len(sec[q[Len(q)]].data)

LEMMA FilledStep == /\ Filled(0) = 0
                    /\ \A m \in Nat : /\ Filled(m) \in Nat
                                      /\ Filled(m + 1) = Filled(m) + MAX_SECTOR_DATA
<1>1. Filled(0) = 0
  BY Sizes DEF Filled
<1>2. ASSUME NEW m \in Nat
      PROVE  Filled(m) \in Nat /\ Filled(m + 1) = Filled(m) + MAX_SECTOR_DATA
  BY Sizes DEF Filled
<1>3. QED
  BY <1>1, <1>2

LEMMA LinkedIn ==
  ASSUME NEW sec, NEW s, NEW q, NEW e, Linked(sec, s, q, e)
  PROVE  /\ Of(q) \subseteq Sectors
         /\ q \in Seq(Sectors)
         /\ Len(q) \in Nat
         /\ Len(q) > 0 => q[Len(q)] \in Of(q) /\ sec[q[Len(q)]].next = e
  BY DEF Linked, Of

(* What the chain does not depend on may change. *)
LEMMA LinkedFrame ==
  ASSUME NEW sec, NEW sec2, NEW s, NEW q, NEW e, Linked(sec, s, q, e),
         \A t \in Of(q) : sec2[t].next = sec[t].next
  PROVE  Linked(sec2, s, q, e)
<1>1. Len(q) \in Nat
  BY DEF Linked
<1>2. \A k \in 1..Len(q) : q[k] \in Of(q)
  BY DEF Of
<1>3. QED
  BY <1>1, <1>2 DEF Linked

LEMMA StoredFrame ==
  ASSUME NEW sec, NEW sec2, NEW q, NEW n, NEW k, Len(q) \in Nat, Stored(sec, q, n, k),
         \A t \in Of(q) : sec2[t].data = sec[t].data
  PROVE  Stored(sec2, q, n, k)
<1>1. \A p \in 1..Len(q) : sec2[q[p]].data = sec[q[p]].data
  BY DEF Of
<1>2. Len(q) \in 1..Len(q) /\ \A p \in 1..Len(q) - 1 : p \in 1..Len(q)
  BY DEF Stored
<1>3. k = Filled(Len(q) - 1) + Len(sec2[q[Len(q)]].data)
  BY <1>1, <1>2 DEF Stored
<1>4. QED
  BY <1>1, <1>2, <1>3 DEF Stored

(* Taking the first sector off. *)
LEMMA LinkedTail ==
  ASSUME NEW sec, NEW f, NEW q, Linked(sec, f, q, 0), f # 0
  PROVE  /\ f \in Of(q)
         /\ Linked(sec, sec[f].next, Tail(q), 0)
         /\ f \notin Of(Tail(q))
         /\ Of(Tail(q)) \subseteq Of(q)
<1> DEFINE r == Tail(q)
<1>1. Len(q) > 0 /\ q[1] = f /\ Len(q) \in Nat
  BY DEF Linked
<1>2. r \in Seq(Sectors) /\ Len(r) = Len(q) - 1 /\ \A k \in 1..Len(r) : r[k] = q[k + 1]
  BY <1>1 DEF Linked
<1> HIDE DEF r
<1>3. f \in Of(q)
  BY <1>1 DEF Of
<1>4. Of(r) \subseteq Of(q)
  BY <1>1, <1>2 DEF Of
<1>5. f \notin Of(r)
  <2>1. SUFFICES ASSUME NEW k \in 1..Len(r), r[k] = f PROVE FALSE
    BY DEF Of
  <2>2. q[k + 1] = q[1] /\ k + 1 \in 1..Len(q) /\ 1 \in 1..Len(q)
    BY <1>1, <1>2, <2>1
  <2>3. QED
    BY <2>2 DEF Linked
<1>6. \A k, l \in 1..Len(r) : r[k] = r[l] => k = l
  <2>1. SUFFICES ASSUME NEW k \in 1..Len(r), NEW l \in 1..Len(r), r[k] = r[l] PROVE k = l
    OBVIOUS
  <2>2. q[k + 1] = q[l + 1] /\ k + 1 \in 1..Len(q) /\ l + 1 \in 1..Len(q)
    BY <1>1, <1>2, <2>1
  <2>3. QED
    BY <2>2 DEF Linked
<1>7. \A k \in 1..Len(r) - 1 : sec[r[k]].next = r[k + 1]
  <2>1. SUFFICES ASSUME NEW k \in 1..Len(r) - 1 PROVE sec[r[k]].next = r[k + 1]
    OBVIOUS
  <2>2. r[k] = q[k + 1] /\ r[k + 1] = q[k + 1 + 1] /\ k + 1 \in 1..Len(q) - 1
    BY <1>1, <1>2
  <2>3. QED
    BY <2>2 DEF Linked
<1>8. ASSUME Len(q) = 1 PROVE Linked(sec, sec[f].next, r, 0)
  <2>1. Len(r) = 0 /\ sec[f].next = 0
    BY <1>1, <1>2, <1>8 DEF Linked
  <2>2. QED
    BY <1>2, <1>6, <1>7, <2>1 DEF Linked
<1>9. ASSUME Len(q) > 1 PROVE Linked(sec, sec[f].next, r, 0)
  <2>1. r[1] = q[2] /\ sec[q[1]].next = q[2] /\ r[Len(r)] = q[Len(q)] /\ Len(r) # 0
    BY <1>1, <1>2, <1>9 DEF Linked
  <2>2. sec[q[Len(q)]].next = 0
    BY <1>1 DEF Linked
  <2>3. QED
    BY <1>1, <1>2, <1>6, <1>7, <2>1, <2>2 DEF Linked
<1>10. Linked(sec, sec[f].next, r, 0)
  <2> DEFINE n == Len(q)
  <2>1. n \in Nat /\ n > 0
    BY ONLY <1>1
  <2> HIDE DEF n
  <2>2. n = 1 \/ n > 1
    BY ONLY <2>1
  <2>3. CASE n = 1
    BY <1>8, <2>3 DEF n
  <2>4. CASE n > 1
    BY <1>9, <2>4 DEF n
  <2>5. QED
    BY <2>2, <2>3, <2>4
<1>11. QED
  BY <1>3, <1>4, <1>5, <1>10 DEF r

(* Adding the sector the last one leads to. *)
LEMMA LinkedAppend ==
  ASSUME NEW sec \in Disks, NEW s, NEW q, NEW f \in Sectors, Linked(sec, s, q, f),
         f \notin Of(q), NEW b \in Blocks
  PROVE  /\ Linked([sec EXCEPT ![f] = b], s, Append(q, f), b.next)
         /\ Of(Append(q, f)) = Of(q) \cup {f}
         /\ Len(Append(q, f)) = Len(q) + 1
         /\ Append(q, f)[Len(q) + 1] = f
<1> DEFINE r == Append(q, f)
           sec2 == [sec EXCEPT ![f] = b]
<1>1. Len(q) \in Nat /\ q \in Seq(Sectors)
  BY DEF Linked
<1>2. /\ r \in Seq(Sectors) /\ Len(r) = Len(q) + 1
      /\ \A k \in 1..Len(q) : r[k] = q[k]
      /\ r[Len(q) + 1] = f
  BY <1>1
<1>3. sec2[f] = b /\ \A t \in Sectors : t # f => sec2[t] = sec[t]
  BY DEF Disks
<1>4. \A k \in 1..Len(q) : q[k] # f /\ q[k] \in Sectors
  BY <1>1 DEF Of
<1> HIDE DEF r, sec2
<1>5. \A k, l \in 1..Len(r) : r[k] = r[l] => k = l
  <2>1. SUFFICES ASSUME NEW k \in 1..Len(r), NEW l \in 1..Len(r), r[k] = r[l] PROVE k = l
    OBVIOUS
  <2>2. CASE k \in 1..Len(q) /\ l \in 1..Len(q)
    BY <1>2, <2>1, <2>2 DEF Linked
  <2>3. CASE k = Len(q) + 1 \/ l = Len(q) + 1
    BY <1>1, <1>2, <1>4, <2>1, <2>3
  <2>4. QED
    BY <1>1, <1>2, <2>2, <2>3
<1>6. \A k \in 1..Len(r) - 1 : sec2[r[k]].next = r[k + 1]
  <2>1. SUFFICES ASSUME NEW k \in 1..Len(r) - 1 PROVE sec2[r[k]].next = r[k + 1]
    OBVIOUS
  <2>2. k \in 1..Len(q) /\ r[k] = q[k] /\ sec2[q[k]] = sec[q[k]]
    BY <1>1, <1>2, <1>3, <1>4
  <2>3. CASE k = Len(q)
    BY <1>1, <1>2, <2>2, <2>3 DEF Linked
  <2>4. CASE k # Len(q)
    BY <1>1, <1>2, <2>2, <2>4 DEF Linked
  <2>5. QED
    BY <2>3, <2>4
<1>7. r[1] = s
  BY <1>1, <1>2 DEF Linked
<1>8. Linked(sec2, s, r, b.next)
  BY <1>1, <1>2, <1>3, <1>5, <1>6, <1>7 DEF Linked
<1>9. \A t : t \in Of(r) <=> t \in Of(q) \cup {f}
  BY <1>1, <1>2 DEF Of
<1>10. QED
  BY <1>2, <1>8, <1>9 DEF r, sec2

(* Writing the last sector again. *)
LEMMA LinkedLast ==
  ASSUME NEW sec \in Disks, NEW s, NEW q, NEW e, Linked(sec, s, q, e), Len(q) > 0,
         NEW b \in Blocks
  PROVE  Linked([sec EXCEPT ![q[Len(q)]] = b], s, q, b.next)
<1> DEFINE t == q[Len(q)]
           sec2 == [sec EXCEPT ![t] = b]
<1>1. Len(q) \in Nat /\ q \in Seq(Sectors) /\ t \in Sectors
  BY DEF Linked
<1>2. sec2[t] = b /\ \A u \in Sectors : u # t => sec2[u] = sec[u]
  BY <1>1 DEF Disks
<1>3. \A k \in 1..Len(q) - 1 : q[k] # t /\ q[k] \in Sectors
  BY <1>1 DEF Linked
<1> HIDE DEF sec2
<1>4. \A k \in 1..Len(q) - 1 : sec2[q[k]].next = q[k + 1]
  BY <1>1, <1>2, <1>3 DEF Linked
<1>5. QED
  BY <1>1, <1>2, <1>4 DEF Linked, sec2

LEMMA StoredLast ==
  ASSUME NEW sec \in Disks, NEW s, NEW q, NEW e, Linked(sec, s, q, e), NEW n, NEW k,
         Stored(sec, q, n, k), NEW b \in Blocks, b.data \in Seq({n}),
         Len(b.data) <= MAX_SECTOR_DATA
  PROVE  Stored([sec EXCEPT ![q[Len(q)]] = b], q, n,
                k - Len(sec[q[Len(q)]].data) + Len(b.data))
<1> DEFINE t == q[Len(q)]
           sec2 == [sec EXCEPT ![t] = b]
<1>1. Len(q) \in Nat \ {0} /\ q \in Seq(Sectors) /\ t \in Sectors
  BY DEF Linked, Stored
<1>2. sec2[t] = b /\ \A u \in Sectors : u # t => sec2[u] = sec[u]
  BY <1>1 DEF Disks
<1>3. \A p \in 1..Len(q) - 1 : q[p] # t /\ q[p] \in Sectors
  BY <1>1 DEF Linked
<1> HIDE DEF sec2
<1>4. \A p \in 1..Len(q) - 1 : sec2[q[p]] = sec[q[p]]
  BY <1>1, <1>2, <1>3
<1>5. Len(sec[t].data) \in Nat /\ Len(b.data) \in Nat /\ Filled(Len(q) - 1) \in Nat
  <2>1. Len(q) - 1 \in Nat /\ sec[t].data \in Seq({n})
    BY <1>1 DEF Stored
  <2>2. Filled(Len(q) - 1) \in Nat
    BY <2>1, FilledStep
  <2>3. Len(sec[t].data) \in Nat /\ Len(b.data) \in Nat
    BY <2>1
  <2>4. QED
    BY <2>2, <2>3
<1>6. ASSUME NEW p \in 1..Len(q)
      PROVE  sec2[q[p]].data \in Seq({n}) /\ Len(sec2[q[p]].data) <= MAX_SECTOR_DATA
  <2>1. CASE p = Len(q)
    BY <1>2, <2>1
  <2>2. CASE p # Len(q)
    BY <1>1, <1>4, <2>2 DEF Stored
  <2>3. QED
    BY <2>1, <2>2
<1>7. k - Len(sec[t].data) + Len(b.data) = Filled(Len(q) - 1) + Len(sec2[t].data)
  BY <1>2, <1>5 DEF Stored
<1>8. \A p \in 1..Len(q) - 1 : Len(sec2[q[p]].data) = MAX_SECTOR_DATA
  BY <1>4 DEF Stored
<1>9. QED
  BY <1>1, <1>6, <1>7, <1>8 DEF Stored, sec2

LEMMA StoredAppend ==
  ASSUME NEW sec \in Disks, NEW s, NEW q, NEW f \in Sectors, Linked(sec, s, q, f),
         f \notin Of(q), NEW n, NEW k, Stored(sec, q, n, k),
         Len(sec[q[Len(q)]].data) = MAX_SECTOR_DATA,
         NEW b \in Blocks, b.data \in Seq({n}), Len(b.data) <= MAX_SECTOR_DATA
  PROVE  Stored([sec EXCEPT ![f] = b], Append(q, f), n, k + Len(b.data))
<1> DEFINE r == Append(q, f)
           sec2 == [sec EXCEPT ![f] = b]
<1>1. Len(q) \in Nat \ {0} /\ q \in Seq(Sectors)
  BY DEF Linked, Stored
<1>2. /\ r \in Seq(Sectors) /\ Len(r) = Len(q) + 1
      /\ \A i \in 1..Len(q) : r[i] = q[i]
      /\ r[Len(q) + 1] = f
  BY <1>1
<1>3. sec2[f] = b /\ \A t \in Sectors : t # f => sec2[t] = sec[t]
  BY DEF Disks
<1>4. \A i \in 1..Len(q) : q[i] # f /\ q[i] \in Sectors
  BY <1>1 DEF Of
<1> HIDE DEF r, sec2
<1>5. \A p \in 1..Len(q) : sec2[r[p]] = sec[q[p]]
  BY <1>1, <1>2, <1>3, <1>4
<1>6. ASSUME NEW p \in 1..Len(r)
      PROVE  sec2[r[p]].data \in Seq({n}) /\ Len(sec2[r[p]].data) <= MAX_SECTOR_DATA
  <2>1. CASE p = Len(q) + 1
    BY <1>2, <1>3, <2>1
  <2>2. CASE p # Len(q) + 1
    <3>1. p \in 1..Len(q)
      BY <1>1, <1>2, <2>2
    <3>2. QED
      BY <1>5, <3>1 DEF Stored
  <2>3. QED
    BY <2>1, <2>2
<1>7. ASSUME NEW p \in 1..Len(r) - 1 PROVE Len(sec2[r[p]].data) = MAX_SECTOR_DATA
  <2>1. p \in 1..Len(q)
    BY <1>1, <1>2
  <2>2. CASE p = Len(q)
    BY <1>5, <2>1, <2>2
  <2>3. CASE p # Len(q)
    <3>1. p \in 1..Len(q) - 1
      BY <1>1, <2>1, <2>3
    <3>2. QED
      BY <1>5, <2>1, <3>1 DEF Stored
  <2>4. QED
    BY <2>2, <2>3
<1>8. Filled(Len(q) - 1) \in Nat /\ Filled(Len(q)) = Filled(Len(q) - 1) + MAX_SECTOR_DATA
  <2>1. Len(q) - 1 \in Nat /\ (Len(q) - 1) + 1 = Len(q)
    BY <1>1
  <2>2. QED
    BY <2>1, FilledStep
<1>9. k + Len(b.data) = Filled(Len(r) - 1) + Len(sec2[r[Len(r)]].data)
  <2>1. k = Filled(Len(q) - 1) + MAX_SECTOR_DATA
    BY DEF Stored
  <2>2. Len(r) - 1 = Len(q) /\ sec2[r[Len(r)]] = b
    BY <1>1, <1>2, <1>3
  <2>3. QED
    BY <1>8, <2>1, <2>2
<1>10. Len(r) > 0
  BY <1>1, <1>2
<1>11. QED
  BY <1>6, <1>7, <1>9, <1>10 DEF Stored, r, sec2

-----------------------------------------------------------------------------
(* The walk of Ends and Chain visits the sectors of the chain.             *)

Visits(q) == [k \in 0..NUM_SECTORS |-> IF k < Len(q) THEN q[k + 1] ELSE 0]

IsWalk(sec, s, w) ==
  w = [k \in 0..NUM_SECTORS |->
         IF k = 0 THEN s ELSE IF w[k - 1] = 0 THEN 0 ELSE sec[w[k - 1]].next]

LEMMA WalkStep ==
  ASSUME NEW sec, NEW s, NEW w, IsWalk(sec, s, w)
  PROVE  /\ w[0] = s
         /\ \A k \in 0..NUM_SECTORS - 1 :
              w[k + 1] = IF w[k] = 0 THEN 0 ELSE sec[w[k]].next
<1>1. \A k \in 0..NUM_SECTORS :
        w[k] = IF k = 0 THEN s ELSE IF w[k - 1] = 0 THEN 0 ELSE sec[w[k - 1]].next
  BY DEF IsWalk
<1>2. ASSUME NEW k \in 0..NUM_SECTORS - 1
      PROVE  w[k + 1] = IF w[k] = 0 THEN 0 ELSE sec[w[k]].next
  <2>1. k + 1 \in 0..NUM_SECTORS /\ k + 1 # 0 /\ (k + 1) - 1 = k
    BY Sizes
  <2>2. QED
    BY <1>1, <2>1
<1>3. QED
  BY <1>1, <1>2, Sizes

(* A chain leaves out sector 0. *)
LEMMA LinkedShort ==
  ASSUME NEW sec, NEW s, NEW q, NEW e, Linked(sec, s, q, e)
  PROVE  Len(q) \in 0..NUM_SECTORS - 1
<1>1. Len(q) \in Nat /\ q \in [1..Len(q) -> Sectors]
  BY DEF Linked
<1>2. IsFiniteSet(1..Len(q)) /\ Cardinality(1..Len(q)) = Len(q)
  <2>1. 1 \in Int /\ Len(q) \in Int
    BY <1>1
  <2>2. /\ IsFiniteSet(1..Len(q))
        /\ Cardinality(1..Len(q)) = IF 1 > Len(q) THEN 0 ELSE Len(q) - 1 + 1
    BY <2>1, FS_Interval
  <2>3. QED
    BY <1>1, <2>2
<1>3. IsFiniteSet(Sectors) /\ Cardinality(Sectors) = NUM_SECTORS - 1
  <2>1. 1 \in Int /\ NUM_SECTORS - 1 \in Int
    BY Sizes
  <2>2. /\ IsFiniteSet(1..NUM_SECTORS - 1)
        /\ Cardinality(1..NUM_SECTORS - 1) =
             IF 1 > NUM_SECTORS - 1 THEN 0 ELSE NUM_SECTORS - 1 - 1 + 1
    BY <2>1, FS_Interval
  <2>3. QED
    BY Sizes, <2>2 DEF Sectors
<1>4. SUFFICES ASSUME Len(q) > NUM_SECTORS - 1 PROVE FALSE
  BY <1>1, Sizes
<1>5. Cardinality(Sectors) < Cardinality(1..Len(q))
  BY <1>1, <1>2, <1>3, <1>4, Sizes
<1>6. \E x, y \in 1..Len(q) : x # y /\ q[x] = q[y]
  BY <1>1, <1>2, <1>3, <1>5, FS_PigeonHole
<1>7. QED
  BY <1>6 DEF Linked

LEMMA VisitsStep ==
  ASSUME NEW sec, NEW s, NEW q, Linked(sec, s, q, 0)
  PROVE  /\ Visits(q)[0] = s
         /\ Visits(q)[NUM_SECTORS] = 0
         /\ \A k \in 0..NUM_SECTORS - 1 :
              Visits(q)[k + 1] = IF Visits(q)[k] = 0 THEN 0 ELSE sec[Visits(q)[k]].next
<1> DEFINE v == Visits(q)
<1>1. Len(q) \in Nat /\ Len(q) <= NUM_SECTORS - 1 /\ q \in Seq(Sectors)
  <2>1. Len(q) \in 0..NUM_SECTORS - 1 /\ q \in Seq(Sectors)
    BY LinkedShort, LinkedIn
  <2>2. QED
    BY <2>1, Sizes
<1>2. \A k \in 0..NUM_SECTORS : v[k] = IF k < Len(q) THEN q[k + 1] ELSE 0
  BY DEF Visits
<1> HIDE DEF v
<1>3. v[0] = s /\ v[NUM_SECTORS] = 0
  BY <1>1, <1>2, Sizes DEF Linked
<1>4. \A k \in 1..Len(q) : q[k] # 0
  BY <1>1, Sizes DEF Sectors
<1>5. ASSUME NEW k \in 0..NUM_SECTORS - 1
      PROVE  v[k + 1] = IF v[k] = 0 THEN 0 ELSE sec[v[k]].next
  <2>1. k \in 0..NUM_SECTORS /\ k + 1 \in 0..NUM_SECTORS
    BY Sizes
  <2>2. CASE k + 1 < Len(q)
    <3>1. v[k] = q[k + 1] /\ v[k + 1] = q[(k + 1) + 1] /\ k + 1 \in 1..Len(q) - 1
      BY <1>1, <1>2, <2>1, <2>2
    <3>2. q[k + 1] # 0 /\ sec[q[k + 1]].next = q[(k + 1) + 1]
      BY <1>1, <1>4, <3>1 DEF Linked
    <3>3. QED
      BY <3>1, <3>2
  <2>3. CASE k + 1 = Len(q)
    <3>1. v[k] = q[Len(q)] /\ v[k + 1] = 0 /\ Len(q) \in 1..Len(q)
      BY <1>1, <1>2, <2>1, <2>3
    <3>2. q[Len(q)] # 0 /\ sec[q[Len(q)]].next = 0
      BY <1>1, <1>4, <3>1 DEF Linked
    <3>3. QED
      BY <3>1, <3>2
  <2>4. CASE k + 1 > Len(q)
    BY <1>1, <1>2, <2>1, <2>4
  <2>5. QED
    BY <1>1, <2>2, <2>3, <2>4
<1>6. QED
  BY <1>3, <1>5 DEF v

LEMMA WalkIs ==
  ASSUME NEW sec, NEW s, NEW q, Linked(sec, s, q, 0)
  PROVE  \A k \in 0..NUM_SECTORS : Walk(sec, s)[k] = Visits(q)[k]
<1> DEFINE v == Visits(q)
           w == CHOOSE f : IsWalk(sec, s, f)
<1>1. /\ v[0] = s
      /\ \A k \in 0..NUM_SECTORS - 1 :
           v[k + 1] = IF v[k] = 0 THEN 0 ELSE sec[v[k]].next
      /\ v = [k \in 0..NUM_SECTORS |-> v[k]]
  <2>1. v = [k \in 0..NUM_SECTORS |-> v[k]]
    BY DEF Visits
  <2>2. /\ v[0] = s
        /\ \A k \in 0..NUM_SECTORS - 1 :
             v[k + 1] = IF v[k] = 0 THEN 0 ELSE sec[v[k]].next
    BY VisitsStep
  <2> HIDE DEF v
  <2>3. QED
    BY <2>1, <2>2
<1> HIDE DEF v
<1>2. IsWalk(sec, s, v)
  <2>1. ASSUME NEW k \in 0..NUM_SECTORS
        PROVE  v[k] = IF k = 0 THEN s ELSE IF v[k - 1] = 0 THEN 0 ELSE sec[v[k - 1]].next
    <3>1. CASE k = 0
      BY <1>1, <3>1
    <3>2. CASE k # 0
      <4>1. k - 1 \in 0..NUM_SECTORS - 1 /\ (k - 1) + 1 = k
        BY <3>2, Sizes
      <4>2. QED
        BY <1>1, <3>2, <4>1
    <3>3. QED
      BY <3>1, <3>2
  <2>2. QED
    BY <1>1, <2>1 DEF IsWalk
<1>3. IsWalk(sec, s, w)
  BY <1>2
<1>4. Walk(sec, s) = w
  BY Zenon DEF Walk, IsWalk
<1> HIDE DEF w
<1> DEFINE S == {k \in Nat : k <= NUM_SECTORS => w[k] = v[k]}
<1>5. 0 \in S
  BY <1>1, <1>3, WalkStep
<1>6. ASSUME NEW k \in S PROVE k + 1 \in S
  <2>1. CASE k + 1 <= NUM_SECTORS
    <3>1. k \in 0..NUM_SECTORS - 1 /\ w[k] = v[k]
      BY <2>1, Sizes
    <3>2. w[k + 1] = IF w[k] = 0 THEN 0 ELSE sec[w[k]].next
      BY <1>3, <3>1, WalkStep
    <3>3. w[k + 1] = v[k + 1]
      BY <1>1, <3>1, <3>2
    <3>4. QED
      BY <3>3
  <2>2. CASE ~(k + 1 <= NUM_SECTORS)
    BY <2>2
  <2>3. QED
    BY <2>1, <2>2
<1>7. S = Nat
  <2>1. S \in SUBSET Nat
    OBVIOUS
  <2> HIDE DEF S
  <2>2. QED
    BY <1>5, <1>6, <2>1, SetInduction
<1>8. QED
  BY <1>4, <1>7, Sizes DEF v

LEMMA LinkedChain ==
  ASSUME NEW sec, NEW s, NEW q, Linked(sec, s, q, 0)
  PROVE  Ends(sec, s) /\ Chain(sec, s) = Of(q)
<1>1. Len(q) \in Nat /\ Len(q) <= NUM_SECTORS - 1 /\ q \in Seq(Sectors)
  <2>1. Len(q) \in 0..NUM_SECTORS - 1 /\ q \in Seq(Sectors)
    BY LinkedShort, LinkedIn
  <2>2. QED
    BY <2>1, Sizes
<1>2. Walk(sec, s)[NUM_SECTORS] = 0
  <2>1. NUM_SECTORS \in 0..NUM_SECTORS
    BY Sizes
  <2>2. QED
    BY <2>1, WalkIs, VisitsStep
<1>3. \A k \in 0..NUM_SECTORS : Walk(sec, s)[k] = IF k < Len(q) THEN q[k + 1] ELSE 0
  BY WalkIs DEF Visits
<1>4. \A k \in 1..Len(q) : q[k] # 0
  BY <1>1, Sizes DEF Sectors
<1>5. ASSUME NEW t PROVE t \in Chain(sec, s) <=> t \in Of(q)
  <2>1. ASSUME t \in Chain(sec, s) PROVE t \in Of(q)
    <3>1. PICK k \in 0..NUM_SECTORS : Walk(sec, s)[k] = t /\ t # 0
      BY <2>1 DEF Chain
    <3>2. k < Len(q) /\ q[k + 1] = t
      BY <1>3, <3>1
    <3>3. QED
      BY <1>1, <3>2 DEF Of
  <2>2. ASSUME t \in Of(q) PROVE t \in Chain(sec, s)
    <3>1. PICK k \in 1..Len(q) : q[k] = t
      BY <2>2 DEF Of
    <3>2. k - 1 \in 0..NUM_SECTORS /\ k - 1 < Len(q) /\ (k - 1) + 1 = k
      BY <1>1, Sizes
    <3>3. Walk(sec, s)[k - 1] = t /\ t # 0
      BY <1>3, <1>4, <3>1, <3>2
    <3>4. QED
      BY <3>2, <3>3 DEF Chain
  <2>3. QED
    BY <2>1, <2>2
<1>6. QED
  BY <1>2, <1>5 DEF Ends

-----------------------------------------------------------------------------
(* The sum of Holds is the number of bytes of the chain.                   *)

SumOf(sec, S, g) ==
  g = [T \in SUBSET S |->
         IF T = {} THEN 0
         ELSE Len(sec[CHOOSE t \in T : TRUE].data) + g[T \ {CHOOSE t \in T : TRUE}]]

(* The bytes of some sectors of a chain. *)
Part(sec, q, T) ==
  IF q[Len(q)] \in T THEN Filled(Cardinality(T) - 1) + Len(sec[q[Len(q)]].data)
                     ELSE Filled(Cardinality(T))

LEMMA ChainFinite ==
  ASSUME NEW sec, NEW s, NEW q, NEW e, Linked(sec, s, q, e)
  PROVE  IsFiniteSet(Of(q)) /\ Cardinality(Of(q)) = Len(q)
<1>1. Len(q) \in Nat /\ q \in [1..Len(q) -> Sectors]
  BY DEF Linked
<1>2. IsFiniteSet(1..Len(q)) /\ Cardinality(1..Len(q)) = Len(q)
  <2>1. 1 \in Int /\ Len(q) \in Int
    BY <1>1
  <2>2. /\ IsFiniteSet(1..Len(q))
        /\ Cardinality(1..Len(q)) = IF 1 > Len(q) THEN 0 ELSE Len(q) - 1 + 1
    BY <2>1, FS_Interval
  <2>3. QED
    BY <1>1, <2>2
<1>3. q \in Bijection(1..Len(q), Of(q))
  <2>1. q \in [1..Len(q) -> Of(q)] /\ \A t \in Of(q) : \E k \in 1..Len(q) : q[k] = t
    BY <1>1 DEF Of
  <2>2. \A k, l \in 1..Len(q) : q[k] = q[l] => k = l
    BY DEF Linked
  <2>3. QED
    BY <2>1, <2>2 DEF Bijection, Injection, Surjection, IsInjective
<1>4. ExistsBijection(1..Len(q), Of(q))
  BY <1>3 DEF ExistsBijection
<1>5. QED
  BY <1>2, <1>4, FS_Bijection

(* A sector taken out of a part takes its bytes out. *)
LEMMA PartStep ==
  ASSUME NEW sec, NEW s, NEW q, NEW e, Linked(sec, s, q, e), NEW n, NEW k,
         Stored(sec, q, n, k), NEW T \in SUBSET Of(q), NEW t \in T
  PROVE  Part(sec, q, T) = Len(sec[t].data) + Part(sec, q, T \ {t})
<1> DEFINE z == q[Len(q)]
           C == Cardinality(T)
           U == T \ {t}
           D == Cardinality(U)
<1>1. IsFiniteSet(T) /\ C \in Nat /\ IsFiniteSet(U) /\ D \in Nat /\ C = D + 1
  BY ChainFinite, FS_Subset, FS_CardinalityType, FS_RemoveElement
<1>2. Len(sec[z].data) \in Nat
  <2>1. sec[z].data \in Seq({n})
    BY DEF Stored, Linked
  <2>2. QED
    BY <2>1
<1>3. PICK p \in 1..Len(q) : q[p] = t
  BY DEF Of
<1>4. Len(q) \in Nat
  BY DEF Linked
<1>5. t # z => Len(sec[t].data) = MAX_SECTOR_DATA
  BY <1>3, <1>4 DEF Stored
<1>6. Filled(D) \in Nat /\ Filled(C) = Filled(D) + MAX_SECTOR_DATA
  BY <1>1, FilledStep
<1>7. CASE t = z
  <2>1. C - 1 = D
    BY <1>1
  <2>2. z \in T /\ z \notin U
    BY <1>7
  <2>3. Part(sec, q, T) = Filled(D) + Len(sec[z].data) /\ Part(sec, q, U) = Filled(D)
    BY <2>1, <2>2 DEF Part
  <2> HIDE DEF C, D, U, z
  <2>4. QED
    BY <1>2, <1>6, <1>7, <2>3 DEF U
<1>8. CASE t # z /\ z \in T
  <2>1. z \in U
    BY <1>8
  <2>2. /\ Part(sec, q, T) = Filled(C - 1) + Len(sec[z].data)
        /\ Part(sec, q, U) = Filled(D - 1) + Len(sec[z].data)
    BY <1>8, <2>1 DEF Part
  <2>3. D # 0
    BY <1>1, <2>1, FS_EmptySet
  <2>4. D - 1 \in Nat /\ (D - 1) + 1 = D /\ C - 1 = D
    BY <1>1, <2>3
  <2>5. Filled(D - 1) \in Nat /\ Filled(C - 1) = Filled(D - 1) + MAX_SECTOR_DATA
    BY <2>4, FilledStep
  <2> HIDE DEF C, D, U, z
  <2>6. QED
    BY <1>2, <1>5, <1>8, <2>2, <2>5, Sizes DEF U
<1>9. CASE t # z /\ z \notin T
  <2>1. Part(sec, q, T) = Filled(C) /\ Part(sec, q, U) = Filled(D)
    BY <1>9 DEF Part
  <2> HIDE DEF C, D, U, z
  <2>2. QED
    BY <1>5, <1>6, <1>9, <2>1, Sizes DEF U
<1>10. QED
  BY <1>7, <1>8, <1>9

LEMMA PartWhole ==
  ASSUME NEW sec, NEW s, NEW q, NEW e, Linked(sec, s, q, e), NEW n, NEW k,
         Stored(sec, q, n, k)
  PROVE  Part(sec, q, Of(q)) = k /\ Part(sec, q, {}) = 0
<1>1. q[Len(q)] \in Of(q)
  BY LinkedIn DEF Stored
<1>2. Part(sec, q, Of(q)) = Filled(Len(q) - 1) + Len(sec[q[Len(q)]].data)
  BY <1>1, ChainFinite DEF Part
<1>3. Part(sec, q, {}) = 0
  BY FS_EmptySet, FilledStep DEF Part
<1>4. QED
  BY <1>2, <1>3 DEF Stored

Total(sec, S) == MapThenSumSet(LAMBDA t : Len(sec[t].data), S)

LEMMA SumIs ==
  ASSUME NEW sec, NEW s, NEW q, NEW e, Linked(sec, s, q, e), NEW n, NEW k,
         Stored(sec, q, n, k)
  PROVE  Total(sec, Of(q)) = k
<1> DEFINE S == Of(q)
           P == [T \in SUBSET S |-> Part(sec, q, T)]
           g == CHOOSE f : SumOf(sec, S, f)
           Any(T) == CHOOSE t \in T : TRUE
<1>1. \A T : T # {} => Any(T) \in T
  OBVIOUS
<1> HIDE DEF Any
<1>2. ASSUME NEW T \in SUBSET S, T # {}
      PROVE  Part(sec, q, T) = Len(sec[Any(T)].data) + Part(sec, q, T \ {Any(T)})
  BY <1>1, <1>2, PartStep
<1>3. Part(sec, q, {}) = 0
  BY PartWhole
<1> HIDE DEF S
<1>4. P = [T \in SUBSET S |->
             IF T = {} THEN 0 ELSE Len(sec[Any(T)].data) + P[T \ {Any(T)}]]
  <2>1. ASSUME NEW T \in SUBSET S
        PROVE  P[T] = IF T = {} THEN 0 ELSE Len(sec[Any(T)].data) + P[T \ {Any(T)}]
    BY <1>2, <1>3
  <2> HIDE DEF P
  <2>2. P = [T \in SUBSET S |-> P[T]]
    BY DEF P
  <2>3. QED
    BY <2>1, <2>2
<1>5. SumOf(sec, S, P)
  <2> HIDE DEF P
  <2>1. QED
    BY <1>4, Zenon DEF SumOf, Any
<1>6. SumOf(sec, S, g)
  <2> HIDE DEF P
  <2>1. QED
    BY <1>5
<1>7. Total(sec, S) = g[S]
  BY Zenon DEF Total, SumOf, MapThenSumSet, MapThenFoldSet
<1> HIDE DEF g
<1>8. ASSUME NEW T \in SUBSET S
      PROVE  g[T] = IF T = {} THEN 0 ELSE Len(sec[Any(T)].data) + g[T \ {Any(T)}]
  <2>1. \A R \in SUBSET S :
          g[R] = IF R = {} THEN 0
                 ELSE Len(sec[CHOOSE t \in R : TRUE].data) + g[R \ {CHOOSE t \in R : TRUE}]
    BY <1>6 DEF SumOf
  <2>2. QED
    BY <2>1 DEF Any
<1>9. \A T \in SUBSET S : IsFiniteSet(T) /\ Cardinality(T) \in Nat
  BY ChainFinite, FS_Subset, FS_CardinalityType DEF S
<1> DEFINE K == {m \in Nat : \A T \in SUBSET S : Cardinality(T) = m => g[T] = Part(sec, q, T)}
<1>10. 0 \in K
  <2>1. ASSUME NEW T \in SUBSET S, Cardinality(T) = 0 PROVE g[T] = Part(sec, q, T)
    <3>1. T = {}
      BY <1>9, <2>1, FS_EmptySet
    <3>2. QED
      BY <1>3, <1>8, <3>1
  <2>2. QED
    BY <2>1
<1>11. ASSUME NEW m \in K PROVE m + 1 \in K
  <2>1. ASSUME NEW T \in SUBSET S, Cardinality(T) = m + 1 PROVE g[T] = Part(sec, q, T)
    <3>1. T # {}
      BY <2>1, FS_EmptySet
    <3> DEFINE x == Any(T)
    <3>2. x \in T
      BY <1>1, <3>1
    <3> HIDE DEF x
    <3>3. Cardinality(T \ {x}) = Cardinality(T) - 1
      BY <1>9, <3>2, FS_RemoveElement
    <3>4. T \ {x} \in SUBSET S /\ Cardinality(T \ {x}) = m
      BY <2>1, <3>3
    <3>5. g[T \ {Any(T)}] = Part(sec, q, T \ {Any(T)})
      BY <3>4 DEF x
    <3>6. QED
      BY <1>2, <1>8, <3>1, <3>5
  <2>2. QED
    BY <2>1
<1>12. K = Nat
  <2>1. K \in SUBSET Nat
    OBVIOUS
  <2> HIDE DEF K
  <2>2. QED
    BY <1>10, <1>11, <2>1, SetInduction
<1>13. g[S] = Part(sec, q, S)
  BY <1>9, <1>12
<1>14. QED
  BY <1>7, <1>13, PartWhole DEF S

(* What the invariant says of a file is what the properties say. *)
LEMMA HoldsIs ==
  ASSUME NEW sec \in Disks, NEW s, NEW q, Linked(sec, s, q, 0), NEW n, NEW k,
         Stored(sec, q, n, k)
  PROVE  Holds(sec, s, n, k)
<1>1. Ends(sec, s) /\ Chain(sec, s) = Of(q)
  BY LinkedChain
<1>2. Total(sec, Of(q)) = k
  BY SumIs
<1>3. ASSUME NEW t \in Of(q)
      PROVE  /\ \A p \in DOMAIN sec[t].data : sec[t].data[p] = n
             /\ Len(sec[t].data) \in
                  (IF sec[t].next = 0 THEN 0 ELSE MAX_SECTOR_DATA)..MAX_SECTOR_DATA
  <2>1. PICK p \in 1..Len(q) : q[p] = t
    BY DEF Of
  <2>2. sec[t].data \in Seq({n}) /\ Len(sec[t].data) <= MAX_SECTOR_DATA
    BY <2>1 DEF Stored
  <2>3. \A i \in DOMAIN sec[t].data : sec[t].data[i] = n
    BY <2>2
  <2>4. Len(sec[t].data) \in Nat
    BY <2>2
  <2>5. Len(sec[t].data) = MAX_SECTOR_DATA \/ sec[t].next = 0
    <3>1. Len(q) \in Nat
      BY DEF Linked
    <3>2. CASE p = Len(q)
      BY <2>1, <3>1, <3>2 DEF Linked
    <3>3. CASE p # Len(q)
      BY <2>1, <3>1, <3>3 DEF Stored
    <3>4. QED
      BY <3>2, <3>3
  <2>6. QED
    BY <2>2, <2>3, <2>4, <2>5, Sizes
<1>4. QED
  BY <1>1, <1>2, <1>3, Zenon DEF Holds, Total

-----------------------------------------------------------------------------
(* The inductive invariant.                                                *)

Entries     == [name : Names \cup {NoName}, sector : 0..NUM_SECTORS - 1, size : Int]
Directories == [0..Free -> Entries]

Creating == call \in {"create sector", "create directory"}
Writing  == call = "write" \/ Linking
Reading  == call \in {"walk", "read", "end of read"}

Types ==
  /\ directory \in Directories /\ diskDirectory \in Directories
  /\ sector \in Disks /\ \A s \in Sectors : sector[s].next # OUTSIDE
  /\ current_sector \in Blocks
  /\ current_file \in Slots \cup {NULL}
  /\ last_sector_open \in Sectors \cup {-1}
  /\ file_position \in 0..MAX_SECTOR_DATA
  /\ ReaderCount \in {0, 1} /\ WriterCount \in {0, 1}
  /\ saved \in [Names -> Nat]
  /\ damaged \in BOOLEAN
  /\ local \in 0..NUM_SECTORS - 1

(* What may be going on when. *)
Control ==
  /\ call \in {"none", "masked", "format"} \/ Creating \/ Writing \/ Reading
  /\ call = "masked" => damaged
  /\ Creating \/ Linking \/ Reading => ~damaged
  /\ Writing => WriterCount = 1
  /\ WriterCount = 1 /\ ~damaged => Writing
  /\ WriterCount = 1 => /\ current_file \in Slots
                        /\ last_sector_open \in Sectors
  /\ WriterCount = 1 \/ call = "walk" => current_sector.next # OUTSIDE

(* format has written the sectors before local. *)
Formatting ==
  call = "format" =>
    /\ directory = BlankDirectory /\ diskDirectory = BlankDirectory
    /\ local \in Sectors
    /\ \A s \in 1..local - 1 : sector[s] = FreeSector(s)

(* Every sector leads to a later one, or to none. *)
Rising(sec) == \A s \in Sectors : sec[s].next = 0 \/ sec[s].next > s

(* The chains are looked after on a disk that is not damaged nor being formatted. *)
Followed == ~damaged /\ call # "format"

DiskNamed == {i \in Slots : diskDirectory[i].name # NoName}

(* The file that touch is creating, if it found an entry. *)
New == {i \in Named : Creating /\ directory[i].sector = directory[Free].sector}

FreeHead == IF call = "create directory" THEN local ELSE directory[Free].sector
Extended == IF WriterCount = 1 THEN current_file ELSE NULL
Leads    == IF Linking THEN current_sector.next ELSE 0

Ghosts == [0..Free -> Seq(Sectors)]

(* A file with the chain q up to e and k bytes. *)
File(sec, entry, q, e, k) ==
  /\ entry.name # NoName
  /\ Linked(sec, entry.sector, q, e)
  /\ Stored(sec, q, entry.name, k)
  /\ entry.size <= k

(* The files G of the directory dir have the chains c.  The one of w ends in e, *)
(* and lost of its bytes are not written.                                      *)
Files(sec, dir, G, w, e, lost, sav, c) ==
  \A i \in G : IF i = w THEN File(sec, dir[i], c[i], e, sav[dir[i].name] - lost)
                         ELSE File(sec, dir[i], c[i], 0, sav[dir[i].name])

Apart(G, c) == \A i, j \in G \cup {Free} : i # j => Of(c[i]) \cap Of(c[j]) = {}

Once(dir, G) == \A i, j \in G : dir[i].name = dir[j].name => i = j

(* A file has the same entry in RAM and on the disk, but for its size. *)
Mirrors(dir, dsk, G, sav) ==
  \A i \in G : /\ dir[i].name = dsk[i].name
               /\ dir[i].sector = dsk[i].sector
               /\ dsk[i].size <= dir[i].size
               /\ dir[i].size <= sav[dir[i].name]

(* The files are before the free sectors. *)
Behind(G, s, c) == s = 0 \/ \A i \in G : \A t \in Of(c[i]) : t < s

CreatingRight(c) ==
  Creating =>
    /\ WriterCount = 0
    /\ directory[Free].sector # 0
    /\ local = 0 \/ directory[Free].sector < local
    /\ \A i \in New : directory[i].size = 0
    /\ \A i, j \in New : i = j
    /\ call = "create sector" => local = sector[directory[Free].sector].next
    /\ call = "create directory" =>
         /\ sector[directory[Free].sector] = NoBytes
         /\ \A i \in DiskNamed \cup {Free} : directory[Free].sector \notin Of(c[i])

WritingRight(c) ==
  Writing =>
    /\ current_file \in Named
    /\ last_sector_open = c[current_file][Len(c[current_file])]
    /\ current_sector.data \in Seq({Writer})
    /\ Len(sector[last_sector_open].data) <= Len(current_sector.data)
    /\ Len(current_sector.data) <= MAX_SECTOR_DATA
    /\ current_sector.next = Leads
    /\ Linking => /\ current_sector = sector[last_sector_open]
                  /\ Len(current_sector.data) = MAX_SECTOR_DATA
                  /\ current_sector.next # 0
    /\ call = "write directory" => current_sector.next = directory[Free].sector
    /\ call = "write sector" =>
         /\ \A i \in DiskNamed \cup {Free} : current_sector.next \notin Of(c[i])
         /\ directory[Free].sector = 0 \/ current_sector.next < directory[Free].sector
         /\ diskDirectory = directory

WalkingRight(c) ==
  call = "walk" =>
    /\ current_file \in Named
    /\ last_sector_open \in Of(c[current_file])
    /\ current_sector = sector[last_sector_open]

Structure(c) ==
  /\ Files(sector, diskDirectory, DiskNamed, Extended, Leads, Unwritten, saved, c)
  /\ Linked(sector, FreeHead, c[Free], 0)
  /\ Apart(DiskNamed, c)
  /\ Once(diskDirectory, DiskNamed) /\ Once(directory, Named)
  /\ Named \subseteq DiskNamed \cup New
  /\ Mirrors(directory, diskDirectory, Named \ New, saved)
  /\ diskDirectory[Free].sector = directory[Free].sector
  /\ Behind(DiskNamed, directory[Free].sector, c)
  /\ CreatingRight(c) /\ WritingRight(c) /\ WalkingRight(c)

Structured == \E c \in Ghosts : Structure(c)

IInv == /\ Types /\ Control /\ Formatting
        /\ ~damaged => Rising(sector)
        /\ Followed => Structured

-----------------------------------------------------------------------------
LEMMA Ranges == /\ Free \in 0..Free /\ Free \notin Slots
                /\ Slots \subseteq 0..Free /\ NULL \notin Slots
                /\ 0 \notin Sectors /\ OUTSIDE \notin Sectors
                /\ \A s \in 0..NUM_SECTORS - 1 : s # 0 => s \in Sectors
                /\ \A s \in 0..OUTSIDE : s # OUTSIDE => s \in 0..NUM_SECTORS - 1
                /\ Sectors \subseteq 0..NUM_SECTORS - 1 /\ Slots \subseteq Nat
                /\ 1 \in Sectors /\ 0 \in 0..NUM_SECTORS - 1
                /\ 0..NUM_SECTORS - 1 \subseteq 0..OUTSIDE
  BY Sizes DEF Free, Slots, NULL, Sectors, OUTSIDE

LEMMA EntryTypes ==
  ASSUME NEW dir \in Directories, NEW i \in 0..Free
  PROVE  /\ dir[i].name \in Names \cup {NoName}
         /\ dir[i].sector \in 0..NUM_SECTORS - 1
         /\ dir[i].size \in Int
  BY DEF Directories, Entries

LEMMA BlockTypes ==
  ASSUME NEW b \in Blocks
  PROVE  b.next \in 0..OUTSIDE /\ b.data \in Seq(Names) /\ Len(b.data) \in Nat
  BY DEF Blocks

LEMMA GhostSectors ==
  ASSUME NEW c \in Ghosts, NEW i \in 0..Free
  PROVE  Of(c[i]) \subseteq Sectors
<1>1. c[i] \in Seq(Sectors)
  BY DEF Ghosts
<1>2. QED
  BY <1>1 DEF Of

LEMMA EmptyBlock == NoBytes \in Blocks /\ NoBytes.next = 0 /\ NoBytes.data = <<>>
  BY Ranges DEF NoBytes, Blocks

LEMMA FileFrame ==
  ASSUME NEW sec, NEW sec2, NEW ent, NEW q, NEW e, NEW k, File(sec, ent, q, e, k),
         \A t \in Of(q) : sec2[t] = sec[t]
  PROVE  File(sec2, ent, q, e, k)
<1>1. Linked(sec, ent.sector, q, e) /\ Stored(sec, q, ent.name, k)
  BY DEF File
<1>2. Len(q) \in Nat
  BY <1>1, LinkedIn
<1>3. Linked(sec2, ent.sector, q, e)
  BY <1>1, LinkedFrame
<1>4. Stored(sec2, q, ent.name, k)
  BY <1>1, <1>2, StoredFrame
<1>5. QED
  BY <1>3, <1>4 DEF File

(* A file begins with the sector of its entry. *)
LEMMA FileFirst ==
  ASSUME NEW sec, NEW ent, NEW q, NEW e, NEW k, File(sec, ent, q, e, k)
  PROVE  /\ ent.sector \in Of(q) /\ ent.sector \in Sectors
         /\ Of(q) \subseteq Sectors
         /\ Len(q) \in Nat /\ Len(q) > 0
         /\ k \in Nat
<1>1. Linked(sec, ent.sector, q, e) /\ Stored(sec, q, ent.name, k)
  BY DEF File
<1>2. Len(q) \in Nat /\ Of(q) \subseteq Sectors
  BY <1>1, LinkedIn
<1>3. Len(q) > 0
  BY <1>1 DEF Stored
<1>4. q[1] = ent.sector
  BY <1>1, <1>3 DEF Linked
<1>5. ent.sector \in Of(q)
  BY <1>2, <1>3, <1>4 DEF Of
<1>6. k \in Nat
  <2>1. sec[q[Len(q)]].data \in Seq({ent.name})
    BY <1>1, <1>2, <1>3 DEF Stored
  <2>2. Len(sec[q[Len(q)]].data) \in Nat
    BY <2>1
  <2>3. Len(q) - 1 \in Nat
    BY <1>2, <1>3
  <2>4. Filled(Len(q) - 1) \in Nat
    BY <2>3, FilledStep
  <2>5. k = Filled(Len(q) - 1) + Len(sec[q[Len(q)]].data)
    BY <1>1 DEF Stored
  <2>6. QED
    BY <2>2, <2>4, <2>5
<1>7. QED
  BY <1>2, <1>3, <1>5, <1>6

(* Another entry for the same chain. *)
LEMMA FileAgain ==
  ASSUME NEW sec, NEW ent, NEW ent2, NEW q, NEW e, NEW k, File(sec, ent, q, e, k),
         ent2.name = ent.name, ent2.sector = ent.sector, ent2.size <= k
  PROVE  File(sec, ent2, q, e, k)
  BY DEF File

(* In a file, the sector that leads to 0 is the last one, and any other leads to *)
(* one of the file.                                                             *)
LEMMA LinkedNext ==
  ASSUME NEW sec, NEW s, NEW q, Linked(sec, s, q, 0), NEW t \in Of(q)
  PROVE  IF sec[t].next = 0 THEN t = q[Len(q)] ELSE sec[t].next \in Of(q)
<1>1. Len(q) \in Nat /\ q \in Seq(Sectors)
  BY DEF Linked
<1>2. PICK k \in 1..Len(q) : q[k] = t
  BY DEF Of
<1>3. CASE k = Len(q)
  BY <1>1, <1>2, <1>3 DEF Linked
<1>4. CASE k # Len(q)
  <2>1. k \in 1..Len(q) - 1 /\ k + 1 \in 1..Len(q)
    BY <1>1, <1>4
  <2>2. sec[t].next = q[k + 1] /\ q[k + 1] \in Of(q) /\ q[k + 1] # 0
    BY <1>1, <1>2, <2>1, Ranges DEF Linked, Of
  <2>3. QED
    BY <2>2
<1>5. QED
  BY <1>3, <1>4

LEMMA LinkedOne ==
  ASSUME NEW sec, NEW f \in Sectors, sec[f] = NoBytes, NEW n
  PROVE  /\ <<f>> \in Seq(Sectors)
         /\ Linked(sec, f, <<f>>, 0)
         /\ Stored(sec, <<f>>, n, 0)
         /\ Of(<<f>>) = {f}
<1> DEFINE q == <<f>>
<1>1. q \in Seq(Sectors) /\ Len(q) = 1 /\ q[1] = f
  OBVIOUS
<1> HIDE DEF q
<1>2. sec[f].next = 0 /\ sec[f].data = <<>> /\ Len(sec[f].data) = 0
  BY EmptyBlock
<1>3. Linked(sec, f, q, 0)
  BY <1>1, <1>2 DEF Linked
<1>4. <<>> \in Seq({n})
  OBVIOUS
<1>5. Stored(sec, q, n, 0)
  <2>1. Len(q) - 1 = 0 /\ Filled(0) = 0 /\ 0 <= MAX_SECTOR_DATA /\ 0 = 0 + 0
    BY <1>1, FilledStep, Sizes
  <2>2. 0 = Filled(Len(q) - 1) + Len(sec[q[Len(q)]].data)
    BY <1>1, <1>2, <2>1
  <2>3. \A p \in 1..Len(q) : q[p] = f
    BY <1>1
  <2>4. \A p \in 1..Len(q) :
          sec[q[p]].data \in Seq({n}) /\ Len(sec[q[p]].data) <= MAX_SECTOR_DATA
    BY <1>2, <1>4, <2>1, <2>3
  <2>5. ~(\E p \in 1..Len(q) - 1 : TRUE) /\ Len(q) > 0
    BY <1>1
  <2>6. QED
    BY ONLY <2>2, <2>4, <2>5 DEF Stored
<1>6. Of(q) = {f}
  BY <1>1 DEF Of
<1>7. QED
  BY <1>1, <1>3, <1>5, <1>6 DEF q

-----------------------------------------------------------------------------
(* What the invariant says while nothing is being written.                 *)
LEMMA Quiet ==
  ASSUME Types, NEW c \in Ghosts, Structure(c), WriterCount = 0
  PROVE  /\ Unwritten = 0
         /\ \A i \in DiskNamed : /\ File(sector, diskDirectory[i], c[i], 0,
                                         saved[diskDirectory[i].name])
                                 /\ i \in Slots /\ i \in 0..Free
                                 /\ diskDirectory[i].name \in Names
<1>1. Extended = NULL /\ Unwritten = 0
  BY DEF Extended, Unwritten
<1>2. DiskNamed \subseteq Slots
  BY DEF DiskNamed
<1>3. ASSUME NEW i \in DiskNamed
      PROVE  /\ File(sector, diskDirectory[i], c[i], 0, saved[diskDirectory[i].name])
             /\ i \in Slots /\ i \in 0..Free
             /\ diskDirectory[i].name \in Names
  <2>1. i # NULL /\ i \in Slots /\ i \in 0..Free
    BY <1>2, Ranges
  <2>2. File(sector, diskDirectory[i], c[i], 0, saved[diskDirectory[i].name])
    BY <1>1, <2>1 DEF Structure, Files
  <2>3. diskDirectory[i].name \in Names
    BY <2>1, <2>2, EntryTypes DEF File, Types
  <2>4. QED
    BY <2>1, <2>2, <2>3
<1>4. QED
  BY <1>1, <1>3

LEMMA QuietFiles ==
  ASSUME NEW sec, NEW dir, NEW G, NEW e, NEW lost, NEW sav, NEW c, G \subseteq Slots,
         \A i \in G : File(sec, dir[i], c[i], 0, sav[dir[i].name])
  PROVE  Files(sec, dir, G, NULL, e, lost, sav, c)
<1>1. \A i \in G : i # NULL
  BY Ranges
<1>2. QED
  BY <1>1 DEF Files

(* What it says while the file current_file is being written. *)
LEMMA Busy ==
  ASSUME Types, Control, NEW c \in Ghosts, Structure(c), Writing
  PROVE  /\ ~Creating /\ New = {} /\ DiskNamed \subseteq Slots
         /\ WriterCount = 1 /\ Extended = current_file
         /\ Unwritten = Len(current_sector.data) - Len(sector[last_sector_open].data)
         /\ current_file \in Slots /\ current_file \in Named /\ current_file \in DiskNamed
         /\ current_file \in 0..Free
         /\ Writer \in Names /\ diskDirectory[current_file].name = Writer
         /\ last_sector_open \in Sectors
         /\ last_sector_open = c[current_file][Len(c[current_file])]
         /\ last_sector_open \in Of(c[current_file])
         /\ saved[Writer] \in Nat
         /\ File(sector, diskDirectory[current_file], c[current_file], Leads,
                 saved[Writer] - Unwritten)
<1>1. ~Creating
  BY DEF Writing, Creating, Linking
<1>2. New = {} /\ DiskNamed \subseteq Slots
  BY <1>1 DEF New, DiskNamed
<1>3. WriterCount = 1 /\ Extended = current_file
  BY DEF Control, Extended
<1>4. /\ current_file \in Named /\ last_sector_open = c[current_file][Len(c[current_file])]
  BY DEF Structure, WritingRight
<1>5. current_file \in Slots /\ current_file \in DiskNamed /\ current_file \in 0..Free
  BY <1>2, <1>4, Ranges DEF Structure, Named
<1>6. Unwritten = Len(current_sector.data) - Len(sector[last_sector_open].data)
  BY <1>3 DEF Unwritten
<1>7. Writer \in Names /\ diskDirectory[current_file].name = Writer
  <2>1. directory[current_file].name # NoName
    BY <1>4 DEF Named
  <2>2. directory[current_file].name \in Names
    BY <1>5, <2>1, EntryTypes DEF Types
  <2>3. directory[current_file].name = diskDirectory[current_file].name
    BY <1>2, <1>4 DEF Structure, Mirrors
  <2>4. QED
    BY <2>2, <2>3 DEF Writer
<1>8. File(sector, diskDirectory[current_file], c[current_file], Leads,
           saved[Writer] - Unwritten)
  BY <1>3, <1>5, <1>7 DEF Structure, Files
<1>9. last_sector_open \in Sectors
  BY <1>3 DEF Control
<1>10. last_sector_open \in Of(c[current_file])
  <2>1. Len(c[current_file]) \in Nat /\ Len(c[current_file]) > 0
    BY <1>8, FileFirst
  <2>2. QED
    BY <1>4, <2>1 DEF Of
<1>11. saved[Writer] \in Nat
  BY <1>7 DEF Types
<1>12. QED
  BY <1>1, <1>2, <1>3, <1>4, <1>5, <1>6, <1>7, <1>8, <1>9, <1>10, <1>11

(* The other files meanwhile. *)
LEMMA Others ==
  ASSUME Types, Control, NEW c \in Ghosts, Structure(c), Writing,
         NEW i \in DiskNamed, i # current_file
  PROVE  /\ File(sector, diskDirectory[i], c[i], 0, saved[diskDirectory[i].name])
         /\ i \in Slots /\ i \in 0..Free
         /\ diskDirectory[i].name \in Names
         /\ diskDirectory[i].name # Writer
         /\ last_sector_open \notin Of(c[i])
<1>1. /\ Extended = current_file /\ current_file \in DiskNamed /\ DiskNamed \subseteq Slots
      /\ diskDirectory[current_file].name = Writer
      /\ last_sector_open \in Of(c[current_file])
  BY Busy
<1>2. File(sector, diskDirectory[i], c[i], 0, saved[diskDirectory[i].name])
  BY <1>1 DEF Structure, Files
<1>3. i \in Slots /\ i \in 0..Free
  BY <1>1, Ranges
<1>4. diskDirectory[i].name \in Names
  BY <1>2, <1>3, EntryTypes DEF File, Types
<1>5. diskDirectory[i].name # Writer
  BY <1>1 DEF Structure, Once
<1>6. last_sector_open \notin Of(c[i])
  <2>1. Of(c[i]) \cap Of(c[current_file]) = {}
    BY <1>1 DEF Structure, Apart
  <2>2. QED
    BY <1>1, <2>1
<1>7. QED
  BY <1>2, <1>3, <1>4, <1>5, <1>6

LEMMA BusyFiles ==
  ASSUME NEW sec, NEW dir, NEW G, NEW w \in G, NEW e, NEW lost, NEW sav, NEW c,
         File(sec, dir[w], c[w], e, sav[dir[w].name] - lost),
         \A i \in G : i # w => File(sec, dir[i], c[i], 0, sav[dir[i].name])
  PROVE  Files(sec, dir, G, w, e, lost, sav, c)
  BY DEF Files

(* The free chain meanwhile, and the sector it begins with. *)
LEMMA FreeApart ==
  ASSUME NEW c \in Ghosts, Structure(c), NEW i \in DiskNamed
  PROVE  Of(c[i]) \cap Of(c[Free]) = {}
<1>1. i # Free
  BY Ranges DEF DiskNamed
<1>2. QED
  BY <1>1 DEF Structure, Apart

LEMMA FreeSector1 ==
  ASSUME NEW c \in Ghosts, Structure(c), FreeHead # 0
  PROVE  /\ FreeHead \in Of(c[Free])
         /\ FreeHead \in Sectors
         /\ \A i \in DiskNamed : FreeHead \notin Of(c[i])
         /\ Linked(sector, sector[FreeHead].next, Tail(c[Free]), 0)
         /\ FreeHead \notin Of(Tail(c[Free]))
         /\ Of(Tail(c[Free])) \subseteq Of(c[Free])
         /\ Tail(c[Free]) \in Seq(Sectors)
<1>1. Linked(sector, FreeHead, c[Free], 0)
  BY DEF Structure
<1>2. /\ FreeHead \in Of(c[Free])
      /\ Linked(sector, sector[FreeHead].next, Tail(c[Free]), 0)
      /\ FreeHead \notin Of(Tail(c[Free]))
      /\ Of(Tail(c[Free])) \subseteq Of(c[Free])
  BY <1>1, LinkedTail
<1>3. Of(c[Free]) \subseteq Sectors /\ Tail(c[Free]) \in Seq(Sectors)
  BY <1>1, <1>2, LinkedIn
<1>4. QED
  BY <1>2, <1>3, FreeApart

(* What the actions need of it to stay within the types. *)
LEMMA OpenSectors ==
  ASSUME IInv, ~damaged, call = "none", NEW n \in Names, NEW i \in Slot(n)
  PROVE  /\ i \in Slots /\ i \in Named /\ directory[i].name = n
         /\ directory[i].sector \in Sectors
         /\ WriterCount = 0
<1>1. i \in Slots /\ i \in Named /\ directory[i].name = n
  BY Sizes DEF Slot, Named
<1>2. WriterCount = 0 /\ ~Creating
  BY DEF IInv, Control, Types, Writing, Linking, Creating
<1>3. PICK c \in Ghosts : Structure(c)
  BY DEF IInv, Followed, Structured
<1>4. i \in DiskNamed /\ i \in Named \ New
  BY <1>1, <1>2, <1>3 DEF Structure, New
<1>5. directory[i].sector = diskDirectory[i].sector
  BY <1>3, <1>4 DEF Structure, Mirrors
<1>6. File(sector, diskDirectory[i], c[i], 0, saved[diskDirectory[i].name])
  BY <1>2, <1>3, <1>4, Quiet DEF IInv
<1>7. diskDirectory[i].sector \in Sectors
  BY <1>6, FileFirst
<1>8. QED
  BY <1>1, <1>2, <1>5, <1>7

LEMMA FreeHeads ==
  ASSUME IInv, Creating \/ Linking
  PROVE  /\ Creating \/ call = "write directory" => directory[Free].sector \in Sectors
         /\ Linking => current_sector.next \in Sectors
<1>1. ~damaged /\ call # "format"
  BY DEF IInv, Control, Creating, Linking
<1>2. PICK c \in Ghosts : Structure(c)
  BY <1>1 DEF IInv, Followed, Structured
<1>3. ASSUME Linking PROVE current_sector.next \in Sectors
  <2>1. current_sector.next # 0
    BY <1>2, <1>3 DEF Structure, WritingRight, Writing
  <2>2. WriterCount = 1 /\ current_sector.next # OUTSIDE
    BY <1>3 DEF IInv, Control, Writing
  <2>3. current_sector.next \in 0..OUTSIDE
    BY BlockTypes DEF IInv, Types
  <2>4. QED
    BY <2>1, <2>2, <2>3, Ranges
<1>4. ASSUME call = "write directory" PROVE directory[Free].sector \in Sectors
  BY <1>2, <1>3, <1>4 DEF Structure, WritingRight, Writing, Linking
<1>5. ASSUME Creating PROVE directory[Free].sector \in Sectors
  <2>1. directory[Free].sector # 0
    BY <1>2, <1>5 DEF Structure, CreatingRight
  <2>2. directory[Free].sector \in 0..NUM_SECTORS - 1
    BY Ranges, EntryTypes DEF IInv, Types
  <2>3. QED
    BY <2>1, <2>2, Ranges
<1>6. QED
  BY <1>3, <1>4, <1>5

LEMMA WriterNamed ==
  ASSUME IInv, Writing, ~damaged
  PROVE  /\ Writer \in Names /\ current_file \in Slots
         /\ WriterCount = 1
         /\ Unwritten \in Nat
         /\ saved[Writer] - Unwritten \in Nat
<1>1. call # "format"
  BY DEF Writing, Linking
<1>2. PICK c \in Ghosts : Structure(c)
  BY <1>1 DEF IInv, Followed, Structured
<1>3. /\ Writer \in Names /\ current_file \in Slots /\ WriterCount = 1
      /\ File(sector, diskDirectory[current_file], c[current_file], Leads,
              saved[Writer] - Unwritten)
      /\ Unwritten = Len(current_sector.data) - Len(sector[last_sector_open].data)
      /\ last_sector_open \in Sectors
  BY <1>2, Busy DEF IInv
<1>4. saved[Writer] - Unwritten \in Nat
  BY <1>3, FileFirst
<1>5. Len(sector[last_sector_open].data) <= Len(current_sector.data)
  BY <1>2 DEF Structure, WritingRight
<1>6. current_sector \in Blocks /\ sector[last_sector_open] \in Blocks
  BY <1>3 DEF IInv, Types, Disks
<1>7. Unwritten \in Nat
  BY <1>3, <1>5, <1>6, BlockTypes
<1>8. QED
  BY <1>3, <1>4, <1>7

-----------------------------------------------------------------------------
(* What the assignments of the actions do to the types.                    *)

LEMMA PutEntry ==
  ASSUME NEW dir \in Directories, NEW i \in 0..Free, NEW entry \in Entries
  PROVE  /\ [dir EXCEPT ![i] = entry] \in Directories
         /\ [dir EXCEPT ![i] = entry][i] = entry
         /\ \A j \in 0..Free : j # i => [dir EXCEPT ![i] = entry][j] = dir[j]
  BY DEF Directories

LEMMA OneByteSaved ==
  ASSUME NEW sav \in [Names -> Nat], NEW n \in Names
  PROVE  /\ [sav EXCEPT ![n] = @ + 1] \in [Names -> Nat]
         /\ [sav EXCEPT ![n] = @ + 1][n] = sav[n] + 1
         /\ \A m \in Names : m # n => [sav EXCEPT ![n] = @ + 1][m] = sav[m]
  OBVIOUS

LEMMA Resized ==
  ASSUME NEW old \in Entries, NEW s \in 0..NUM_SECTORS - 1, NEW k \in Int
  PROVE  /\ [old EXCEPT !.sector = s, !.size = k] \in Entries
         /\ [old EXCEPT !.sector = s, !.size = k].sector = s
<1> DEFINE new == [old EXCEPT !.sector = s]
<1>1. new \in Entries /\ new.sector = s
  BY DEF Entries
<1>2. [old EXCEPT !.sector = s, !.size = k] = [new EXCEPT !.size = k]
  OBVIOUS
<1> HIDE DEF new
<1>3. [new EXCEPT !.size = k] \in Entries /\ [new EXCEPT !.size = k].sector = new.sector
  BY <1>1 DEF Entries
<1>4. QED
  BY <1>1, <1>2, <1>3

LEMMA FreeFromIs ==
  ASSUME directory \in Directories, NEW s \in 0..NUM_SECTORS - 1
  PROVE  /\ FreeFrom(s) \in Directories
         /\ FreeFrom(s)[Free].sector = s
         /\ \A i \in Slots : FreeFrom(s)[i] = directory[i]
<1> DEFINE old   == directory[Free]
           entry == [old EXCEPT !.sector = s, !.size = old.size - 1]
<1>1. old \in Entries /\ old.size - 1 \in Int
  BY Ranges DEF Directories, Entries
<1>2. entry \in Entries /\ entry.sector = s
  BY <1>1, Resized
<1>3. FreeFrom(s) = [directory EXCEPT ![Free] = entry]
  BY Ranges DEF FreeFrom, Directories
<1> HIDE DEF entry
<1>4. /\ [directory EXCEPT ![Free] = entry] \in Directories
      /\ [directory EXCEPT ![Free] = entry][Free] = entry
      /\ \A j \in 0..Free : j # Free => [directory EXCEPT ![Free] = entry][j] = directory[j]
  BY <1>2, Ranges, PutEntry
<1>5. QED
  BY <1>2, <1>3, <1>4, Ranges

LEMMA OneByteMoreIs ==
  ASSUME NEW dir \in Directories, current_file \in Slots
  PROVE  /\ OneByteMore(dir) \in Directories
         /\ OneByteMore(dir)[current_file].name = dir[current_file].name
         /\ OneByteMore(dir)[current_file].sector = dir[current_file].sector
         /\ OneByteMore(dir)[current_file].size = dir[current_file].size + 1
         /\ \A i \in 0..Free : i # current_file => OneByteMore(dir)[i] = dir[i]
<1> DEFINE entry == [dir[current_file] EXCEPT !.size = @ + 1]
<1>1. current_file \in 0..Free
  BY Ranges
<1>2. dir[current_file] \in Entries
  BY <1>1 DEF Directories
<1>3. /\ entry \in Entries /\ entry.name = dir[current_file].name
      /\ entry.sector = dir[current_file].sector /\ entry.size = dir[current_file].size + 1
  BY <1>2 DEF Entries
<1>4. OneByteMore(dir) = [dir EXCEPT ![current_file] = entry]
  BY <1>1 DEF OneByteMore, Directories
<1> HIDE DEF entry
<1> DEFINE put == [dir EXCEPT ![current_file] = entry]
<1>5. put \in Directories /\ put[current_file] = entry
  BY <1>1, <1>3, PutEntry
<1>6. \A j \in 0..Free : j # current_file => put[j] = dir[j]
  BY <1>1, <1>3, PutEntry
<1> HIDE DEF put
<1>7. OneByteMore(dir) = put
  BY <1>4 DEF put
<1>8. QED
  BY <1>3, <1>5, <1>6, <1>7

LEMMA BlankIs ==
  /\ BlankDirectory \in Directories
  /\ BlankDirectory[Free].sector = 1
  /\ \A i \in Slots : BlankDirectory[i] = NoEntry
  /\ NoEntry \in Entries /\ NoEntry.name = NoName /\ NoEntry.sector = 0
<1>1. NoEntry \in Entries /\ NoEntry.name = NoName /\ NoEntry.sector = 0
  BY Ranges DEF NoEntry, Entries
<1> DEFINE entry == [NoEntry EXCEPT !.sector = 1, !.size = NUM_SECTORS - 1]
<1>2. entry \in Entries /\ entry.sector = 1
  <2>1. 1 \in 0..NUM_SECTORS - 1 /\ NUM_SECTORS - 1 \in Int
    BY Sizes
  <2>2. QED
    BY <1>1, <2>1, Resized
<1>3. BlankDirectory = [i \in 0..Free |-> IF i = Free THEN entry ELSE NoEntry]
  BY Zenon DEF BlankDirectory
<1> HIDE DEF entry
<1>4. QED
  BY <1>1, <1>2, <1>3, Ranges DEF Directories

LEMMA FreeSectorIs ==
  ASSUME NEW s \in Sectors
  PROVE  /\ FreeSector(s) \in Blocks
         /\ FreeSector(s).next # OUTSIDE
         /\ FreeSector(s).next = IF s = NUM_SECTORS - 1 THEN 0 ELSE s + 1
<1>1. (s + 1) % NUM_SECTORS = IF s = NUM_SECTORS - 1 THEN 0 ELSE s + 1
  BY Sizes DEF Sectors
<1> DEFINE m == (s + 1) % NUM_SECTORS
<1>2. m \in 0..NUM_SECTORS - 1
  BY <1>1, Sizes DEF Sectors
<1>3. FreeSector(s) = [next |-> m, data |-> <<>>]
  BY DEF FreeSector, NoBytes
<1> HIDE DEF m
<1>4. m \in 0..OUTSIDE /\ m # OUTSIDE
  BY <1>2, Sizes DEF OUTSIDE
<1>5. FreeSector(s) \in Blocks /\ FreeSector(s).next = m
  BY <1>3, <1>4 DEF Blocks
<1>6. QED
  BY <1>1, <1>4, <1>5 DEF m

LEMMA ByteAppended ==
  ASSUME NEW b \in Blocks, NEW n \in Names
  PROVE  /\ [b EXCEPT !.data = Append(@, n)] \in Blocks
         /\ [b EXCEPT !.data = Append(@, n)].next = b.next
         /\ [b EXCEPT !.data = Append(@, n)].data = Append(b.data, n)
         /\ Len([b EXCEPT !.data = Append(@, n)].data) = Len(b.data) + 1
         /\ b.data \in Seq({n}) => Append(b.data, n) \in Seq({n})
<1> DEFINE d == Append(b.data, n)
<1>1. b.data \in Seq(Names) /\ Len(b.data) \in Nat /\ b.next \in 0..OUTSIDE
  BY BlockTypes
<1>2. d \in Seq(Names) /\ Len(d) = Len(b.data) + 1
  BY <1>1
<1>3. b.data \in Seq({n}) => d \in Seq({n})
  OBVIOUS
<1> HIDE DEF d
<1>4. [b EXCEPT !.data = d] \in Blocks
  BY <1>1, <1>2 DEF Blocks
<1>5. [b EXCEPT !.data = d].data = d /\ [b EXCEPT !.data = d].next = b.next
  BY DEF Blocks
<1>6. [b EXCEPT !.data = Append(@, n)] = [b EXCEPT !.data = d]
  BY DEF d
<1>7. QED
  BY <1>2, <1>3, <1>4, <1>5, <1>6 DEF d

LEMMA FirstByte ==
  ASSUME NEW n \in Names
  PROVE  /\ [next |-> 0, data |-> <<n>>] \in Blocks
         /\ <<n>> \in Seq({n}) /\ Len(<<n>>) = 1
<1>1. <<n>> \in Seq(Names) /\ <<n>> \in Seq({n}) /\ Len(<<n>>) = 1
  OBVIOUS
<1>2. 0 \in 0..OUTSIDE
  BY Ranges
<1>3. QED
  BY <1>1, <1>2 DEF Blocks

LEMMA NextSet ==
  ASSUME NEW b \in Blocks, NEW s \in 0..OUTSIDE
  PROVE  /\ [b EXCEPT !.next = s] \in Blocks
         /\ [b EXCEPT !.next = s].next = s
         /\ [b EXCEPT !.next = s].data = b.data
  BY DEF Blocks

(* touch takes an unused entry or that of the free chain. *)
LEMMA FreeSlotIs ==
  ASSUME Types
  PROVE  FreeSlot \in {i \in Slots : directory[i].name = NoName} \cup {Free}
<1> DEFINE unused == {i \in Slots : directory[i].name = NoName /\ directory[i].sector = 0}
<1>1. CASE unused = {}
  BY <1>1 DEF FreeSlot
<1>2. CASE unused # {}
  <2>1. unused \in SUBSET Nat
    BY Ranges
  <2>2. PICK x \in unused : \A y \in unused : x <= y
    BY <1>2, <2>1, Least
  <2>3. FreeSlot = Min(unused)
    BY <1>2 DEF FreeSlot
  <2> HIDE DEF unused
  <2>4. Min(unused) \in unused
    BY <2>2 DEF Min
  <2>5. QED
    BY <2>3, <2>4 DEF unused
<1>3. QED
  BY <1>1, <1>2

LEMMA NewEntryIs ==
  ASSUME Types, NEW n \in Names
  PROVE  /\ NewEntry(n) \in Entries
         /\ NewEntry(n).name = n
         /\ NewEntry(n).sector = directory[Free].sector
         /\ NewEntry(n).size = 0
<1>1. directory[Free].sector \in 0..NUM_SECTORS - 1
  BY Ranges, EntryTypes DEF Types
<1>2. QED
  BY <1>1 DEF NewEntry, Entries

-----------------------------------------------------------------------------
(* Every step keeps the types and leaves a call where it may be.           *)

Weak == Types /\ Control /\ Formatting

LEMMA CutShortWeak ==
  ASSUME Types, Control, NEW back \in {"none", "masked", "write"}, CutShort(back),
         WriterCount' = WriterCount, current_file' = current_file,
         WriterCount = 1 => back # "none" \/ ~Writing \/ call = "write",
         back = "write" => WriterCount = 1,
         last_sector_open' = last_sector_open \/ last_sector_open' \in Sectors,
         current_sector' = current_sector \/ current_sector'.next # OUTSIDE
  PROVE  Control' /\ Formatting'
<1>1. call' = back /\ damaged' = TRUE
  BY DEF CutShort
<1>2. Control'
  BY <1>1 DEF Control, Creating, Linking, Writing, Reading
<1>3. Formatting'
  BY <1>1 DEF Formatting
<1>4. QED
  BY <1>2, <1>3

LEMMA FormatDirectoryWeak ==
  ASSUME IInv, FormatDirectory
  PROVE  Weak'
<1> USE DEF IInv
<1>1. Nothing \in [Names -> Nat]
  BY DEF Nothing
<1>2. /\ directory' = BlankDirectory /\ saved' = Nothing
      /\ UNCHANGED <<open, file_position>> /\ call = "none"
  BY DEF FormatDirectory
<1>3. CASE /\ diskDirectory' = BlankDirectory /\ call' = "format" /\ local' = 1
           /\ UNCHANGED <<sector, damaged>>
  <2>1. Types'
    BY <1>1, <1>2, <1>3, BlankIs, Ranges DEF Types, open
  <2>2. Control'
    BY <1>2, <1>3 DEF Control, Creating, Linking, Writing, Reading, open
  <2>3. Formatting'
    BY <1>2, <1>3, Ranges DEF Formatting
  <2>4. QED
    BY <2>1, <2>2, <2>3 DEF Weak
<1>4. CASE CutShort("masked")
  <2>1. Types'
    BY <1>1, <1>2, <1>4, BlankIs DEF Types, open, CutShort, disk
  <2>2. Control' /\ Formatting'
    BY <1>2, <1>4, CutShortWeak DEF open, Writing, Linking
  <2>3. QED
    BY <2>1, <2>2 DEF Weak
<1>5. QED
  BY <1>3, <1>4 DEF FormatDirectory

LEMMA FormatSectorWeak ==
  ASSUME IInv, FormatSector
  PROVE  Weak'
<1> USE DEF IInv
<1>1. /\ call = "format" /\ UNCHANGED <<directory, open, file_position, saved>>
      /\ directory = BlankDirectory /\ diskDirectory = BlankDirectory
      /\ local \in Sectors /\ \A s \in 1..local - 1 : sector[s] = FreeSector(s)
  BY DEF FormatSector, Formatting
<1>2. ASSUME sector' = [sector EXCEPT ![local] = FreeSector(local)], UNCHANGED diskDirectory,
             IF local = NUM_SECTORS - 1
             THEN call' = "none" /\ local' = 0 /\ damaged' = (WriterCount = 1)
             ELSE local' = local + 1 /\ UNCHANGED <<call, damaged>>
      PROVE  Weak'
  <2>1. /\ sector' \in Disks /\ sector'[local] = FreeSector(local)
        /\ \A s \in Sectors : s # local => sector'[s] = sector[s]
        /\ \A s \in Sectors : sector'[s].next # OUTSIDE
    <3> DEFINE b == FreeSector(local)
    <3>1. b \in Blocks /\ b.next # OUTSIDE
      BY <1>1, FreeSectorIs
    <3>2. sector' = [sector EXCEPT ![local] = b]
      BY <1>2
    <3> HIDE DEF b
    <3>3. /\ sector' \in Disks
          /\ sector'[local] = b
          /\ \A s \in Sectors : s # local => sector'[s] = sector[s]
          /\ \A s \in Sectors : sector'[s].next # OUTSIDE
      BY <1>1, <3>1, <3>2 DEF Types, Disks
    <3>4. QED
      BY <3>3 DEF b
  <2>2. local' \in 0..NUM_SECTORS - 1 /\ damaged' \in BOOLEAN
    <3>1. CASE local = NUM_SECTORS - 1
      BY <1>2, <3>1, Ranges
    <3>2. CASE local # NUM_SECTORS - 1
      BY <1>1, <1>2, <3>2, Sizes DEF Sectors, Types
    <3>3. QED
      BY <3>1, <3>2
  <2>3. Types'
    BY <1>1, <1>2, <2>1, <2>2 DEF Types, open
  <2>4. Control'
    BY <1>1, <1>2 DEF Control, Creating, Linking, Writing, Reading, open, Types
  <2>5. ASSUME call' = "format" PROVE Formatting'
    <3>1. local' = local + 1 /\ local # NUM_SECTORS - 1
      BY <1>2, <2>5
    <3>2. local' \in Sectors
      BY <1>1, <3>1, Sizes DEF Sectors
    <3>3. ASSUME NEW s \in 1..local' - 1 PROVE sector'[s] = FreeSector(s)
      <4>1. s \in Sectors /\ (s = local \/ s \in 1..local - 1)
        BY <1>1, <3>1, Sizes DEF Sectors
      <4>2. CASE s = local
        BY <2>1, <4>2
      <4>3. CASE s # local
        BY <1>1, <2>1, <4>1, <4>3
      <4>4. QED
        BY <4>2, <4>3
    <3>4. QED
      BY <1>1, <1>2, <3>2, <3>3 DEF Formatting
  <2>6. QED
    BY <2>3, <2>4, <2>5 DEF Weak, Formatting
<1>3. ASSUME CutShort("masked") PROVE Weak'
  <2>1. Types'
    BY <1>1, <1>3 DEF Types, open, CutShort, disk
  <2>2. Control' /\ Formatting'
    BY <1>1, <1>3, CutShortWeak DEF open, Writing, Linking
  <2>3. QED
    BY <2>1, <2>2 DEF Weak
<1>4. QED
  BY <1>2, <1>3, Zenon DEF FormatSector

LEMMA MountWeak ==
  ASSUME IInv, eFile_Mount
  PROVE  Weak'
  BY DEF IInv, Weak, eFile_Mount, Prompt, disk, open, Types, Control, Formatting, Creating,
         Linking, Writing, Reading

LEMMA DeleteWeak ==
  ASSUME IInv, NEW n \in Names, eFile_Delete(n)
  PROVE  Weak'
<1>1. PICK i \in Slot(n) : directory' = [directory EXCEPT ![i] = NoEntry]
  BY DEF eFile_Delete
<1>2. i \in 0..Free
  BY Ranges DEF Slot
<1>3. directory' \in Directories
  BY <1>1, <1>2, BlankIs, PutEntry DEF IInv, Types
<1>4. QED
  BY <1>3 DEF IInv, Weak, eFile_Delete, Prompt, disk, open, Types, Control, Formatting,
              Creating, Linking, Writing, Reading

LEMMA UnmountWeak ==
  ASSUME IInv, eFile_Unmount
  PROVE  Weak'
<1> USE DEF IInv
<1>1. /\ Prompt /\ WriterCount = 0 /\ UNCHANGED <<directory, open, file_position, saved>>
  BY DEF eFile_Unmount
<1>2. CASE diskDirectory' = directory /\ UNCHANGED <<sector, call, local, damaged>>
  BY <1>1, <1>2 DEF Weak, Prompt, open, Types, Control, Formatting, Creating, Linking,
                    Writing, Reading
<1>3. CASE CutShort("none")
  <2>1. Types'
    BY <1>1, <1>3 DEF Types, open, CutShort, disk
  <2>2. Control' /\ Formatting'
    BY <1>1, <1>3, CutShortWeak DEF open
  <2>3. QED
    BY <2>1, <2>2 DEF Weak
<1>4. QED
  BY <1>2, <1>3 DEF eFile_Unmount

LEMMA PowerLossWeak ==
  ASSUME IInv, PowerLoss
  PROVE  Weak'
<1> USE DEF IInv
<1>1. /\ directory' = diskDirectory /\ NothingOpen /\ ReaderCount' = 0 /\ WriterCount' = 0
      /\ file_position' = 0 /\ call' = "none" /\ local' = 0 /\ UNCHANGED disk
      /\ damaged' = (damaged \/ Linking)
      /\ saved' = IF damaged' THEN Nothing
                  ELSE [n \in Names |-> IF WriterCount = 1 /\ Writer = n
                                        THEN saved[n] - Unwritten ELSE saved[n]]
  BY DEF PowerLoss
<1>2. saved' \in [Names -> Nat]
  <2>1. CASE damaged'
    BY <1>1, <2>1 DEF Nothing
  <2>2. CASE ~damaged'
    <3>1. ~damaged
      BY <1>1, <2>2
    <3>2. WriterCount = 1 => saved[Writer] - Unwritten \in Nat
      BY <3>1, WriterNamed DEF Control
    <3>3. \A n \in Names : saved[n] \in Nat
      BY DEF Types
    <3>4. QED
      BY <1>1, <2>2, <3>2, <3>3
  <2>3. QED
    BY <2>1, <2>2
<1>3. Types'
  <2>1. damaged' \in BOOLEAN
    BY <1>1
  <2>2. NULL \in Slots \cup {NULL} /\ 0 \in 0..MAX_SECTOR_DATA
    BY Sizes
  <2>3. QED
    BY <1>1, <1>2, <2>1, <2>2, EmptyBlock, Ranges DEF Types, NothingOpen, disk
<1>4. Control'
  <2>1. call' = "none" /\ WriterCount' = 0
    BY <1>1
  <2>2. QED
    BY ONLY <2>1 DEF Control, Creating, Linking, Writing, Reading
<1>5. Formatting'
  BY <1>1 DEF Formatting
<1>6. QED
  BY <1>3, <1>4, <1>5 DEF Weak

LEMMA CreateEntryWeak ==
  ASSUME IInv, NEW n \in Names, CreateEntry(n)
  PROVE  Weak'
<1> USE DEF IInv
<1>1. /\ Prompt /\ directory' = [directory EXCEPT ![FreeSlot] = NewEntry(n)]
      /\ UNCHANGED <<open, file_position, saved>>
  BY DEF CreateEntry
<1>2. directory' \in Directories
  <2>1. FreeSlot \in 0..Free
    BY FreeSlotIs, Ranges
  <2>2. QED
    BY <1>1, <2>1, NewEntryIs, PutEntry DEF Types
<1>3. WriterCount = 0
  BY <1>1 DEF Prompt, Control, Types, Writing, Linking
<1>4. ASSUME directory[Free].sector # 0, local' = sector[directory[Free].sector].next,
             call' = "create sector", UNCHANGED <<disk, damaged>>
      PROVE  Weak'
  <2>1. directory[Free].sector \in Sectors
    BY <1>4, Ranges, EntryTypes DEF Types
  <2>2. sector[directory[Free].sector] \in Blocks /\ local' # OUTSIDE
    BY <1>4, <2>1 DEF Types, Disks
  <2>3. local' \in 0..NUM_SECTORS - 1
    BY <1>4, <2>2, BlockTypes, Ranges
  <2>4. Types'
    BY <1>1, <1>2, <1>4, <2>3 DEF Types, open, disk
  <2>5. Control' /\ Formatting'
    BY <1>1, <1>3, <1>4 DEF Control, Formatting, Creating, Linking, Writing, Reading, open,
                            Prompt
  <2>6. QED
    BY <2>4, <2>5 DEF Weak
<1>5. ASSUME CutShort("none") PROVE Weak'
  <2>1. Types'
    BY <1>1, <1>2, <1>5 DEF Types, open, CutShort, disk
  <2>2. Control' /\ Formatting'
    BY <1>1, <1>3, <1>5, CutShortWeak DEF open
  <2>3. QED
    BY <2>1, <2>2 DEF Weak
<1>6. QED
  BY <1>4, <1>5, Zenon DEF CreateEntry

(* While an entry is created nothing is written. *)
LEMMA CreatingQuiet ==
  ASSUME Types, Control, Creating
  PROVE  WriterCount = 0 /\ ~damaged /\ ~Writing
  BY DEF Types, Control, Creating, Writing, Linking

LEMMA CreateSectorWeak ==
  ASSUME IInv, CreateSector
  PROVE  Weak'
<1> USE DEF IInv
<1>1. call = "create sector" /\ UNCHANGED <<directory, open, file_position, saved>>
  BY DEF CreateSector
<1>2. WriterCount = 0 /\ ~damaged
  BY <1>1, CreatingQuiet DEF Creating
<1>3. ASSUME sector' = [sector EXCEPT ![directory[Free].sector] = NoBytes],
             Goto("create directory"), UNCHANGED diskDirectory
      PROVE  Weak'
  <2>1. directory[Free].sector \in Sectors
    BY <1>1, FreeHeads DEF Creating
  <2>2. NoBytes \in Blocks /\ NoBytes.next # OUTSIDE
    BY EmptyBlock, Sizes DEF OUTSIDE
  <2>3. sector' \in Disks /\ \A s \in Sectors : sector'[s].next # OUTSIDE
    BY <1>3, <2>1, <2>2 DEF Types, Disks
  <2>4. Types'
    BY <1>1, <1>3, <2>3 DEF Types, open, Goto
  <2>5. Control' /\ Formatting'
    BY <1>1, <1>2, <1>3 DEF Control, Formatting, Creating, Linking, Writing, Reading, open,
                            Goto
  <2>6. QED
    BY <2>4, <2>5 DEF Weak
<1>4. ASSUME CutShort("none") PROVE Weak'
  <2>1. Types'
    BY <1>1, <1>4 DEF Types, open, CutShort, disk
  <2>2. /\ WriterCount' = WriterCount /\ current_file' = current_file
        /\ last_sector_open' = last_sector_open /\ current_sector' = current_sector
    BY <1>1 DEF open
  <2>3. Control' /\ Formatting'
    BY <1>2, <1>4, <2>2, CutShortWeak
  <2>4. QED
    BY <2>1, <2>3 DEF Weak
<1>5. QED
  BY <1>3, <1>4, Zenon DEF CreateSector

LEMMA CreateDirectoryWeak ==
  ASSUME IInv, CreateDirectory
  PROVE  Weak'
<1> USE DEF IInv
<1>1. /\ call = "create directory" /\ directory' = FreeFrom(local)
      /\ UNCHANGED <<open, file_position>>
  BY DEF CreateDirectory
<1>2. WriterCount = 0 /\ ~damaged
  BY <1>1, CreatingQuiet DEF Creating
<1>3. directory' \in Directories
  BY <1>1, FreeFromIs DEF Types
<1>4. ASSUME diskDirectory' = directory', call' = "none", local' = 0,
             UNCHANGED <<sector, damaged>>,
             saved' = [n \in Names |-> IF \E i \in Created : directory[i].name = n THEN 0
                                       ELSE saved[n]]
      PROVE  Weak'
  <2>1. saved' \in [Names -> Nat]
    BY <1>4 DEF Types
  <2>2. Types'
    BY <1>1, <1>3, <1>4, <2>1, Ranges DEF Types, open
  <2>3. Control' /\ Formatting'
    BY <1>1, <1>2, <1>4 DEF Control, Formatting, Creating, Linking, Writing, Reading, open
  <2>4. QED
    BY <2>2, <2>3 DEF Weak
<1>5. ASSUME CutShort("none"), UNCHANGED saved PROVE Weak'
  <2>1. Types'
    BY <1>1, <1>3, <1>5 DEF Types, open, CutShort, disk
  <2>2. /\ WriterCount' = WriterCount /\ current_file' = current_file
        /\ last_sector_open' = last_sector_open /\ current_sector' = current_sector
    BY <1>1 DEF open
  <2>3. Control' /\ Formatting'
    BY <1>2, <1>5, <2>2, CutShortWeak
  <2>4. QED
    BY <2>1, <2>3 DEF Weak
<1>6. QED
  BY <1>4, <1>5, Zenon DEF CreateDirectory

LEMMA WOpenWeak ==
  ASSUME IInv, NEW n \in Names, eFile_WOpen(n)
  PROVE  Weak'
<1> USE DEF IInv
<1>1. /\ ~damaged /\ call = "none" /\ WriterCount = 0
      /\ UNCHANGED <<disk, directory, file_position, ReaderCount, WriterCount, saved>>
  BY DEF eFile_WOpen, Prompt
<1>2. PICK i \in Slot(n) :
        /\ current_file' = i
        /\ \/ /\ current_sector' = sector[directory[i].sector]
              /\ last_sector_open' = directory[i].sector
              /\ Goto("walk")
           \/ Goto("none") /\ UNCHANGED <<current_sector, last_sector_open>>
  BY Zenon DEF eFile_WOpen
<1>3. i \in Slots /\ directory[i].sector \in Sectors
  BY <1>1, OpenSectors
<1>4. /\ sector[directory[i].sector] \in Blocks
      /\ sector[directory[i].sector].next # OUTSIDE
  BY <1>3 DEF Types, Disks
<1>5. current_sector' \in Blocks /\ last_sector_open' \in Sectors \cup {-1}
  BY <1>2, <1>3, <1>4 DEF Types
<1>6. call' = "walk" => current_sector'.next # OUTSIDE
  BY <1>1, <1>2, <1>4 DEF Goto
<1>7. call' \in {"none", "walk"} /\ UNCHANGED <<local, damaged>>
  BY <1>2 DEF Goto
<1>8. Types'
  BY <1>1, <1>2, <1>3, <1>5, <1>7 DEF Types, disk
<1>9. Control' /\ Formatting'
  BY <1>1, <1>6, <1>7 DEF Control, Formatting, Creating, Linking, Writing, Reading
<1>10. QED
  BY <1>8, <1>9 DEF Weak

LEMMA WalkOpen ==
  ASSUME IInv, call = "walk"
  PROVE  /\ WriterCount = 0 /\ ~damaged
         /\ current_file \in Slots /\ last_sector_open \in Sectors
<1>1. WriterCount = 0 /\ ~damaged /\ ~Creating
  BY DEF IInv, Control, Types, Reading, Writing, Linking, Creating
<1>2. PICK c \in Ghosts : Structure(c)
  BY <1>1 DEF IInv, Followed, Structured
<1>3. current_file \in Named /\ last_sector_open \in Of(c[current_file])
  BY <1>2 DEF Structure, WalkingRight
<1>4. current_file \in Slots /\ current_file \in DiskNamed
  BY <1>1, <1>2, <1>3 DEF Structure, Named, New
<1>5. File(sector, diskDirectory[current_file], c[current_file], 0,
           saved[diskDirectory[current_file].name])
  BY <1>1, <1>2, <1>4, Quiet DEF IInv
<1>6. Of(c[current_file]) \subseteq Sectors
  BY <1>5, FileFirst
<1>7. QED
  BY <1>1, <1>3, <1>4, <1>6

LEMMA WalkWeak ==
  ASSUME IInv, WOpenWalk
  PROVE  Weak'
<1> USE DEF IInv
<1>1. /\ call = "walk"
      /\ UNCHANGED <<disk, directory, current_file, file_position, ReaderCount, saved>>
  BY DEF WOpenWalk
<1>2. WriterCount = 0 /\ ~damaged /\ current_file \in Slots /\ last_sector_open \in Sectors
  BY <1>1, WalkOpen
<1>3. current_sector.next # OUTSIDE /\ current_sector.next \in 0..OUTSIDE
  BY <1>1, BlockTypes DEF Control, Types
<1>4. CASE current_sector.next = 0
  <2>1. /\ WriterCount' = 1 /\ Goto("write")
        /\ UNCHANGED <<current_sector, last_sector_open>>
    BY <1>4 DEF WOpenWalk
  <2>2. Types'
    BY <1>1, <2>1 DEF Types, disk, Goto
  <2>3. Control' /\ Formatting'
    BY <1>1, <1>2, <1>3, <2>1 DEF Control, Formatting, Creating, Linking, Writing, Reading,
                                  Goto
  <2>4. QED
    BY <2>2, <2>3 DEF Weak
<1>5. CASE current_sector.next # 0
  <2>1. /\ \/ /\ current_sector' = sector[current_sector.next]
              /\ last_sector_open' = current_sector.next
              /\ Goto("walk")
           \/ last_sector_open' = -1 /\ Goto("none") /\ UNCHANGED current_sector
        /\ UNCHANGED WriterCount
    BY <1>5 DEF WOpenWalk
  <2>2. current_sector.next \in Sectors
    BY <1>3, <1>5, Ranges
  <2>3. /\ sector[current_sector.next] \in Blocks
        /\ sector[current_sector.next].next # OUTSIDE
    BY <2>2 DEF Types, Disks
  <2>4. current_sector' \in Blocks /\ last_sector_open' \in Sectors \cup {-1}
    BY <2>1, <2>2, <2>3 DEF Types
  <2>5. call' \in {"none", "walk"} /\ UNCHANGED <<local, damaged>>
    BY <2>1 DEF Goto
  <2>6. current_sector'.next # OUTSIDE
    BY <1>3, <2>1, <2>3
  <2>7. Types'
    BY <1>1, <2>1, <2>4, <2>5 DEF Types, disk
  <2>8. Control' /\ Formatting'
    BY <1>1, <1>2, <2>1, <2>5, <2>6 DEF Control, Formatting, Creating, Linking, Writing,
                                        Reading
  <2>9. QED
    BY <2>7, <2>8 DEF Weak
<1>6. QED
  BY <1>4, <1>5

LEMMA ROpenWeak ==
  ASSUME IInv, NEW n \in Names, eFile_ROpen(n)
  PROVE  Weak'
<1> USE DEF IInv
<1>1. /\ ~damaged /\ call = "none" /\ WriterCount = 0
      /\ UNCHANGED <<disk, directory, file_position, WriterCount, saved>>
  BY DEF eFile_ROpen, Prompt
<1>2. PICK i \in Slot(n) :
        /\ current_file' = i
        /\ last_sector_open' = directory[i].sector
        /\ \/ /\ current_sector' = sector[directory[i].sector]
              /\ ReaderCount' = 1
              /\ Goto("read")
           \/ Goto("none") /\ UNCHANGED <<current_sector, ReaderCount>>
  BY Zenon DEF eFile_ROpen
<1>3. i \in Slots /\ directory[i].sector \in Sectors
  BY <1>1, OpenSectors
<1>4. sector[directory[i].sector] \in Blocks
  BY <1>3 DEF Types, Disks
<1>5. current_sector' \in Blocks /\ ReaderCount' \in {0, 1}
  BY <1>2, <1>4 DEF Types
<1>6. call' \in {"none", "read"} /\ UNCHANGED <<local, damaged>>
  BY <1>2 DEF Goto
<1>7. Types'
  BY <1>1, <1>2, <1>3, <1>5, <1>6 DEF Types, disk
<1>8. Control' /\ Formatting'
  BY <1>1, <1>6 DEF Control, Formatting, Creating, Linking, Writing, Reading
<1>9. QED
  BY <1>7, <1>8 DEF Weak

LEMMA ReadNextWeak ==
  ASSUME IInv, ReadNext
  PROVE  Weak'
<1> USE DEF IInv
<1>1. /\ call = "read"
      /\ UNCHANGED <<disk, directory, current_file, last_sector_open, ReaderCount,
                     WriterCount, saved>>
  BY DEF ReadNext
<1>2. WriterCount = 0 /\ ~damaged
  BY <1>1 DEF Control, Types, Reading, Writing, Linking
<1>3. ASSUME NEW b \in NextBlock PROVE b \in Blocks
  <2>1. CASE current_sector.next = 0
    <3>1. b \in {[next |-> s, data |-> <<>>] : s \in {0, OUTSIDE}}
      BY <1>3, <2>1 DEF NextBlock
    <3>2. PICK s \in {0, OUTSIDE} : b = [next |-> s, data |-> <<>>]
      BY <3>1
    <3>3. s \in 0..OUTSIDE
      BY Sizes DEF OUTSIDE
    <3>4. QED
      BY <3>2, <3>3 DEF Blocks
  <2>2. CASE current_sector.next # 0
    <3>1. current_sector.next # OUTSIDE /\ b = sector[current_sector.next]
      BY <1>3, <2>2 DEF NextBlock
    <3>2. current_sector.next \in Sectors
      BY <2>2, <3>1, BlockTypes, Ranges DEF Types
    <3>3. QED
      BY <3>1, <3>2 DEF Types, Disks
  <2>3. QED
    BY <2>1, <2>2
<1>4. /\ current_sector' \in Blocks /\ file_position' \in 0..MAX_SECTOR_DATA
      /\ call' \in {"read", "end of read"} /\ UNCHANGED <<local, damaged>>
  <2>1. CASE file_position = MAX_SECTOR_DATA
    <3>1. \/ current_sector' \in NextBlock /\ file_position' = 1 /\ Goto("read")
          \/ file_position' = 0 /\ Goto("end of read") /\ UNCHANGED current_sector
      BY <2>1 DEF ReadNext
    <3>2. current_sector' \in Blocks
      BY <1>3, <3>1 DEF Types
    <3>3. 1 \in 0..MAX_SECTOR_DATA /\ 0 \in 0..MAX_SECTOR_DATA
      BY Sizes
    <3>4. QED
      BY <3>1, <3>2, <3>3 DEF Goto
  <2>2. CASE file_position # MAX_SECTOR_DATA
    <3>1. /\ file_position' = file_position + 1
          /\ UNCHANGED <<current_sector, call, local, damaged>>
      BY <2>2 DEF ReadNext
    <3>2. QED
      BY <1>1, <2>2, <3>1, Sizes DEF Types
  <2>3. QED
    BY <2>1, <2>2
<1>5. Types'
  BY <1>1, <1>4 DEF Types, disk
<1>6. Control' /\ Formatting'
  BY <1>1, <1>2, <1>4 DEF Control, Formatting, Creating, Linking, Writing, Reading
<1>7. QED
  BY <1>5, <1>6 DEF Weak

LEMMA RCloseWeak ==
  ASSUME IInv, eFile_RClose
  PROVE  Weak'
<1> USE DEF IInv
<1>1. /\ call = "end of read" /\ NothingOpen /\ ReaderCount' = 0 /\ file_position' = 0
      /\ Goto("none") /\ UNCHANGED <<disk, directory, WriterCount, saved>>
  BY DEF eFile_RClose
<1>2. WriterCount = 0
  BY <1>1 DEF Control, Types, Reading, Writing, Linking
<1>3. Types'
  <2>1. 0 \in 0..MAX_SECTOR_DATA
    BY Sizes
  <2>2. current_sector' \in Blocks /\ current_file' = NULL /\ last_sector_open' = -1
    BY <1>1, EmptyBlock DEF NothingOpen
  <2>3. QED
    BY <1>1, <2>1, <2>2 DEF Types, Goto, disk
<1>4. Control' /\ Formatting'
  BY <1>1, <1>2 DEF Control, Formatting, Creating, Linking, Writing, Reading, Goto
<1>5. QED
  BY <1>3, <1>4 DEF Weak

LEMMA WriteByteWeak ==
  ASSUME IInv, WriteByte
  PROVE  Weak'
<1> USE DEF IInv
<1>1. /\ call = "write" /\ ~damaged
      /\ current_sector' = [current_sector EXCEPT !.data = Append(@, Writer)]
      /\ directory' = OneByteMore(directory)
      /\ saved' = [saved EXCEPT ![Writer] = @ + 1]
      /\ UNCHANGED <<disk, current_file, last_sector_open, file_position, ReaderCount,
                     WriterCount, call, local, damaged>>
  BY DEF WriteByte
<1>2. Writer \in Names /\ current_file \in Slots /\ WriterCount = 1
  BY <1>1, WriterNamed DEF Writing
<1>3. current_sector' \in Blocks /\ current_sector'.next = current_sector.next
  BY <1>1, <1>2, ByteAppended DEF Types
<1>4. directory' \in Directories
  BY <1>1, <1>2, OneByteMoreIs DEF Types
<1>5. saved' \in [Names -> Nat]
  BY <1>1, <1>2, OneByteSaved DEF Types
<1>6. Types'
  BY <1>1, <1>3, <1>4, <1>5 DEF Types, disk
<1>7. Control' /\ Formatting'
  BY <1>1, <1>2, <1>3 DEF Control, Formatting, Creating, Linking, Writing, Reading
<1>8. QED
  BY <1>6, <1>7 DEF Weak

LEMMA WriteLinkWeak ==
  ASSUME IInv, WriteLink
  PROVE  Weak'
<1> USE DEF IInv
<1>1. /\ call = "write" /\ ~damaged
      /\ current_sector' = [current_sector EXCEPT !.next = directory[Free].sector]
      /\ UNCHANGED <<directory, current_file, last_sector_open, file_position, ReaderCount,
                     WriterCount, saved>>
  BY DEF WriteLink
<1>2. WriterCount = 1 /\ current_file \in Slots /\ last_sector_open \in Sectors
  BY <1>1 DEF Control, Writing
<1> DEFINE f == directory[Free].sector
<1>3. f \in 0..OUTSIDE /\ f # OUTSIDE
  BY Ranges, EntryTypes, Sizes DEF Types, OUTSIDE
<1>4. current_sector' \in Blocks /\ current_sector'.next # OUTSIDE
  <2>1. current_sector' = [current_sector EXCEPT !.next = f]
    BY <1>1
  <2> HIDE DEF f
  <2>2. QED
    BY <1>3, <2>1, NextSet DEF Types
<1>5. ASSUME sector' = [sector EXCEPT ![last_sector_open] = current_sector'],
             Goto("write directory"), UNCHANGED diskDirectory
      PROVE  Weak'
  <2>1. sector' \in Disks /\ \A s \in Sectors : sector'[s].next # OUTSIDE
    BY <1>2, <1>4, <1>5 DEF Types, Disks
  <2>2. Types'
    BY <1>1, <1>4, <1>5, <2>1 DEF Types, Goto
  <2>3. Control' /\ Formatting'
    BY <1>1, <1>2, <1>4, <1>5 DEF Control, Formatting, Creating, Linking, Writing, Reading,
                                  Goto
  <2>4. QED
    BY <2>2, <2>3 DEF Weak
<1>6. ASSUME CutShort("write") PROVE Weak'
  <2>1. Types'
    BY <1>1, <1>4, <1>6 DEF Types, CutShort, disk
  <2>2. Control' /\ Formatting'
    BY <1>1, <1>2, <1>4, <1>6, CutShortWeak
  <2>3. QED
    BY <2>1, <2>2 DEF Weak
<1>7. QED
  BY <1>5, <1>6, Zenon DEF WriteLink

LEMMA WriteDirectoryWeak ==
  ASSUME IInv, WriteDirectory
  PROVE  Weak'
<1> USE DEF IInv
<1>1. call = "write directory" /\ UNCHANGED <<open, file_position, saved>>
  BY DEF WriteDirectory
<1>2. WriterCount = 1 /\ ~damaged /\ Linking
  BY <1>1 DEF Control, Writing, Linking
<1> DEFINE s == sector[directory[Free].sector].next
<1>3. s \in 0..NUM_SECTORS - 1
  <2>1. directory[Free].sector \in Sectors
    BY <1>1, <1>2, FreeHeads
  <2>2. sector[directory[Free].sector] \in Blocks /\ s # OUTSIDE
    BY <2>1 DEF Types, Disks
  <2>3. QED
    BY <2>2, BlockTypes, Ranges
<1> HIDE DEF s
<1>4. FreeFrom(s) \in Directories
  BY <1>3, FreeFromIs DEF Types
<1>5. ASSUME directory' = FreeFrom(s), diskDirectory' = directory', Goto("write sector"),
             UNCHANGED sector
      PROVE  Weak'
  <2>1. Types'
    BY <1>1, <1>4, <1>5 DEF Types, open, Goto
  <2>2. Control' /\ Formatting'
    BY <1>1, <1>2, <1>5 DEF Control, Formatting, Creating, Linking, Writing, Reading, open,
                            Goto
  <2>3. QED
    BY <2>1, <2>2 DEF Weak
<1>6. ASSUME directory' \in {directory, FreeFrom(s)}, CutShort("write") PROVE Weak'
  <2>1. Types'
    BY <1>1, <1>4, <1>6 DEF Types, open, CutShort, disk
  <2>2. /\ WriterCount' = WriterCount /\ current_file' = current_file
        /\ last_sector_open' = last_sector_open /\ current_sector' = current_sector
    BY <1>1 DEF open
  <2>3. Control' /\ Formatting'
    BY <1>2, <1>6, <2>2, CutShortWeak
  <2>4. QED
    BY <2>1, <2>3 DEF Weak
<1>7. \/ /\ directory' = FreeFrom(s)
         /\ \/ /\ diskDirectory' = directory' /\ Goto("write sector")
               /\ UNCHANGED sector
            \/ CutShort("write")
      \/ CutShort("write") /\ UNCHANGED directory
  BY Zenon DEF WriteDirectory, s
<1>8. QED
  BY <1>5, <1>6, <1>7

LEMMA WriteSectorWeak ==
  ASSUME IInv, WriteSector
  PROVE  Weak'
<1> USE DEF IInv
<1>1. /\ call = "write sector"
      /\ last_sector_open' = current_sector.next
      /\ current_sector' = [next |-> 0, data |-> <<Writer>>]
      /\ directory' = OneByteMore(directory)
      /\ UNCHANGED <<current_file, file_position, ReaderCount, WriterCount>>
  BY DEF WriteSector
<1>2. ~damaged /\ Linking /\ Writing
  BY <1>1 DEF Control, Writing, Linking
<1>3. Writer \in Names /\ current_file \in Slots /\ WriterCount = 1
  BY <1>2, WriterNamed
<1>4. last_sector_open' \in Sectors
  BY <1>1, <1>2, FreeHeads
<1>5. current_sector' \in Blocks /\ current_sector'.next = 0 /\ 0 # OUTSIDE
  <2>1. [next |-> 0, data |-> <<Writer>>] \in Blocks
    BY <1>3, FirstByte
  <2>2. 0 # OUTSIDE
    BY Sizes DEF OUTSIDE
  <2>3. QED
    BY <1>1, <2>1, <2>2
<1>6. directory' \in Directories
  BY <1>1, <1>3, OneByteMoreIs DEF Types
<1>7. ASSUME sector' = [sector EXCEPT ![last_sector_open'] = current_sector'],
             saved' = [saved EXCEPT ![Writer] = @ + 1], Goto("write"),
             UNCHANGED diskDirectory
      PROVE  Weak'
  <2>1. sector' \in Disks /\ \A s \in Sectors : sector'[s].next # OUTSIDE
    BY <1>4, <1>5, <1>7 DEF Types, Disks
  <2>2. saved' \in [Names -> Nat]
    BY <1>3, <1>7, OneByteSaved DEF Types
  <2>3. Types'
    BY <1>1, <1>4, <1>5, <1>6, <1>7, <2>1, <2>2 DEF Types, Goto
  <2>4. Control' /\ Formatting'
    BY <1>1, <1>2, <1>3, <1>4, <1>5, <1>7 DEF Control, Formatting, Creating, Linking, Writing,
                                              Reading, Goto
  <2>5. QED
    BY <2>3, <2>4 DEF Weak
<1>8. ASSUME CutShort("write"), UNCHANGED saved PROVE Weak'
  <2>1. Types'
    BY <1>1, <1>4, <1>5, <1>6, <1>8 DEF Types, CutShort, disk
  <2>2. WriterCount' = WriterCount /\ current_file' = current_file
    BY <1>1
  <2>3. Control' /\ Formatting'
    BY <1>3, <1>4, <1>5, <1>8, <2>2, CutShortWeak
  <2>4. QED
    BY <2>1, <2>3 DEF Weak
<1>9. QED
  BY <1>7, <1>8, Zenon DEF WriteSector

LEMMA WCloseWeak ==
  ASSUME IInv, eFile_WClose
  PROVE  Weak'
<1> USE DEF IInv
<1>1. /\ call \in {"write", "none"} /\ WriterCount = 1
      /\ call' = "none" /\ UNCHANGED <<directory, file_position, saved>>
  BY DEF eFile_WClose
<1>2. /\ current_file \in Slots /\ last_sector_open \in Sectors
      /\ current_sector.next # OUTSIDE
  BY <1>1 DEF Control
<1>3. ASSUME sector' = Written, NothingOpen, WriterCount' = 0,
             UNCHANGED <<diskDirectory, local, damaged, ReaderCount>>
      PROVE  Weak'
  <2>1. sector' \in Disks /\ \A s \in Sectors : sector'[s].next # OUTSIDE
    BY <1>2, <1>3 DEF Types, Disks, Written
  <2>2. current_sector' \in Blocks /\ current_file' = NULL /\ last_sector_open' = -1
    BY <1>3, EmptyBlock DEF NothingOpen
  <2>3. Types'
    BY <1>1, <1>3, <2>1, <2>2 DEF Types
  <2>4. Control' /\ Formatting'
    <3>1. call' = "none" /\ WriterCount' = 0
      BY <1>1, <1>3
    <3>2. QED
      BY ONLY <3>1 DEF Control, Formatting, Creating, Linking, Writing, Reading
  <2>5. QED
    BY <2>3, <2>4 DEF Weak
<1>4. ASSUME CutShort("none"), UNCHANGED open PROVE Weak'
  <2>1. Types'
    BY <1>1, <1>4 DEF Types, open, CutShort, disk
  <2>2. /\ WriterCount' = WriterCount /\ current_file' = current_file
        /\ last_sector_open' = last_sector_open /\ current_sector' = current_sector
    BY <1>4 DEF open
  <2>3. WriterCount = 1 => ~Writing \/ call = "write"
    BY <1>1 DEF Writing, Linking
  <2>4. Control' /\ Formatting'
    BY <1>4, <2>2, <2>3, CutShortWeak
  <2>5. QED
    BY <2>1, <2>4 DEF Weak
<1>5. QED
  BY <1>3, <1>4, Zenon DEF eFile_WClose

(* The types and the order of the steps are kept by every action. *)
LEMMA WeakNext ==
  ASSUME IInv, Next
  PROVE  Weak'
<1>1. CASE FormatDirectory
  BY <1>1, FormatDirectoryWeak
<1>2. CASE FormatSector
  BY <1>2, FormatSectorWeak
<1>3. CASE eFile_Mount
  BY <1>3, MountWeak
<1>4. CASE CreateSector
  BY <1>4, CreateSectorWeak
<1>5. CASE CreateDirectory
  BY <1>5, CreateDirectoryWeak
<1>6. CASE WOpenWalk
  BY <1>6, WalkWeak
<1>7. CASE WriteByte
  BY <1>7, WriteByteWeak
<1>8. CASE WriteLink
  BY <1>8, WriteLinkWeak
<1>9. CASE WriteDirectory
  BY <1>9, WriteDirectoryWeak
<1>10. CASE WriteSector
  BY <1>10, WriteSectorWeak
<1>11. CASE eFile_WClose
  BY <1>11, WCloseWeak
<1>12. CASE ReadNext
  BY <1>12, ReadNextWeak
<1>13. CASE eFile_RClose
  BY <1>13, RCloseWeak
<1>14. CASE eFile_Unmount
  BY <1>14, UnmountWeak
<1>15. CASE PowerLoss
  BY <1>15, PowerLossWeak
<1>16. ASSUME NEW n \in Names,
              CreateEntry(n) \/ eFile_WOpen(n) \/ eFile_ROpen(n) \/ eFile_Delete(n)
       PROVE  Weak'
  BY <1>16, CreateEntryWeak, WOpenWeak, ROpenWeak, DeleteWeak
<1>17. QED
  BY <1>1, <1>2, <1>3, <1>4, <1>5, <1>6, <1>7, <1>8, <1>9, <1>10, <1>11, <1>12, <1>13, <1>14,
     <1>15, <1>16 DEF Next, Calls

-----------------------------------------------------------------------------
(* The chains after a step that leaves nothing to be written or created.   *)
LEMMA QuietStructure ==
  ASSUME NEW c \in Ghosts, Control', WriterCount' = 0, ~Creating',
         \A i \in DiskNamed' : File(sector', diskDirectory'[i], c[i], 0,
                                    saved'[diskDirectory'[i].name]),
         Linked(sector', directory'[Free].sector, c[Free], 0),
         Apart(DiskNamed', c), Once(diskDirectory', DiskNamed'),
         Named' \subseteq DiskNamed',
         Mirrors(directory', diskDirectory', Named', saved'),
         diskDirectory'[Free].sector = directory'[Free].sector,
         Behind(DiskNamed', directory'[Free].sector, c),
         WalkingRight(c)'
  PROVE  Structure(c)'
<1>1. ~Writing'
  BY DEF Control
<1>2. New' = {}
  BY DEF New
<1>3. DiskNamed' = DiskNamed'
  BY DEF DiskNamed
<1>4. FreeHead' = directory'[Free].sector
  BY DEF FreeHead, Creating
<1>5. Extended' = NULL
  BY DEF Extended
<1>6. DiskNamed' \subseteq Slots
  BY DEF DiskNamed
<1>7. Files(sector, diskDirectory, DiskNamed, Extended, Leads, Unwritten, saved, c)'
  BY <1>3, <1>5, <1>6, QuietFiles
<1>8. Once(directory, Named)'
  <2>1. SUFFICES ASSUME NEW i \in Named', NEW j \in Named',
                        directory'[i].name = directory'[j].name
                 PROVE  i = j
    BY DEF Once
  <2>2. diskDirectory'[i].name = diskDirectory'[j].name /\ i \in DiskNamed' /\ j \in DiskNamed'
    BY <2>1 DEF Mirrors
  <2>3. QED
    BY <2>2 DEF Once
<1>9. (Named \subseteq DiskNamed \cup New)' /\ (Named \ New)' = Named'
  BY <1>2, <1>3
<1>10. CreatingRight(c)' /\ WritingRight(c)'
  BY <1>1 DEF CreatingRight, WritingRight
<1>11. Mirrors(directory, diskDirectory, Named \ New, saved)'
  BY <1>9
<1>12. Apart(DiskNamed, c)' /\ Once(diskDirectory, DiskNamed)'
  BY <1>3
<1>13. Linked(sector, FreeHead, c[Free], 0)'
  BY <1>4
<1>14. QED
  BY <1>7, <1>8, <1>9, <1>10, <1>11, <1>12, <1>13 DEF Structure

(* What such a state has, before the step. *)
LEMMA QuietParts ==
  ASSUME Types, NEW c \in Ghosts, Structure(c), WriterCount = 0, ~Creating
  PROVE  /\ \A i \in DiskNamed : /\ i \in Slots /\ i \in 0..Free
                                 /\ File(sector, diskDirectory[i], c[i], 0,
                                         saved[diskDirectory[i].name])
                                 /\ diskDirectory[i].name \in Names
                                 /\ saved[diskDirectory[i].name] \in Nat
         /\ Linked(sector, directory[Free].sector, c[Free], 0)
         /\ Apart(DiskNamed, c) /\ Once(diskDirectory, DiskNamed)
         /\ Named \subseteq DiskNamed /\ Named \subseteq Slots
         /\ Mirrors(directory, diskDirectory, Named, saved)
         /\ diskDirectory[Free].sector = directory[Free].sector
         /\ Behind(DiskNamed, directory[Free].sector, c)
         /\ Once(directory, Named)
<1>1. New = {}
  BY DEF New
<1>2. FreeHead = directory[Free].sector
  BY DEF FreeHead, Creating
<1>3. ASSUME NEW i \in DiskNamed
      PROVE  /\ i \in Slots /\ i \in 0..Free
             /\ File(sector, diskDirectory[i], c[i], 0, saved[diskDirectory[i].name])
             /\ diskDirectory[i].name \in Names
             /\ saved[diskDirectory[i].name] \in Nat
  BY <1>1, Quiet DEF Types
<1>4. Named \subseteq DiskNamed /\ Named \subseteq Slots /\ Named \ New = Named
  BY <1>1 DEF Structure, Named
<1>5. Linked(sector, directory[Free].sector, c[Free], 0)
  BY <1>2 DEF Structure
<1>6. Apart(DiskNamed, c) /\ Once(diskDirectory, DiskNamed)
  BY <1>1 DEF Structure
<1>7. Mirrors(directory, diskDirectory, Named, saved)
  BY <1>4 DEF Structure
<1>8. QED
  BY <1>3, <1>4, <1>5, <1>6, <1>7 DEF Structure

(* A part of the files, with another directory on the disk. *)
LEMMA FewerApart ==
  ASSUME NEW G, NEW H, H \subseteq G, NEW c, Apart(G, c)
  PROVE  Apart(H, c)
  BY DEF Apart

(* mount: the entries on the disk are those of RAM, with the older sizes. *)
LEMMA MountStructured ==
  ASSUME IInv, eFile_Mount, Weak', NEW c \in Ghosts, Structure(c)
  PROVE  Structure(c)'
<1>1. /\ call = "none" /\ ~damaged /\ directory' = diskDirectory
      /\ UNCHANGED <<disk, open, file_position, call, local, saved, damaged>>
  BY DEF eFile_Mount, Prompt
<1>2. /\ UNCHANGED <<diskDirectory, sector, saved, call>> /\ WriterCount' = WriterCount
  BY <1>1 DEF disk, open
<1>3. WriterCount = 0 /\ ~Creating /\ ~Creating'
  BY <1>1, <1>2 DEF IInv, Control, Types, Creating, Writing, Linking
<1>4. /\ \A i \in DiskNamed : File(sector, diskDirectory[i], c[i], 0,
                                   saved[diskDirectory[i].name])
      /\ Linked(sector, directory[Free].sector, c[Free], 0)
      /\ Apart(DiskNamed, c) /\ Once(diskDirectory, DiskNamed)
      /\ diskDirectory[Free].sector = directory[Free].sector
      /\ Behind(DiskNamed, directory[Free].sector, c)
  BY <1>3, QuietParts DEF IInv
<1>5. DiskNamed' = DiskNamed /\ Named' = DiskNamed
  BY <1>1, <1>2 DEF DiskNamed, Named
<1>6. Mirrors(directory', diskDirectory', Named', saved')
  <2>1. ASSUME NEW i \in DiskNamed
        PROVE  /\ diskDirectory[i].size <= saved[diskDirectory[i].name]
               /\ diskDirectory[i].size <= diskDirectory[i].size
    <3>1. i \in 0..Free
      BY Ranges DEF DiskNamed
    <3>2. diskDirectory[i].size \in Int
      BY <3>1, EntryTypes DEF IInv, Types
    <3>3. QED
      BY <1>4, <3>2 DEF File
  <2>2. QED
    BY <1>1, <1>2, <1>5, <2>1 DEF Mirrors
<1>7. WalkingRight(c)'
  BY <1>1 DEF WalkingRight
<1>8. Behind(DiskNamed', directory'[Free].sector, c)
  BY <1>1, <1>4, <1>5
<1>9. QED
  BY <1>1, <1>2, <1>3, <1>4, <1>5, <1>6, <1>7, <1>8, QuietStructure DEF Weak

LEMMA DeleteStructured ==
  ASSUME IInv, NEW n \in Names, eFile_Delete(n), Weak', NEW c \in Ghosts, Structure(c)
  PROVE  Structure(c)'
<1>1. /\ call = "none" /\ ~damaged
      /\ UNCHANGED <<disk, open, file_position, call, local, saved, damaged>>
  BY DEF eFile_Delete, Prompt
<1>2. /\ UNCHANGED <<diskDirectory, sector, saved, call>> /\ WriterCount' = WriterCount
  BY <1>1 DEF disk, open
<1>3. WriterCount = 0 /\ ~Creating /\ ~Creating'
  BY <1>1, <1>2 DEF IInv, Control, Types, Creating, Writing, Linking
<1>4. /\ \A i \in DiskNamed : File(sector, diskDirectory[i], c[i], 0,
                                   saved[diskDirectory[i].name])
      /\ Linked(sector, directory[Free].sector, c[Free], 0)
      /\ Apart(DiskNamed, c) /\ Once(diskDirectory, DiskNamed)
      /\ Named \subseteq DiskNamed
      /\ Mirrors(directory, diskDirectory, Named, saved)
      /\ diskDirectory[Free].sector = directory[Free].sector
      /\ Behind(DiskNamed, directory[Free].sector, c)
  BY <1>3, QuietParts DEF IInv
<1>5. PICK i \in Slot(n) : directory' = [directory EXCEPT ![i] = NoEntry]
  BY DEF eFile_Delete
<1>6. i \in Slots /\ i \in 0..Free
  BY Ranges DEF Slot
<1>7. directory'[i] = NoEntry /\ \A j \in 0..Free : j # i => directory'[j] = directory[j]
  BY <1>5, <1>6, BlankIs, PutEntry DEF IInv, Types
<1>8. directory'[Free] = directory[Free]
  BY <1>6, <1>7, Ranges
<1>9. Named' \subseteq Named /\ \A j \in Named' : directory'[j] = directory[j]
  BY <1>7, BlankIs, Ranges DEF Named
<1>10. DiskNamed' = DiskNamed
  BY <1>2 DEF DiskNamed
<1>11. Mirrors(directory', diskDirectory', Named', saved')
  BY <1>2, <1>4, <1>9 DEF Mirrors
<1>12. WalkingRight(c)'
  BY <1>1 DEF WalkingRight
<1>13. Named' \subseteq DiskNamed'
  BY <1>4, <1>9, <1>10
<1>14. Behind(DiskNamed', directory'[Free].sector, c)
  BY <1>4, <1>8, <1>10
<1>15. QED
  BY <1>2, <1>3, <1>4, <1>8, <1>10, <1>11, <1>12, <1>13, <1>14, QuietStructure DEF Weak

(* unmount: the disk gets the entries of RAM. *)
LEMMA UnmountStructured ==
  ASSUME IInv, eFile_Unmount, Weak', Followed', NEW c \in Ghosts, Structure(c)
  PROVE  Structure(c)'
<1>1. /\ call = "none" /\ ~damaged /\ WriterCount = 0
      /\ UNCHANGED <<directory, open, file_position, saved>>
  BY DEF eFile_Unmount, Prompt
<1>2. diskDirectory' = directory /\ UNCHANGED <<sector, call, local, damaged>>
  BY DEF eFile_Unmount, CutShort, Followed
<1>3. WriterCount' = 0 /\ ~Creating /\ ~Creating'
  BY <1>1, <1>2 DEF Creating, open
<1>4. /\ \A i \in DiskNamed : File(sector, diskDirectory[i], c[i], 0,
                                   saved[diskDirectory[i].name])
      /\ Linked(sector, directory[Free].sector, c[Free], 0)
      /\ Apart(DiskNamed, c) /\ Once(directory, Named)
      /\ Named \subseteq DiskNamed /\ Named \subseteq Slots
      /\ Mirrors(directory, diskDirectory, Named, saved)
      /\ Behind(DiskNamed, directory[Free].sector, c)
  BY <1>1, <1>3, QuietParts DEF IInv
<1>5. DiskNamed' = Named /\ Named' = Named
  BY <1>1, <1>2 DEF DiskNamed, Named
<1>6. ASSUME NEW i \in Named
      PROVE  File(sector, directory[i], c[i], 0, saved[directory[i].name])
  <2>1. File(sector, diskDirectory[i], c[i], 0, saved[directory[i].name])
    BY <1>4 DEF Mirrors
  <2>2. /\ directory[i].name = diskDirectory[i].name
        /\ directory[i].sector = diskDirectory[i].sector
        /\ directory[i].size <= saved[directory[i].name]
    BY <1>4 DEF Mirrors
  <2>3. QED
    BY <2>1, <2>2, FileAgain
<1>7. Mirrors(directory', diskDirectory', Named', saved')
  <2>1. ASSUME NEW i \in Named PROVE directory[i].size <= directory[i].size
    <3>1. i \in 0..Free
      BY <1>4, Ranges
    <3>2. directory[i].size \in Int
      BY <3>1, EntryTypes DEF IInv, Types
    <3>3. QED
      BY <3>2
  <2>2. QED
    BY <1>1, <1>2, <1>4, <1>5, <2>1 DEF Mirrors
<1>8. WalkingRight(c)'
  BY <1>1, <1>2 DEF WalkingRight
<1>9. Apart(DiskNamed', c)
  BY <1>4, <1>5, FewerApart
<1>10. Behind(DiskNamed', directory'[Free].sector, c)
  BY <1>1, <1>4, <1>5 DEF Behind
<1>11. QED
  BY <1>1, <1>2, <1>3, <1>4, <1>5, <1>6, <1>7, <1>8, <1>9, <1>10, QuietStructure DEF Weak

(* While touch creates a file. *)
LEMMA CreatingParts ==
  ASSUME Types, NEW c \in Ghosts, Structure(c), Creating
  PROVE  /\ WriterCount = 0 /\ DiskNamed \subseteq Slots
         /\ \A i \in DiskNamed : /\ File(sector, diskDirectory[i], c[i], 0,
                                         saved[diskDirectory[i].name])
                                 /\ i \in Slots /\ i \in 0..Free
                                 /\ diskDirectory[i].name \in Names
         /\ Linked(sector, FreeHead, c[Free], 0)
         /\ directory[Free].sector \in Sectors
         /\ local = 0 \/ directory[Free].sector < local
         /\ \A i \in New : directory[i].size = 0
         /\ \A i, j \in New : i = j
         /\ Apart(DiskNamed, c)
         /\ Once(diskDirectory, DiskNamed) /\ Once(directory, Named)
         /\ Named \subseteq DiskNamed \cup New
         /\ Mirrors(directory, diskDirectory, Named \ New, saved)
         /\ diskDirectory[Free].sector = directory[Free].sector
         /\ Behind(DiskNamed, directory[Free].sector, c)
<1>1. /\ WriterCount = 0 /\ directory[Free].sector # 0
      /\ local = 0 \/ directory[Free].sector < local
      /\ \A i \in New : directory[i].size = 0
      /\ \A i, j \in New : i = j
  BY DEF Structure, CreatingRight
<1>2. DiskNamed \subseteq Slots
  BY DEF DiskNamed
<1>3. directory[Free].sector \in Sectors
  BY <1>1, Ranges, EntryTypes DEF Types
<1>4. \A i \in DiskNamed : /\ File(sector, diskDirectory[i], c[i], 0,
                                   saved[diskDirectory[i].name])
                           /\ i \in Slots /\ i \in 0..Free
                           /\ diskDirectory[i].name \in Names
  BY <1>1, Quiet
<1>5. /\ Linked(sector, FreeHead, c[Free], 0) /\ Apart(DiskNamed, c)
      /\ Once(diskDirectory, DiskNamed) /\ Once(directory, Named)
      /\ Named \subseteq DiskNamed \cup New
      /\ Mirrors(directory, diskDirectory, Named \ New, saved)
      /\ diskDirectory[Free].sector = directory[Free].sector
      /\ Behind(DiskNamed, directory[Free].sector, c)
  BY DEF Structure
<1>6. QED
  BY <1>1, <1>2, <1>3, <1>4, <1>5

(* The free chain on the disk: its first sector may be written for a new file. *)
LEMMA FreeOnDisk ==
  ASSUME IInv, NEW c \in Ghosts, Structure(c)
  PROVE  \E q \in Seq(Sectors) :
           /\ Linked(sector, directory[Free].sector, q, 0)
           /\ \A i \in DiskNamed : Of(c[i]) \cap Of(q) = {}
<1>1. CASE call = "create directory"
  <2> DEFINE f == directory[Free].sector
  <2>1. f \in Sectors
    BY <1>1, CreatingParts DEF IInv, Creating
  <2>2. sector[f] = NoBytes /\ \A i \in DiskNamed : f \notin Of(c[i])
    BY <1>1 DEF Structure, CreatingRight, Creating
  <2> HIDE DEF f
  <2>3. <<f>> \in Seq(Sectors) /\ Linked(sector, f, <<f>>, 0) /\ Of(<<f>>) = {f}
    BY <2>1, <2>2, LinkedOne
  <2>4. QED
    BY <2>2, <2>3 DEF f
<1>2. CASE call # "create directory"
  <2>1. Linked(sector, directory[Free].sector, c[Free], 0)
    BY <1>2 DEF Structure, FreeHead
  <2>2. c[Free] \in Seq(Sectors)
    BY <2>1 DEF Linked
  <2>3. QED
    BY <2>1, <2>2, FreeApart
<1>3. QED
  BY <1>1, <1>2

(* The next boot finds the files as they are on the disk. *)
LEMMA PowerLossStructured ==
  ASSUME IInv, PowerLoss, Weak', Followed', NEW c \in Ghosts, Structure(c)
  PROVE  Structured'
<1>1. /\ directory' = diskDirectory /\ NothingOpen /\ WriterCount' = 0
      /\ call' = "none" /\ damaged' = (damaged \/ Linking) /\ UNCHANGED disk
      /\ saved' = IF damaged' THEN Nothing
                  ELSE [n \in Names |-> IF WriterCount = 1 /\ Writer = n
                                        THEN saved[n] - Unwritten ELSE saved[n]]
  BY DEF PowerLoss
<1>2. ~damaged' /\ ~damaged /\ ~Linking
  BY <1>1 DEF Followed
<1>3. ~Creating'
  BY <1>1 DEF Creating
<1>4. UNCHANGED <<diskDirectory, sector>>
  BY <1>1 DEF disk
<1>5. \A n \in Names : saved'[n] = IF WriterCount = 1 /\ Writer = n
                                   THEN saved[n] - Unwritten ELSE saved[n]
  BY <1>1, <1>2
<1>6. DiskNamed' = DiskNamed /\ Named' = DiskNamed /\ DiskNamed \subseteq Slots
  BY <1>1, <1>4 DEF DiskNamed, Named
<1>7. ASSUME NEW i \in DiskNamed
      PROVE  File(sector, diskDirectory[i], c[i], 0, saved'[diskDirectory[i].name])
  <2>1. CASE WriterCount = 0
    <3>1. /\ File(sector, diskDirectory[i], c[i], 0, saved[diskDirectory[i].name])
          /\ diskDirectory[i].name \in Names
      BY <2>1, Quiet DEF IInv
    <3>2. saved'[diskDirectory[i].name] = saved[diskDirectory[i].name]
      BY <1>5, <2>1, <3>1
    <3>3. QED
      BY <3>1, <3>2
  <2>2. CASE WriterCount = 1
    <3>1. Writing
      BY <1>2, <2>2 DEF IInv, Control
    <3>2. CASE i = current_file
      <4>1. /\ File(sector, diskDirectory[i], c[i], Leads, saved[Writer] - Unwritten)
            /\ diskDirectory[i].name = Writer /\ Writer \in Names
        BY <3>1, <3>2, Busy DEF IInv
      <4>2. Leads = 0
        BY <1>2 DEF Leads
      <4>3. saved'[diskDirectory[i].name] = saved[Writer] - Unwritten
        BY <1>5, <2>2, <4>1
      <4>4. QED
        BY <4>1, <4>2, <4>3
    <3>3. CASE i # current_file
      <4>1. /\ File(sector, diskDirectory[i], c[i], 0, saved[diskDirectory[i].name])
            /\ diskDirectory[i].name \in Names /\ diskDirectory[i].name # Writer
        BY <3>1, <3>3, Others DEF IInv
      <4>2. saved'[diskDirectory[i].name] = saved[diskDirectory[i].name]
        BY <1>5, <4>1
      <4>3. QED
        BY <4>1, <4>2
    <3>4. QED
      BY <3>2, <3>3
  <2>3. QED
    BY <2>1, <2>2 DEF IInv, Types
<1>8. /\ Apart(DiskNamed, c) /\ Once(diskDirectory, DiskNamed)
      /\ diskDirectory[Free].sector = directory[Free].sector
      /\ Behind(DiskNamed, directory[Free].sector, c)
  BY DEF Structure
<1>9. Mirrors(directory', diskDirectory', Named', saved')
  <2>1. ASSUME NEW i \in DiskNamed
        PROVE  /\ diskDirectory[i].size <= saved'[diskDirectory[i].name]
               /\ diskDirectory[i].size <= diskDirectory[i].size
    <3>1. i \in 0..Free
      BY <1>6, Ranges
    <3>2. diskDirectory[i].size \in Int
      BY <3>1, EntryTypes DEF IInv, Types
    <3>3. QED
      BY <1>7, <3>2 DEF File
  <2>2. QED
    BY <1>1, <1>4, <1>6, <2>1 DEF Mirrors
<1>10. PICK q \in Seq(Sectors) : /\ Linked(sector, directory[Free].sector, q, 0)
                                 /\ \A i \in DiskNamed : Of(c[i]) \cap Of(q) = {}
  BY FreeOnDisk
<1>11. PICK d \in Ghosts : d[Free] = q /\ \A i \in Slots : d[i] = c[i]
  <2> DEFINE new == [c EXCEPT ![Free] = q]
  <2>1. new \in Ghosts /\ new[Free] = q /\ \A i \in Slots : new[i] = c[i]
    BY Ranges DEF Ghosts
  <2> HIDE DEF new
  <2>2. QED
    BY <2>1
<1>12. \A i \in DiskNamed' : File(sector', diskDirectory'[i], d[i], 0,
                                  saved'[diskDirectory'[i].name])
  BY <1>4, <1>6, <1>7, <1>11
<1>13. Linked(sector', directory'[Free].sector, d[Free], 0)
  BY <1>1, <1>4, <1>8, <1>10, <1>11
<1>14. Apart(DiskNamed', d)
  <2>1. SUFFICES ASSUME NEW i \in DiskNamed \cup {Free}, NEW j \in DiskNamed \cup {Free}, i # j
                 PROVE  Of(d[i]) \cap Of(d[j]) = {}
    BY <1>6 DEF Apart
  <2>2. Of(c[i]) \cap Of(c[j]) = {}
    BY <1>8, <2>1 DEF Apart
  <2>3. QED
    BY <1>6, <1>10, <1>11, <2>1, <2>2
<1>15. Behind(DiskNamed', directory'[Free].sector, d)
  BY <1>1, <1>6, <1>8, <1>11 DEF Behind
<1>16. Once(diskDirectory', DiskNamed') /\ Named' \subseteq DiskNamed'
  BY <1>4, <1>6, <1>8
<1>17. diskDirectory'[Free].sector = directory'[Free].sector /\ WalkingRight(d)'
  BY <1>1, <1>4 DEF WalkingRight
<1>18. Structure(d)'
  BY <1>1, <1>3, <1>9, <1>11, <1>12, <1>13, <1>14, <1>15, <1>16, <1>17, QuietStructure DEF Weak
<1>19. QED
  BY <1>11, <1>18 DEF Structured

(* A sector in front of a chain. *)
LEMMA LinkedBefore ==
  ASSUME NEW sec, NEW s \in Sectors, NEW q, Linked(sec, sec[s].next, q, 0), s \notin Of(q)
  PROVE  \E r : Linked(sec, s, r, 0) /\ Of(r) = Of(q) \cup {s}
<1> DEFINE n == Len(q)
           r == [k \in 1..n + 1 |-> IF k = 1 THEN s ELSE q[k - 1]]
<1>1. n \in Nat /\ q \in Seq(Sectors) /\ \A k \in 1..n : q[k] \in Sectors /\ q[k] # s
  BY DEF Linked, Of
<1>2. /\ \A k, l \in 1..n : q[k] = q[l] => k = l
      /\ \A k \in 1..n - 1 : sec[q[k]].next = q[k + 1]
      /\ IF n = 0 THEN sec[s].next = 0 ELSE q[1] = sec[s].next /\ sec[q[n]].next = 0
  BY DEF Linked
<1> HIDE DEF n
<1>3. \A k \in 1..n + 1 : r[k] = IF k = 1 THEN s ELSE q[k - 1]
  OBVIOUS
<1>4. r \in Seq(Sectors) /\ Len(r) = n + 1
  <2>1. \A k \in 1..n + 1 : r[k] \in Sectors
    BY <1>1, <1>3
  <2>2. r \in [1..n + 1 -> Sectors]
    BY <2>1
  <2>3. n + 1 \in Nat
    BY <1>1
  <2> HIDE DEF r
  <2>4. QED
    BY <2>2, <2>3
<1> HIDE DEF r
<1>5. ASSUME NEW k \in 1..n + 1, NEW l \in 1..n + 1, r[k] = r[l] PROVE k = l
  <2>1. CASE k = 1 /\ l # 1
    BY <1>1, <1>3, <1>5, <2>1
  <2>2. CASE k # 1 /\ l = 1
    BY <1>1, <1>3, <1>5, <2>2
  <2>3. CASE k # 1 /\ l # 1
    <3>1. k - 1 \in 1..n /\ l - 1 \in 1..n /\ q[k - 1] = q[l - 1]
      BY <1>1, <1>3, <1>5, <2>3
    <3>2. k - 1 = l - 1
      BY <1>2, <3>1
    <3>3. QED
      BY <3>2
  <2>4. QED
    BY <2>1, <2>2, <2>3
<1>6. ASSUME NEW k \in 1..n PROVE sec[r[k]].next = r[k + 1]
  <2>1. r[k + 1] = q[k] /\ r[k] = IF k = 1 THEN s ELSE q[k - 1]
    BY <1>1, <1>3
  <2>2. CASE k = 1
    BY <1>1, <1>2, <2>1, <2>2
  <2>3. CASE k # 1
    <3>1. k - 1 \in 1..n - 1 /\ (k - 1) + 1 = k
      BY <1>1, <2>3
    <3>2. QED
      BY <1>2, <2>1, <2>3, <3>1
  <2>4. QED
    BY <2>2, <2>3
<1>7. r[1] = s /\ sec[r[n + 1]].next = 0
  <2>1. CASE n = 0
    BY <1>2, <1>3, <2>1
  <2>2. CASE n # 0
    BY <1>1, <1>2, <1>3, <2>2
  <2>3. QED
    BY <1>1, <1>3, <2>1, <2>2
<1>8. Linked(sec, s, r, 0)
  <2>1. (n + 1) - 1 = n /\ n + 1 # 0
    BY <1>1
  <2>2. QED
    BY <1>4, <1>5, <1>6, <1>7, <2>1 DEF Linked
<1>9. Of(r) = Of(q) \cup {s}
  <2>1. ASSUME NEW k \in 1..n + 1 PROVE r[k] \in Of(q) \cup {s}
    <3>1. k = 1 \/ k - 1 \in 1..n
      BY <1>1
    <3>2. QED
      BY <1>3, <3>1 DEF Of, n
  <2>2. ASSUME NEW k \in 1..n PROVE q[k] = r[k + 1] /\ k + 1 \in 1..n + 1
    BY <1>1, <1>3
  <2>3. s = r[1] /\ 1 \in 1..n + 1
    BY <1>1, <1>7
  <2>4. Of(r) = {r[k] : k \in 1..n + 1} /\ Of(q) = {q[k] : k \in 1..n}
    BY <1>4 DEF Of, n
  <2>5. QED
    BY <2>1, <2>2, <2>3, <2>4
<1>10. QED
  BY <1>8, <1>9

(* On a disk whose sectors lead to later ones every sector begins a chain, also *)
(* when a part of it is formatted.                                              *)
LEMMA RisingChain ==
  ASSUME NEW sec \in Disks, Rising(sec), \A s \in Sectors : sec[s].next # OUTSIDE,
         NEW s \in Sectors
  PROVE  \E q : Linked(sec, s, q, 0)
<1> DEFINE From(x) == \E q : Linked(sec, x, q, 0) /\ \A u \in Of(q) : x <= u
           S == {m \in Nat : \A x \in Sectors : x >= NUM_SECTORS - m => From(x)}
<1>1. 0 \in S
  BY Sizes DEF Sectors
<1>2. ASSUME NEW m \in S PROVE m + 1 \in S
  <2>1. SUFFICES ASSUME NEW x \in Sectors, x >= NUM_SECTORS - (m + 1) PROVE From(x)
    OBVIOUS
  <2>2. PICK q : Linked(sec, sec[x].next, q, 0) /\ \A u \in Of(q) : x < u
    <3>1. CASE sec[x].next = 0
      <4>1. Linked(sec, 0, <<>>, 0) /\ Of(<<>>) = {}
        BY DEF Linked, Of
      <4>2. QED
        BY <3>1, <4>1
    <3>2. CASE sec[x].next # 0
      <4>1. sec[x].next \in Sectors /\ sec[x].next > x
        <5>1. sec[x] \in Blocks
          BY DEF Disks
        <5>2. QED
          BY <3>2, <5>1, BlockTypes, Ranges DEF Rising
      <4>2. From(sec[x].next)
        BY <1>2, <2>1, <4>1, Sizes DEF Sectors
      <4>3. PICK q : Linked(sec, sec[x].next, q, 0) /\ \A u \in Of(q) : sec[x].next <= u
        BY <4>2
      <4>4. ASSUME NEW u \in Of(q) PROVE x < u
        <5>1. u \in Sectors
          BY <4>3, LinkedIn
        <5>2. QED
          BY <4>1, <4>3, <5>1, Sizes DEF Sectors
      <4>5. QED
        BY <4>3, <4>4
    <3>3. QED
      BY <3>1, <3>2
  <2>3. x \notin Of(q)
    <3>1. x \in Int
      BY DEF Sectors
    <3>2. QED
      BY <2>2, <3>1
  <2>4. PICK r : Linked(sec, x, r, 0) /\ Of(r) = Of(q) \cup {x}
    BY <2>2, <2>3, LinkedBefore
  <2>5. ASSUME NEW u \in Of(r) PROVE x <= u
    <3>1. u \in Sectors
      BY <2>4, LinkedIn
    <3>2. QED
      BY <2>2, <2>4, <3>1, Sizes DEF Sectors
  <2>6. QED
    BY <2>4, <2>5
<1>3. S = Nat
  <2> HIDE DEF S
  <2>1. S \in SUBSET Nat
    BY DEF S
  <2>2. QED
    BY <1>1, <1>2, <2>1, SetInduction
<1>4. NUM_SECTORS \in S
  BY <1>3, Sizes
<1>5. s >= NUM_SECTORS - NUM_SECTORS
  BY Sizes DEF Sectors
<1>6. From(s)
  BY <1>4, <1>5
<1>7. QED
  BY <1>6

(* The power may go while format is half done. *)
LEMMA FormatLossStructured ==
  ASSUME IInv, PowerLoss, Weak', Followed', call = "format"
  PROVE  Structured'
<1>1. /\ directory' = diskDirectory /\ WriterCount' = 0 /\ call' = "none"
      /\ UNCHANGED disk /\ ~damaged
  BY DEF PowerLoss, Followed
<1>2. UNCHANGED <<diskDirectory, sector>> /\ diskDirectory = BlankDirectory
  BY <1>1 DEF disk, IInv, Formatting
<1>3. PICK q : Linked(sector, 1, q, 0)
  BY <1>1, RisingChain, Ranges DEF IInv, Types
<1>4. PICK d \in Ghosts : d[Free] = q
  <2> DEFINE new == [i \in 0..Free |-> q]
  <2>1. q \in Seq(Sectors)
    BY <1>3 DEF Linked
  <2>2. new \in Ghosts /\ new[Free] = q
    BY <2>1, Ranges DEF Ghosts
  <2> HIDE DEF new
  <2>3. QED
    BY <2>2
<1>5. DiskNamed' = {} /\ Named' = {}
  BY <1>1, <1>2, BlankIs DEF DiskNamed, Named
<1>6. Linked(sector', directory'[Free].sector, d[Free], 0)
  BY <1>1, <1>2, <1>3, <1>4, BlankIs
<1>7. /\ Apart(DiskNamed', d) /\ Once(diskDirectory', DiskNamed')
      /\ Mirrors(directory', diskDirectory', Named', saved')
      /\ Behind(DiskNamed', directory'[Free].sector, d)
  BY <1>5 DEF Apart, Once, Mirrors, Behind
<1>8. diskDirectory'[Free].sector = directory'[Free].sector
  BY <1>1, <1>2
<1>9. ~Creating' /\ WalkingRight(d)' /\ Control'
  BY <1>1 DEF Weak, Creating, WalkingRight
<1>10. Structure(d)'
  BY <1>1, <1>4, <1>5, <1>6, <1>7, <1>8, <1>9, QuietStructure
<1>11. QED
  BY <1>4, <1>10 DEF Structured

(* Steps that touch no chain, entry or byte. *)
LEMMA UnmovedStructured ==
  ASSUME IInv, UNCHANGED <<disk, directory, saved>>, WriterCount = 0, WriterCount' = 0,
         ~Creating, ~Creating', Weak', NEW c \in Ghosts, Structure(c), WalkingRight(c)'
  PROVE  Structure(c)'
<1>1. UNCHANGED <<diskDirectory, sector, directory, saved>>
  BY DEF disk
<1>2. DiskNamed' = DiskNamed /\ Named' = Named
  BY <1>1 DEF DiskNamed, Named
<1>3. /\ \A i \in DiskNamed : File(sector, diskDirectory[i], c[i], 0,
                                   saved[diskDirectory[i].name])
      /\ Linked(sector, directory[Free].sector, c[Free], 0)
      /\ Apart(DiskNamed, c) /\ Once(diskDirectory, DiskNamed)
      /\ Named \subseteq DiskNamed
      /\ Mirrors(directory, diskDirectory, Named, saved)
      /\ diskDirectory[Free].sector = directory[Free].sector
      /\ Behind(DiskNamed, directory[Free].sector, c)
  BY QuietParts DEF IInv
<1>4. /\ \A i \in DiskNamed' : File(sector', diskDirectory'[i], c[i], 0,
                                    saved'[diskDirectory'[i].name])
      /\ Mirrors(directory', diskDirectory', Named', saved')
      /\ Linked(sector', directory'[Free].sector, c[Free], 0)
      /\ Behind(DiskNamed', directory'[Free].sector, c)
  BY <1>1, <1>2, <1>3
<1>5. QED
  BY <1>1, <1>2, <1>3, <1>4, QuietStructure DEF Weak

LEMMA WOpenStructured ==
  ASSUME IInv, NEW n \in Names, eFile_WOpen(n), Weak', NEW c \in Ghosts, Structure(c)
  PROVE  Structure(c)'
<1>1. /\ ~damaged /\ call = "none" /\ WriterCount = 0
      /\ UNCHANGED <<disk, directory, file_position, ReaderCount, WriterCount, saved>>
  BY DEF eFile_WOpen, Prompt
<1>2. PICK i \in Slot(n) :
        /\ current_file' = i
        /\ \/ /\ current_sector' = sector[directory[i].sector]
              /\ last_sector_open' = directory[i].sector
              /\ Goto("walk")
           \/ Goto("none") /\ UNCHANGED <<current_sector, last_sector_open>>
  BY Zenon DEF eFile_WOpen
<1>3. ~Creating /\ ~Creating'
  BY <1>1, <1>2 DEF Creating, Goto
<1>4. i \in Named
  BY <1>1, OpenSectors
<1>5. directory[i].sector \in Of(c[i])
  <2>1. /\ File(sector, diskDirectory[i], c[i], 0, saved[diskDirectory[i].name])
        /\ directory[i].sector = diskDirectory[i].sector
    BY <1>1, <1>3, <1>4, QuietParts DEF IInv, Mirrors
  <2>2. QED
    BY <2>1, FileFirst
<1>6. WalkingRight(c)'
  <2>1. Named' = Named /\ sector' = sector
    BY <1>1 DEF Named, disk
  <2>2. QED
    BY <1>2, <1>4, <1>5, <2>1 DEF WalkingRight, Goto
<1>7. WriterCount' = 0 /\ UNCHANGED <<disk, directory, saved>>
  BY <1>1
<1>8. QED
  BY <1>1, <1>3, <1>6, <1>7, UnmovedStructured

LEMMA ReadsStructured ==
  ASSUME IInv, ReadNext \/ eFile_RClose \/ \E n \in Names : eFile_ROpen(n),
         Weak', NEW c \in Ghosts, Structure(c)
  PROVE  Structure(c)'
<1>1. /\ call \in {"none", "read", "end of read"} /\ call' \in {"none", "read", "end of read"}
      /\ (call = "none" => WriterCount = 0)
      /\ UNCHANGED <<disk, directory, saved>> /\ WriterCount' = WriterCount
  <2>1. CASE ReadNext
    BY <2>1 DEF ReadNext, Goto
  <2>2. CASE eFile_RClose
    BY <2>2 DEF eFile_RClose, Goto
  <2>3. CASE \E n \in Names : eFile_ROpen(n)
    BY <2>3 DEF eFile_ROpen, Prompt, Goto
  <2>4. QED
    BY <2>1, <2>2, <2>3
<1>2. WriterCount = 0
  BY <1>1 DEF IInv, Control, Types, Reading, Writing, Linking
<1>3. ~Creating /\ ~Creating' /\ WalkingRight(c)'
  BY <1>1 DEF Creating, WalkingRight
<1>4. WriterCount' = 0 /\ UNCHANGED <<disk, directory, saved>>
  BY <1>1, <1>2
<1>5. QED
  BY <1>2, <1>3, <1>4, UnmovedStructured

-----------------------------------------------------------------------------
(* The chains after a step that leaves a file to be written.               *)
LEMMA BusyStructure ==
  ASSUME NEW c \in Ghosts, Control', Writing',
         current_file' \in DiskNamed',
         File(sector', diskDirectory'[current_file'], c[current_file'], Leads',
              saved'[diskDirectory'[current_file'].name] - Unwritten'),
         \A i \in DiskNamed' :
           i # current_file' => File(sector', diskDirectory'[i], c[i], 0,
                                     saved'[diskDirectory'[i].name]),
         Linked(sector', directory'[Free].sector, c[Free], 0),
         Apart(DiskNamed', c), Once(diskDirectory', DiskNamed'),
         Named' \subseteq DiskNamed',
         Mirrors(directory', diskDirectory', Named', saved'),
         diskDirectory'[Free].sector = directory'[Free].sector,
         Behind(DiskNamed', directory'[Free].sector, c),
         WritingRight(c)'
  PROVE  Structure(c)'
<1>1. ~Creating' /\ call' # "walk"
  BY DEF Writing, Linking, Creating
<1>2. New' = {}
  BY <1>1 DEF New
<1>3. DiskNamed' = DiskNamed'
  BY <1>1 DEF DiskNamed
<1>4. FreeHead' = directory'[Free].sector
  BY <1>1 DEF FreeHead, Creating
<1>5. Extended' = current_file'
  BY DEF Extended, Control
<1>6. Files(sector, diskDirectory, DiskNamed, Extended, Leads, Unwritten, saved, c)'
  BY <1>3, <1>5, BusyFiles
<1>7. Once(directory, Named)'
  <2>1. SUFFICES ASSUME NEW i \in Named', NEW j \in Named',
                        directory'[i].name = directory'[j].name
                 PROVE  i = j
    BY DEF Once
  <2>2. diskDirectory'[i].name = diskDirectory'[j].name /\ i \in DiskNamed' /\ j \in DiskNamed'
    BY <2>1 DEF Mirrors
  <2>3. QED
    BY <2>2 DEF Once
<1>8. (Named \subseteq DiskNamed \cup New)' /\ (Named \ New)' = Named'
  BY <1>2, <1>3
<1>9. CreatingRight(c)' /\ WalkingRight(c)'
  BY <1>1 DEF CreatingRight, WalkingRight
<1>10. Mirrors(directory, diskDirectory, Named \ New, saved)'
  BY <1>8
<1>11. Apart(DiskNamed, c)' /\ Once(diskDirectory, DiskNamed)'
  BY <1>3
<1>12. Linked(sector, FreeHead, c[Free], 0)'
  BY <1>4
<1>13. QED
  BY <1>6, <1>7, <1>8, <1>9, <1>10, <1>11, <1>12 DEF Structure

LEMMA BusyParts ==
  ASSUME Types, Control, NEW c \in Ghosts, Structure(c), Writing
  PROVE  /\ FreeHead = directory[Free].sector
         /\ Linked(sector, directory[Free].sector, c[Free], 0)
         /\ Apart(DiskNamed, c) /\ Once(diskDirectory, DiskNamed)
         /\ Named \subseteq DiskNamed
         /\ Mirrors(directory, diskDirectory, Named, saved)
         /\ diskDirectory[Free].sector = directory[Free].sector
         /\ Behind(DiskNamed, directory[Free].sector, c)
<1>1. ~Creating /\ New = {}
  BY Busy
<1>2. FreeHead = directory[Free].sector /\ Named \ New = Named
  BY <1>1 DEF FreeHead, Creating
<1>3. Linked(sector, directory[Free].sector, c[Free], 0) /\ Named \subseteq DiskNamed
  BY <1>1, <1>2 DEF Structure
<1>4. Apart(DiskNamed, c) /\ Once(diskDirectory, DiskNamed)
  BY <1>1 DEF Structure
<1>5. Mirrors(directory, diskDirectory, Named, saved)
  BY <1>2 DEF Structure
<1>6. /\ diskDirectory[Free].sector = directory[Free].sector
      /\ Behind(DiskNamed, directory[Free].sector, c)
  BY DEF Structure
<1>7. QED
  BY <1>1, <1>2, <1>3, <1>4, <1>5, <1>6

(* With what is in current_sector in its last sector, the file is complete. *)
LEMMA LastWritten ==
  ASSUME Types, Control, NEW c \in Ghosts, Structure(c), Writing,
         NEW b \in Blocks, b.data = current_sector.data
  PROVE  File([sector EXCEPT ![last_sector_open] = b], diskDirectory[current_file],
              c[current_file], b.next, saved[Writer])
<1> DEFINE ent == diskDirectory[current_file]
           q   == c[current_file]
           k   == saved[Writer] - Unwritten
           m   == Len(current_sector.data)
           l   == Len(sector[last_sector_open].data)
<1>1. /\ ent.name = Writer /\ last_sector_open = q[Len(q)] /\ last_sector_open \in Sectors
      /\ Unwritten = m - l /\ saved[Writer] \in Nat
      /\ current_file \in 0..Free
      /\ File(sector, ent, q, Leads, k)
  BY Busy
<1>2. /\ ent.name # NoName /\ Linked(sector, ent.sector, q, Leads)
      /\ Stored(sector, q, ent.name, k) /\ ent.size <= k
  BY <1>1 DEF File
<1>3. /\ b.data \in Seq({ent.name}) /\ Len(b.data) <= MAX_SECTOR_DATA /\ l <= m
  BY <1>1 DEF Structure, WritingRight
<1>4. m \in Nat /\ l \in Nat /\ sector \in Disks
  <2>1. current_sector \in Blocks /\ sector[last_sector_open] \in Blocks
    BY <1>1 DEF Types, Disks
  <2>2. QED
    BY <2>1, BlockTypes DEF Types
<1>5. ent.size \in Int
  BY <1>1, EntryTypes DEF Types
<1>6. Len(sector[q[Len(q)]].data) = l /\ Len(b.data) = m /\ k = saved[Writer] - (m - l)
  BY <1>1
<1>7. Len(q) > 0
  BY <1>2 DEF Stored
<1> HIDE DEF ent, q, k, m, l
<1>8. k - Len(sector[q[Len(q)]].data) + Len(b.data) = saved[Writer] /\ k <= saved[Writer]
  <2>1. saved[Writer] \in Nat
    BY <1>1
  <2>2. QED
    BY ONLY <1>3, <1>4, <1>6, <2>1
<1>9. Linked([sector EXCEPT ![q[Len(q)]] = b], ent.sector, q, b.next)
  BY <1>2, <1>4, <1>7, LinkedLast
<1>10. Stored([sector EXCEPT ![q[Len(q)]] = b], q, ent.name,
              k - Len(sector[q[Len(q)]].data) + Len(b.data))
  BY <1>2, <1>3, <1>4, StoredLast
<1>11. ent.size <= saved[Writer]
  <2>1. k \in Int
    BY <1>1, <1>4, <1>6
  <2>2. saved[Writer] \in Int
    BY <1>1
  <2>3. QED
    BY ONLY <1>2, <1>5, <1>8, <2>1, <2>2
<1>12. File([sector EXCEPT ![last_sector_open] = b], ent, q, b.next, saved[Writer])
  BY <1>1, <1>2, <1>8, <1>9, <1>10, <1>11 DEF File
<1>13. QED
  BY <1>12 DEF ent, q

(* eFile_WOpen goes along the chain, and opens the file at its end. *)
LEMMA WalkStructured ==
  ASSUME IInv, WOpenWalk, Weak', NEW c \in Ghosts, Structure(c)
  PROVE  Structure(c)'
<1>1. /\ call = "walk" /\ call' \in {"walk", "none", "write"} /\ ~Creating /\ ~Creating'
      /\ UNCHANGED <<disk, directory, current_file, saved>>
  BY DEF WOpenWalk, Goto, Creating
<1>2. WriterCount = 0
  BY <1>1 DEF IInv, Control, Types, Writing, Linking, Reading
<1>3. UNCHANGED <<diskDirectory, sector, directory, saved, current_file>>
  BY <1>1 DEF disk
<1>4. /\ current_file \in Named /\ last_sector_open \in Of(c[current_file])
      /\ current_sector = sector[last_sector_open]
  BY <1>1 DEF Structure, WalkingRight
<1>5. /\ \A i \in DiskNamed : /\ i \in Slots
                              /\ File(sector, diskDirectory[i], c[i], 0,
                                      saved[diskDirectory[i].name])
                              /\ diskDirectory[i].name \in Names
                              /\ saved[diskDirectory[i].name] \in Nat
      /\ Linked(sector, directory[Free].sector, c[Free], 0)
      /\ Apart(DiskNamed, c) /\ Once(diskDirectory, DiskNamed)
      /\ Named \subseteq DiskNamed
      /\ Mirrors(directory, diskDirectory, Named, saved)
      /\ diskDirectory[Free].sector = directory[Free].sector
      /\ Behind(DiskNamed, directory[Free].sector, c)
  BY <1>1, <1>2, QuietParts DEF IInv
<1>6. /\ current_file \in DiskNamed
      /\ File(sector, diskDirectory[current_file], c[current_file], 0,
              saved[diskDirectory[current_file].name])
  BY <1>4, <1>5
<1>7. Linked(sector, diskDirectory[current_file].sector, c[current_file], 0)
  BY <1>6 DEF File
<1>8. IF sector[last_sector_open].next = 0
      THEN last_sector_open = c[current_file][Len(c[current_file])]
      ELSE sector[last_sector_open].next \in Of(c[current_file])
  BY <1>4, <1>7, LinkedNext
<1>9. Named' = Named /\ DiskNamed' = DiskNamed
  BY <1>3 DEF Named, DiskNamed
<1>10. CASE current_sector.next # 0
  <2>1. /\ WriterCount' = WriterCount
        /\ \/ /\ current_sector' = sector[current_sector.next]
              /\ last_sector_open' = current_sector.next
           \/ call' = "none"
    BY <1>10 DEF WOpenWalk, Goto
  <2>2. WalkingRight(c)'
    BY <1>3, <1>4, <1>8, <1>9, <1>10, <2>1 DEF WalkingRight
  <2>3. WriterCount' = 0 /\ UNCHANGED <<disk, directory, saved>>
    BY <1>1, <1>2, <2>1
  <2>4. QED
    BY <1>1, <1>2, <2>2, <2>3, UnmovedStructured
<1>11. CASE current_sector.next = 0
  <2>1. /\ WriterCount' = 1 /\ call' = "write"
        /\ UNCHANGED <<current_sector, last_sector_open>>
    BY <1>11 DEF WOpenWalk, Goto
  <2>2. Writing' /\ ~Linking' /\ Leads' = 0
    BY <2>1 DEF Writing, Linking, Leads
  <2>3. last_sector_open = c[current_file][Len(c[current_file])]
    BY <1>4, <1>8, <1>11
  <2>4. Len(c[current_file]) \in Nat /\ Len(c[current_file]) > 0
    BY <1>6, FileFirst
  <2>5. directory[current_file].name = diskDirectory[current_file].name
    BY <1>4, <1>5 DEF Mirrors
  <2>6. /\ current_sector.data \in Seq({diskDirectory[current_file].name})
        /\ Len(current_sector.data) <= MAX_SECTOR_DATA
    <3>1. Stored(sector, c[current_file], diskDirectory[current_file].name,
                 saved[diskDirectory[current_file].name])
      BY <1>6 DEF File
    <3>2. Len(c[current_file]) \in 1..Len(c[current_file])
      BY <2>4
    <3>3. QED
      BY <1>4, <2>3, <3>1, <3>2 DEF Stored
  <2>7. Len(current_sector.data) \in Nat
    BY <2>6
  <2>8. Writer' = diskDirectory[current_file].name
    BY <1>3, <2>5 DEF Writer
  <2>9. WritingRight(c)'
    <3>1. current_file' \in Named'
      BY <1>3, <1>4, <1>9
    <3>2. last_sector_open' = c[current_file'][Len(c[current_file'])]
      BY <1>3, <2>1, <2>3
    <3>3. current_sector'.data \in Seq({Writer'}) /\ current_sector'.next = Leads'
      BY <1>11, <2>1, <2>2, <2>6, <2>8
    <3>4. /\ Len(sector'[last_sector_open'].data) <= Len(current_sector'.data)
          /\ Len(current_sector'.data) <= MAX_SECTOR_DATA
      BY <1>3, <1>4, <2>1, <2>6, <2>7
    <3>5. call' # "write directory" /\ call' # "write sector"
      BY <2>1
    <3>6. QED
      BY <2>2, <3>1, <3>2, <3>3, <3>4, <3>5 DEF WritingRight
  <2>10. Unwritten' = 0
    BY <1>3, <1>4, <2>1, <2>7 DEF Unwritten
  <2>11. saved[diskDirectory[current_file].name] - 0 = saved[diskDirectory[current_file].name]
    BY <1>5, <1>6
  <2>12. File(sector', diskDirectory'[current_file'], c[current_file'], Leads',
              saved'[diskDirectory'[current_file'].name] - Unwritten')
    BY <1>3, <1>6, <2>2, <2>10, <2>11
  <2>13. \A i \in DiskNamed' :
           i # current_file' => File(sector', diskDirectory'[i], c[i], 0,
                                     saved'[diskDirectory'[i].name])
    BY <1>3, <1>5, <1>9
  <2>14. /\ Linked(sector', directory'[Free].sector, c[Free], 0)
         /\ Behind(DiskNamed', directory'[Free].sector, c)
    BY <1>3, <1>5, <1>9
  <2>15. Mirrors(directory', diskDirectory', Named', saved')
    BY <1>3, <1>5, <1>9
  <2>16. current_file' \in DiskNamed' /\ Control'
    BY <1>3, <1>6, <1>9 DEF Weak
  <2>17. QED
    BY <1>3, <1>5, <1>9, <2>2, <2>9, <2>12, <2>13, <2>14, <2>15, <2>16, BusyStructure
<1>12. QED
  BY <1>10, <1>11

-----------------------------------------------------------------------------
(* An accepted byte counts in the entry in RAM and in saved. *)
LEMMA OneMoreMirrors ==
  ASSUME Types, Control, NEW c \in Ghosts, Structure(c), Writing,
         directory' = OneByteMore(directory), saved' = [saved EXCEPT ![Writer] = @ + 1],
         diskDirectory' = diskDirectory, current_file' = current_file
  PROVE  Mirrors(directory', diskDirectory', Named', saved')
<1>1. /\ current_file \in Slots /\ current_file \in 0..Free
      /\ Writer \in Names /\ diskDirectory[current_file].name = Writer
      /\ saved[Writer] \in Nat
  BY Busy
<1>2. Mirrors(directory, diskDirectory, Named, saved)
      /\ Named \subseteq DiskNamed
  BY BusyParts
<1>3. /\ directory'[current_file].name = directory[current_file].name
      /\ directory'[current_file].sector = directory[current_file].sector
      /\ directory'[current_file].size = directory[current_file].size + 1
      /\ \A i \in 0..Free : i # current_file => directory'[i] = directory[i]
  BY <1>1, OneByteMoreIs DEF Types
<1>4. saved'[Writer] = saved[Writer] + 1 /\ \A m \in Names : m # Writer => saved'[m] = saved[m]
  BY <1>1, OneByteSaved DEF Types
<1>5. Named' = Named
  <2>1. \A i \in Slots : directory'[i].name = directory[i].name
    BY <1>3, Ranges
  <2>2. QED
    BY <2>1 DEF Named
<1>6. ASSUME NEW i \in Named
      PROVE  /\ directory'[i].name = diskDirectory[i].name
             /\ directory'[i].sector = diskDirectory[i].sector
             /\ diskDirectory[i].size <= directory'[i].size
             /\ directory'[i].size <= saved'[directory'[i].name]
  <2>1. /\ directory[i].name = diskDirectory[i].name
        /\ directory[i].sector = diskDirectory[i].sector
        /\ diskDirectory[i].size <= directory[i].size
        /\ directory[i].size <= saved[directory[i].name]
    BY <1>2 DEF Mirrors
  <2>2. i \in 0..Free /\ i \in Slots
    BY Ranges DEF Named
  <2>3. CASE i = current_file
    <3> DEFINE a == diskDirectory[i].size
               b == directory[i].size
               k == saved[Writer]
    <3>1. a \in Int /\ b \in Int
      BY <2>2, EntryTypes DEF Types
    <3>2. directory[i].name = Writer
      BY <2>3 DEF Writer
    <3>3. /\ directory'[i].name = directory[i].name
          /\ directory'[i].sector = directory[i].sector
          /\ directory'[i].size = b + 1
          /\ saved'[directory'[i].name] = k + 1
      BY <1>3, <1>4, <2>3, <3>2
    <3>4. a <= b /\ b <= k /\ k \in Nat
      BY <1>1, <2>1, <3>2
    <3> HIDE DEF a, b, k
    <3>5. a <= b + 1 /\ b + 1 <= k + 1
      BY ONLY <3>1, <3>4
    <3>6. QED
      BY <2>1, <3>3, <3>5 DEF a
  <2>4. CASE i # current_file
    <3>1. directory'[i] = directory[i]
      BY <1>3, <2>2, <2>4
    <3>2. diskDirectory[i].name # Writer
      BY <1>2, <2>4, Others
    <3>3. directory[i].name \in Names
      BY <2>2, EntryTypes DEF Named, Types
    <3>4. saved'[directory[i].name] = saved[directory[i].name]
      BY <1>4, <2>1, <3>2, <3>3
    <3>5. QED
      BY <2>1, <3>1, <3>4
  <2>5. QED
    BY <2>3, <2>4
<1>7. QED
  BY <1>5, <1>6 DEF Mirrors

(* eFile_Write puts a byte into the open sector. *)
LEMMA ByteStructured ==
  ASSUME IInv, WriteByte, Weak', NEW c \in Ghosts, Structure(c)
  PROVE  Structure(c)'
<1>1. /\ call = "write" /\ ~damaged /\ HasRoom
      /\ current_sector' = [current_sector EXCEPT !.data = Append(@, Writer)]
      /\ directory' = OneByteMore(directory)
      /\ saved' = [saved EXCEPT ![Writer] = @ + 1]
      /\ UNCHANGED <<disk, current_file, last_sector_open, WriterCount, call>>
  BY DEF WriteByte
<1>2. UNCHANGED <<diskDirectory, sector, current_file, last_sector_open, WriterCount, call>>
  BY <1>1 DEF disk
<1>3. Writing /\ Writing' /\ ~Linking /\ ~Linking' /\ Leads = 0 /\ Leads' = 0
  BY <1>1, <1>2 DEF Writing, Linking, Leads
<1>4. /\ Linked(sector, directory[Free].sector, c[Free], 0)
      /\ Apart(DiskNamed, c) /\ Once(diskDirectory, DiskNamed)
      /\ Named \subseteq DiskNamed
      /\ Mirrors(directory, diskDirectory, Named, saved)
      /\ diskDirectory[Free].sector = directory[Free].sector
      /\ Behind(DiskNamed, directory[Free].sector, c)
  BY <1>3, BusyParts DEF IInv
<1>5. /\ WriterCount = 1
      /\ Unwritten = Len(current_sector.data) - Len(sector[last_sector_open].data)
      /\ current_file \in Slots /\ current_file \in Named /\ current_file \in DiskNamed
      /\ Writer \in Names /\ diskDirectory[current_file].name = Writer
      /\ last_sector_open \in Sectors
      /\ last_sector_open = c[current_file][Len(c[current_file])]
      /\ saved[Writer] \in Nat
      /\ File(sector, diskDirectory[current_file], c[current_file], 0,
              saved[Writer] - Unwritten)
  BY <1>3, <1>4, Busy DEF IInv
<1>6. /\ current_sector.data \in Seq({Writer}) /\ current_sector.next = 0
      /\ Len(sector[last_sector_open].data) <= Len(current_sector.data)
  BY <1>3 DEF Structure, WritingRight
<1>7. /\ current_sector'.next = 0
      /\ Len(current_sector'.data) = Len(current_sector.data) + 1
      /\ current_sector'.data \in Seq({Writer})
  <2>1. current_sector \in Blocks
    BY DEF IInv, Types
  <2>2. /\ current_sector'.next = current_sector.next
        /\ Len(current_sector'.data) = Len(current_sector.data) + 1
        /\ current_sector'.data = Append(current_sector.data, Writer)
        /\ (current_sector.data \in Seq({Writer})
              => Append(current_sector.data, Writer) \in Seq({Writer}))
    BY <1>1, <1>5, <2>1, ByteAppended
  <2>3. QED
    BY <1>6, <2>2
<1>8. /\ directory'[current_file].name = directory[current_file].name
      /\ directory'[current_file].sector = directory[current_file].sector
      /\ directory'[current_file].size = directory[current_file].size + 1
      /\ \A i \in 0..Free : i # current_file => directory'[i] = directory[i]
  BY <1>1, <1>5, OneByteMoreIs DEF IInv, Types
<1>9. saved'[Writer] = saved[Writer] + 1 /\ \A m \in Names : m # Writer => saved'[m] = saved[m]
  BY <1>1, <1>5, OneByteSaved DEF IInv, Types
<1>10. Writer' = Writer
  BY <1>2, <1>8 DEF Writer
<1>11. Named' = Named /\ DiskNamed' = DiskNamed
  <2>1. \A i \in Slots : directory'[i].name = directory[i].name
    BY <1>8, Ranges
  <2>2. QED
    BY <1>2, <2>1 DEF Named, DiskNamed
<1>12. /\ Len(sector[last_sector_open].data) \in Nat /\ Len(current_sector.data) \in Nat
       /\ Len(current_sector.data) < MAX_SECTOR_DATA
  <2>1. sector[last_sector_open] \in Blocks /\ current_sector \in Blocks
    BY <1>5 DEF IInv, Types, Disks
  <2>2. QED
    BY <1>1, <2>1, BlockTypes DEF HasRoom
<1>13. saved'[Writer] - Unwritten' = saved[Writer] - Unwritten
  <2>1. Unwritten' = Len(current_sector.data) + 1 - Len(sector[last_sector_open].data)
    BY <1>2, <1>5, <1>7 DEF Unwritten
  <2>2. saved'[Writer] = saved[Writer] + 1 /\ saved[Writer] \in Nat
    BY <1>5, <1>9
  <2>3. Unwritten = Len(current_sector.data) - Len(sector[last_sector_open].data)
    BY <1>5
  <2>4. Len(sector[last_sector_open].data) \in Nat /\ Len(current_sector.data) \in Nat
    BY <1>12
  <2> DEFINE m == Len(current_sector.data)
             l == Len(sector[last_sector_open].data)
             a == saved[Writer]
             b == saved'[Writer]
  <2>5. b = a + 1 /\ a \in Nat /\ m \in Nat /\ l \in Nat
    BY <2>2, <2>4
  <2>6. Unwritten' = m + 1 - l /\ Unwritten = m - l
    BY <2>1, <2>3
  <2> HIDE DEF m, l, a, b
  <2>7. b - Unwritten' = a - Unwritten
    BY ONLY <2>5, <2>6
  <2>8. QED
    BY ONLY <2>7 DEF a, b
<1>14. File(sector', diskDirectory'[current_file'], c[current_file'], Leads',
            saved'[diskDirectory'[current_file'].name] - Unwritten')
  BY <1>2, <1>3, <1>5, <1>13
<1>15. ASSUME NEW i \in DiskNamed, i # current_file
       PROVE  File(sector, diskDirectory[i], c[i], 0, saved'[diskDirectory[i].name])
  <2>1. /\ File(sector, diskDirectory[i], c[i], 0, saved[diskDirectory[i].name])
        /\ diskDirectory[i].name \in Names /\ diskDirectory[i].name # Writer
    BY <1>3, <1>4, <1>15, Others DEF IInv
  <2>2. QED
    BY <1>9, <2>1
<1>16. Mirrors(directory', diskDirectory', Named', saved')
  BY <1>1, <1>2, <1>3, OneMoreMirrors DEF IInv
<1>17. directory'[Free] = directory[Free]
  BY <1>5, <1>8, Ranges
<1>18. WritingRight(c)'
  <2>1. current_file' \in Named' /\ last_sector_open' = c[current_file'][Len(c[current_file'])]
    BY <1>2, <1>5, <1>11
  <2>2. current_sector'.data \in Seq({Writer'}) /\ current_sector'.next = Leads'
    BY <1>3, <1>7, <1>10
  <2>3. /\ Len(sector'[last_sector_open'].data) <= Len(current_sector'.data)
        /\ Len(current_sector'.data) <= MAX_SECTOR_DATA
    BY <1>2, <1>6, <1>7, <1>12, Sizes
  <2>4. call' # "write directory" /\ call' # "write sector"
    BY <1>1
  <2>5. QED
    BY <1>3, <2>1, <2>2, <2>3, <2>4 DEF WritingRight
<1>19. /\ Linked(sector', directory'[Free].sector, c[Free], 0)
       /\ Behind(DiskNamed', directory'[Free].sector, c)
  BY <1>2, <1>4, <1>11, <1>17
<1>20. \A i \in DiskNamed' :
         i # current_file' => File(sector', diskDirectory'[i], c[i], 0,
                                   saved'[diskDirectory'[i].name])
  BY <1>2, <1>11, <1>15
<1>21. current_file' \in DiskNamed' /\ Control'
  BY <1>2, <1>5, <1>11 DEF Weak
<1>22. QED
  BY <1>2, <1>3, <1>4, <1>11, <1>14, <1>16, <1>17, <1>18, <1>19, <1>20, <1>21, BusyStructure

(* It links the first free sector to a full one. *)
LEMMA LinkStructured ==
  ASSUME IInv, WriteLink, Weak', Followed', NEW c \in Ghosts, Structure(c)
  PROVE  Structure(c)'
<1> DEFINE f == directory[Free].sector
           q == c[current_file]
<1>1. /\ call = "write" /\ ~damaged /\ ~HasRoom
      /\ current_sector' = [current_sector EXCEPT !.next = f]
      /\ f # 0
      /\ sector' = [sector EXCEPT ![last_sector_open] = current_sector']
      /\ call' = "write directory"
      /\ UNCHANGED <<diskDirectory, directory, current_file, last_sector_open, WriterCount,
                     saved>>
  BY DEF WriteLink, CutShort, Followed, Goto
<1>2. Writing /\ Writing' /\ ~Linking /\ Linking' /\ Leads = 0 /\ Leads' = current_sector'.next
  BY <1>1 DEF Writing, Linking, Leads
<1>3. /\ Linked(sector, f, c[Free], 0)
      /\ Apart(DiskNamed, c) /\ Once(diskDirectory, DiskNamed)
      /\ Named \subseteq DiskNamed
      /\ Mirrors(directory, diskDirectory, Named, saved)
      /\ diskDirectory[Free].sector = directory[Free].sector
      /\ Behind(DiskNamed, directory[Free].sector, c)
      /\ FreeHead = f
  BY <1>2, BusyParts DEF IInv
<1>4. /\ WriterCount = 1
      /\ Unwritten = Len(current_sector.data) - Len(sector[last_sector_open].data)
      /\ current_file \in Slots /\ current_file \in Named /\ current_file \in DiskNamed
      /\ Writer \in Names /\ diskDirectory[current_file].name = Writer
      /\ last_sector_open \in Sectors
      /\ last_sector_open = q[Len(q)] /\ last_sector_open \in Of(q)
      /\ saved[Writer] \in Nat
      /\ File(sector, diskDirectory[current_file], q, 0, saved[Writer] - Unwritten)
  BY <1>2, <1>3, Busy DEF IInv
<1>5. /\ current_sector.data \in Seq({Writer})
      /\ Len(current_sector.data) <= MAX_SECTOR_DATA
  BY <1>2 DEF Structure, WritingRight
<1>6. /\ current_sector \in Blocks /\ current_sector' \in Blocks
      /\ sector \in Disks /\ sector[last_sector_open] \in Blocks
  BY <1>4 DEF IInv, Weak, Types, Disks
<1>7. /\ Len(current_sector.data) \in Nat /\ Len(sector[last_sector_open].data) \in Nat
      /\ Len(current_sector.data) = MAX_SECTOR_DATA
  <2>1. Len(current_sector.data) \in Nat /\ Len(sector[last_sector_open].data) \in Nat
    BY <1>6, BlockTypes
  <2>2. ~(Len(current_sector.data) < MAX_SECTOR_DATA)
    BY <1>1 DEF HasRoom
  <2>3. Len(current_sector.data) <= MAX_SECTOR_DATA /\ MAX_SECTOR_DATA \in Nat
    BY <1>5, Sizes
  <2>4. QED
    BY ONLY <2>1, <2>2, <2>3
<1>8. current_sector'.next = f /\ current_sector'.data = current_sector.data
  <2>1. f \in 0..OUTSIDE
    BY Ranges, EntryTypes DEF IInv, Types
  <2>2. QED
    BY <1>1, <1>6, <2>1, NextSet
<1>9. sector'[last_sector_open] = current_sector'
  BY <1>1, <1>4, <1>6 DEF Disks
<1>10. \A t \in Sectors : t # last_sector_open => sector'[t] = sector[t]
  BY <1>1, <1>4, <1>6 DEF Disks
<1>11. Named' = Named /\ DiskNamed' = DiskNamed /\ Writer' = Writer
  BY <1>1 DEF Named, DiskNamed, Writer
<1>12. Unwritten' = 0
  <2>1. Unwritten' = Len(current_sector'.data) - Len(sector'[last_sector_open].data)
    BY <1>1, <1>4 DEF Unwritten
  <2>2. Unwritten' = Len(current_sector.data) - Len(current_sector.data)
    BY <1>8, <1>9, <2>1
  <2>3. QED
    BY ONLY <1>7, <2>2
<1> HIDE DEF q
<1>13. File(sector', diskDirectory[current_file], q, f, saved[Writer])
  <2>1. File([sector EXCEPT ![last_sector_open] = current_sector'], diskDirectory[current_file],
             c[current_file], current_sector'.next, saved[Writer])
    BY <1>2, <1>6, <1>8, LastWritten DEF IInv
  <2>2. QED
    BY <1>1, <1>8, <2>1 DEF q
<1>14. ASSUME NEW i \in DiskNamed, i # current_file
       PROVE  File(sector', diskDirectory[i], c[i], 0, saved[diskDirectory[i].name])
  <2>1. /\ File(sector, diskDirectory[i], c[i], 0, saved[diskDirectory[i].name])
        /\ last_sector_open \notin Of(c[i])
    BY <1>2, <1>3, <1>14, Others DEF IInv
  <2>2. Of(c[i]) \subseteq Sectors
    BY <2>1, FileFirst
  <2>3. \A t \in Of(c[i]) : sector'[t] = sector[t]
    BY <1>10, <2>1, <2>2
  <2>4. QED
    BY <2>1, <2>3, FileFrame
<1>15. Linked(sector', f, c[Free], 0)
  <2>1. Of(q) \cap Of(c[Free]) = {}
    BY <1>3, <1>4, FreeApart DEF q
  <2>2. last_sector_open \notin Of(c[Free])
    BY <1>4, <2>1
  <2>3. Of(c[Free]) \subseteq Sectors
    BY <1>3, LinkedIn
  <2>4. \A t \in Of(c[Free]) : sector'[t].next = sector[t].next
    BY <1>10, <2>2, <2>3
  <2>5. QED
    BY <1>3, <2>4, LinkedFrame
<1>16. File(sector', diskDirectory'[current_file'], c[current_file'], Leads',
            saved'[diskDirectory'[current_file'].name] - Unwritten')
  <2>1. saved[Writer] - 0 = saved[Writer]
    BY <1>4
  <2>2. QED
    BY <1>1, <1>2, <1>4, <1>8, <1>12, <1>13, <2>1 DEF q
<1>17. WritingRight(c)'
  <2>1. current_file' \in Named' /\ last_sector_open' = c[current_file'][Len(c[current_file'])]
    BY <1>1, <1>4, <1>11 DEF q
  <2>2. current_sector'.data \in Seq({Writer'}) /\ current_sector'.next = Leads'
    BY <1>2, <1>5, <1>8, <1>11
  <2>3. /\ Len(sector'[last_sector_open'].data) <= Len(current_sector'.data)
        /\ Len(current_sector'.data) <= MAX_SECTOR_DATA
    <3>1. /\ Len(sector'[last_sector_open'].data) = Len(current_sector.data)
          /\ Len(current_sector'.data) = Len(current_sector.data)
      BY <1>1, <1>8, <1>9
    <3>2. QED
      BY ONLY <1>7, <3>1
  <2>4. /\ current_sector' = sector'[last_sector_open']
        /\ Len(current_sector'.data) = MAX_SECTOR_DATA
        /\ current_sector'.next # 0
        /\ current_sector'.next = directory'[Free].sector
        /\ call' # "write sector"
    BY <1>1, <1>7, <1>8, <1>9
  <2>5. QED
    BY <2>1, <2>2, <2>3, <2>4 DEF WritingRight
<1>18. current_file' \in DiskNamed' /\ Control'
  BY <1>1, <1>4, <1>11 DEF Weak
<1>19. \A i \in DiskNamed' :
         i # current_file' => File(sector', diskDirectory'[i], c[i], 0,
                                   saved'[diskDirectory'[i].name])
  BY <1>1, <1>11, <1>14
<1>20. Mirrors(directory', diskDirectory', Named', saved')
  BY <1>1, <1>3, <1>11
<1>21. /\ Linked(sector', directory'[Free].sector, c[Free], 0)
       /\ Behind(DiskNamed', directory'[Free].sector, c)
  BY <1>1, <1>3, <1>11, <1>15
<1>22. QED
  BY <1>1, <1>2, <1>3, <1>11, <1>16, <1>17, <1>18, <1>19, <1>20, <1>21, BusyStructure

(* While a sector is linked to a file, all bytes of the file are on the disk. *)
LEMMA LinkingParts ==
  ASSUME Types, Control, NEW c \in Ghosts, Structure(c), Linking
  PROVE  /\ Writing /\ Leads = current_sector.next /\ Unwritten = 0
         /\ Leads \in Sectors
         /\ current_sector.data \in Seq({Writer})
         /\ current_sector = sector[last_sector_open]
         /\ Len(current_sector.data) = MAX_SECTOR_DATA
         /\ saved[Writer] - Unwritten = saved[Writer]
         /\ File(sector, diskDirectory[current_file], c[current_file], Leads, saved[Writer])
<1>1. Writing /\ Leads = current_sector.next
  BY DEF Writing, Leads
<1>2. /\ Unwritten = Len(current_sector.data) - Len(sector[last_sector_open].data)
      /\ saved[Writer] \in Nat /\ last_sector_open \in Sectors
      /\ File(sector, diskDirectory[current_file], c[current_file], Leads,
              saved[Writer] - Unwritten)
      /\ WriterCount = 1
  BY <1>1, Busy
<1>3. /\ current_sector.data \in Seq({Writer})
      /\ current_sector = sector[last_sector_open]
      /\ Len(current_sector.data) = MAX_SECTOR_DATA
      /\ current_sector.next # 0
  BY <1>1 DEF Structure, WritingRight
<1>4. Unwritten = 0
  BY <1>2, <1>3, Sizes
<1>5. saved[Writer] - Unwritten = saved[Writer]
  <2>1. saved[Writer] - 0 = saved[Writer]
    BY <1>2
  <2>2. QED
    BY <1>4, <2>1
<1>6. current_sector.next \in Sectors
  <2>1. current_sector.next \in 0..OUTSIDE
    BY BlockTypes DEF Types
  <2>2. current_sector.next # OUTSIDE
    BY <1>2 DEF Control
  <2>3. QED
    BY <1>3, <2>1, <2>2, Ranges
<1>7. QED
  BY <1>1, <1>2, <1>3, <1>4, <1>5, <1>6

(* The directory without the sector goes to the disk. *)
LEMMA DirectoryStructured ==
  ASSUME IInv, WriteDirectory, Weak', Followed', NEW c \in Ghosts, Structure(c)
  PROVE  Structured'
<1> DEFINE f == directory[Free].sector
           q == c[current_file]
           d == [c EXCEPT ![Free] = Tail(c[Free])]
<1>1. /\ call = "write directory" /\ call' = "write sector"
      /\ directory' = FreeFrom(sector[f].next) /\ diskDirectory' = directory'
      /\ UNCHANGED <<sector, open, saved>>
  BY DEF WriteDirectory, CutShort, Followed, Goto
<1>2. /\ UNCHANGED <<sector, current_file, current_sector, last_sector_open, saved>>
      /\ WriterCount' = WriterCount
  BY <1>1 DEF open
<1>3. Writing /\ Writing' /\ Linking /\ Linking' /\ Leads' = current_sector.next
  BY <1>1, <1>2 DEF Writing, Linking, Leads
<1>4. /\ Linked(sector, f, c[Free], 0)
      /\ Apart(DiskNamed, c) /\ Once(diskDirectory, DiskNamed)
      /\ Named \subseteq DiskNamed
      /\ Mirrors(directory, diskDirectory, Named, saved)
      /\ FreeHead = f /\ Behind(DiskNamed, f, c)
  BY <1>3, BusyParts DEF IInv
<1>5. /\ current_file \in Slots /\ current_file \in Named /\ current_file \in DiskNamed
      /\ Writer \in Names /\ diskDirectory[current_file].name = Writer
      /\ last_sector_open \in Sectors /\ last_sector_open = q[Len(q)]
      /\ WriterCount = 1
  BY <1>3, <1>4, Busy DEF IInv
<1>6. /\ Leads = current_sector.next /\ Unwritten = 0 /\ current_sector.next \in Sectors
      /\ current_sector.data \in Seq({Writer})
      /\ current_sector = sector[last_sector_open]
      /\ Len(current_sector.data) = MAX_SECTOR_DATA
      /\ File(sector, diskDirectory[current_file], q, current_sector.next, saved[Writer])
  BY <1>3, LinkingParts DEF IInv
<1>7. current_sector.next = f
  BY <1>1, <1>3 DEF Structure, WritingRight
<1>8. f \in Sectors /\ f # 0
  BY <1>6, <1>7, Ranges
<1>9. /\ \A i \in DiskNamed : f \notin Of(c[i])
      /\ Linked(sector, sector[f].next, Tail(c[Free]), 0)
      /\ f \notin Of(Tail(c[Free]))
      /\ Of(Tail(c[Free])) \subseteq Of(c[Free])
      /\ Tail(c[Free]) \in Seq(Sectors)
  BY <1>4, <1>8, FreeSector1
<1>10. sector[f].next \in 0..NUM_SECTORS - 1
  <2>1. sector[f] \in Blocks /\ sector[f].next # OUTSIDE
    BY <1>8 DEF IInv, Types, Disks
  <2>2. QED
    BY <2>1, BlockTypes, Ranges
<1>11. directory'[Free].sector = sector[f].next /\ \A i \in Slots : directory'[i] = directory[i]
  BY <1>1, <1>10, FreeFromIs DEF IInv, Types
<1>12. Named' = Named /\ DiskNamed' = Named /\ Named \subseteq Slots
  BY <1>1, <1>11 DEF Named, DiskNamed
<1>13. Writer' = Writer
  BY <1>2, <1>5, <1>11 DEF Writer
<1>14. d \in Ghosts /\ d[Free] = Tail(c[Free]) /\ \A i \in Slots : d[i] = c[i]
  BY <1>9, Ranges DEF Ghosts
<1> HIDE DEF d
<1>15. ASSUME NEW i \in Named
       PROVE  /\ directory[i].name = diskDirectory[i].name
              /\ directory[i].sector = diskDirectory[i].sector
              /\ directory[i].size <= saved[directory[i].name]
              /\ directory[i].size <= directory[i].size
  <2>1. i \in 0..Free
    BY Ranges DEF Named
  <2>2. directory[i].size \in Int
    BY <2>1, EntryTypes DEF IInv, Types
  <2>3. QED
    BY <1>4, <2>2 DEF Mirrors
<1>16. Unwritten' = 0
  BY <1>2, <1>6, Sizes DEF Unwritten
<1>17. File(sector', diskDirectory'[current_file'], d[current_file'], Leads',
            saved'[diskDirectory'[current_file'].name] - Unwritten')
  <2>1. /\ diskDirectory'[current_file'] = directory[current_file]
        /\ d[current_file'] = q
    BY <1>1, <1>2, <1>5, <1>11, <1>14
  <2>2. /\ directory[current_file].name = diskDirectory[current_file].name
        /\ directory[current_file].name = Writer
        /\ directory[current_file].sector = diskDirectory[current_file].sector
        /\ directory[current_file].size <= saved[Writer]
    BY <1>5, <1>15
  <2>3. File(sector, directory[current_file], q, current_sector.next, saved[Writer])
    BY <1>6, <2>2, FileAgain
  <2>4. saved[Writer] - 0 = saved[Writer]
    BY <1>5 DEF IInv, Types
  <2>5. QED
    BY <1>2, <1>3, <1>16, <2>1, <2>2, <2>3, <2>4
<1>18. ASSUME NEW i \in Named, i # current_file
       PROVE  File(sector, directory[i], d[i], 0, saved[directory[i].name])
  <2>1. /\ File(sector, diskDirectory[i], c[i], 0, saved[diskDirectory[i].name])
    BY <1>3, <1>4, <1>18, Others DEF IInv
  <2>2. d[i] = c[i]
    BY <1>12, <1>14
  <2>3. File(sector, directory[i], c[i], 0, saved[diskDirectory[i].name])
    BY <1>15, <2>1, FileAgain
  <2>4. QED
    BY <1>15, <2>2, <2>3
<1>19. \A i \in DiskNamed' :
         i # current_file' => File(sector', diskDirectory'[i], d[i], 0,
                                   saved'[diskDirectory'[i].name])
  <2>1. \A i \in Named : diskDirectory'[i] = directory[i]
    BY <1>1, <1>11, <1>12
  <2>2. QED
    BY <1>2, <1>12, <1>18, <2>1
<1>20. Apart(DiskNamed', d)
  <2>1. SUFFICES ASSUME NEW i \in Named \cup {Free}, NEW j \in Named \cup {Free}, i # j
                 PROVE  Of(d[i]) \cap Of(d[j]) = {}
    BY <1>12 DEF Apart
  <2>2. Of(c[i]) \cap Of(c[j]) = {}
    BY <1>4, <2>1 DEF Apart
  <2>3. \A k \in Named \cup {Free} : Of(d[k]) \subseteq Of(c[k])
    BY <1>9, <1>12, <1>14
  <2>4. QED
    BY <2>2, <2>3
<1>21. Once(diskDirectory', DiskNamed')
  <2>1. Once(directory, Named)
    BY DEF Structure
  <2>2. \A i \in Named : diskDirectory'[i].name = directory[i].name
    BY <1>1, <1>11, <1>12
  <2>3. QED
    BY <1>12, <2>1, <2>2 DEF Once
<1>22. Mirrors(directory', diskDirectory', Named', saved')
  <2>1. \A i \in Named : directory'[i] = directory[i]
    BY <1>11, <1>12
  <2>2. QED
    BY <1>1, <1>2, <1>12, <1>15, <2>1 DEF Mirrors
<1>23. sector[f].next = 0 \/ f < sector[f].next
  BY <1>3, <1>8 DEF IInv, Control, Rising
<1>24. Behind(DiskNamed', directory'[Free].sector, d)
  <2>1. SUFFICES ASSUME sector[f].next # 0, NEW i \in Named, NEW t \in Of(c[i])
                 PROVE  t < sector[f].next
    BY <1>11, <1>12, <1>14 DEF Behind
  <2>2. t < f /\ f < sector[f].next
    BY <1>4, <1>8, <1>23, <2>1 DEF Behind
  <2>3. t \in Int /\ f \in Int /\ sector[f].next \in Int
    <3>1. t \in Sectors
      BY <1>12, <2>1, GhostSectors, Ranges
    <3>2. QED
      BY <1>8, <1>10, <3>1, Sizes DEF Sectors
  <2>4. QED
    BY ONLY <2>2, <2>3
<1>25. WritingRight(d)'
  <2>1. current_file' \in Named' /\ last_sector_open' = d[current_file'][Len(d[current_file'])]
    BY <1>2, <1>5, <1>12, <1>14
  <2>2. current_sector'.data \in Seq({Writer'}) /\ current_sector'.next = Leads'
    BY <1>2, <1>3, <1>6, <1>13
  <2>3. /\ Len(sector'[last_sector_open'].data) <= Len(current_sector'.data)
        /\ Len(current_sector'.data) <= MAX_SECTOR_DATA
    BY <1>2, <1>6, Sizes
  <2>4. /\ current_sector' = sector'[last_sector_open']
        /\ Len(current_sector'.data) = MAX_SECTOR_DATA
        /\ current_sector'.next # 0
        /\ call' # "write directory"
        /\ diskDirectory' = directory'
    BY <1>1, <1>2, <1>6, <1>7, <1>8
  <2>5. \A i \in DiskNamed' \cup {Free} : current_sector'.next \notin Of(d[i])
    BY <1>2, <1>4, <1>7, <1>9, <1>12, <1>14
  <2>6. directory'[Free].sector = 0 \/ current_sector'.next < directory'[Free].sector
    BY <1>2, <1>7, <1>11, <1>23
  <2>7. QED
    BY <2>1, <2>2, <2>3, <2>4, <2>5, <2>6 DEF WritingRight
<1>26. Linked(sector', directory'[Free].sector, d[Free], 0)
  BY <1>2, <1>9, <1>11, <1>14
<1>27. /\ current_file' \in DiskNamed' /\ Control' /\ Named' \subseteq DiskNamed'
       /\ diskDirectory'[Free].sector = directory'[Free].sector
  BY <1>1, <1>2, <1>5, <1>12 DEF Weak
<1>28. Structure(d)'
  BY <1>3, <1>14, <1>17, <1>19, <1>20, <1>21, <1>22, <1>24, <1>25, <1>26, <1>27,
     BusyStructure
<1>29. QED
  BY <1>14, <1>28 DEF Structured

(* The new sector is written, and the file ends there. *)
LEMMA SectorStructured ==
  ASSUME IInv, WriteSector, Weak', Followed', NEW c \in Ghosts, Structure(c)
  PROVE  Structured'
<1> DEFINE f == current_sector.next
           q == c[current_file]
           b == [next |-> 0, data |-> <<Writer>>]
<1>1. /\ call = "write sector" /\ call' = "write"
      /\ last_sector_open' = f /\ current_sector' = b
      /\ directory' = OneByteMore(directory)
      /\ sector' = [sector EXCEPT ![f] = b]
      /\ saved' = [saved EXCEPT ![Writer] = @ + 1]
      /\ UNCHANGED <<diskDirectory, current_file, WriterCount>>
  BY DEF WriteSector, CutShort, Followed, Goto
<1>2. Writing /\ Writing' /\ Linking /\ ~Linking' /\ Leads' = 0
  BY <1>1 DEF Writing, Linking, Leads
<1>3. /\ Linked(sector, directory[Free].sector, c[Free], 0)
      /\ Apart(DiskNamed, c) /\ Once(diskDirectory, DiskNamed)
      /\ Named \subseteq DiskNamed
      /\ Mirrors(directory, diskDirectory, Named, saved)
      /\ diskDirectory[Free].sector = directory[Free].sector
      /\ Behind(DiskNamed, directory[Free].sector, c)
  BY <1>2, BusyParts DEF IInv
<1>4. /\ current_file \in Slots /\ current_file \in Named /\ current_file \in DiskNamed
      /\ current_file \in 0..Free
      /\ Writer \in Names /\ diskDirectory[current_file].name = Writer
      /\ last_sector_open \in Sectors /\ last_sector_open = q[Len(q)]
      /\ WriterCount = 1 /\ saved[Writer] \in Nat
  BY <1>2, <1>3, Busy DEF IInv
<1>5. /\ f \in Sectors
      /\ current_sector = sector[last_sector_open]
      /\ Len(current_sector.data) = MAX_SECTOR_DATA
      /\ File(sector, diskDirectory[current_file], q, f, saved[Writer])
  BY <1>2, LinkingParts DEF IInv
<1>6. \A i \in DiskNamed \cup {Free} : f \notin Of(c[i])
  BY <1>1, <1>2, <1>3 DEF Structure, WritingRight
<1>7. /\ b \in Blocks /\ b.next = 0 /\ b.data = <<Writer>>
      /\ b.data \in Seq({Writer}) /\ Len(b.data) = 1
  BY <1>4, FirstByte
<1>8. sector \in Disks /\ sector' \in Disks
  BY DEF IInv, Weak, Types
<1> HIDE DEF b, f, q
<1>9. sector'[f] = b /\ \A t \in Sectors : t # f => sector'[t] = sector[t]
  BY <1>1, <1>5, <1>8 DEF Disks
<1>10. /\ directory'[current_file].name = directory[current_file].name
       /\ directory'[current_file].sector = directory[current_file].sector
       /\ directory'[current_file].size = directory[current_file].size + 1
       /\ \A i \in 0..Free : i # current_file => directory'[i] = directory[i]
  BY <1>1, <1>4, OneByteMoreIs DEF IInv, Types
<1>11. saved'[Writer] = saved[Writer] + 1 /\ \A m \in Names : m # Writer => saved'[m] = saved[m]
  BY <1>1, <1>4, OneByteSaved DEF IInv, Types
<1>12. Writer' = Writer
  BY <1>1, <1>10 DEF Writer
<1>13. Named' = Named /\ DiskNamed' = DiskNamed /\ DiskNamed \subseteq Slots
  <2>1. \A i \in Slots : directory'[i].name = directory[i].name
    BY <1>10, Ranges
  <2>2. QED
    BY <1>1, <2>1 DEF Named, DiskNamed
<1>14. directory'[Free] = directory[Free] /\ current_file # Free
  BY <1>4, <1>10, Ranges
<1>15. /\ diskDirectory[current_file].name # NoName
       /\ Linked(sector, diskDirectory[current_file].sector, q, f)
       /\ Stored(sector, q, Writer, saved[Writer])
       /\ diskDirectory[current_file].size <= saved[Writer]
       /\ f \notin Of(q)
  BY <1>4, <1>5, <1>6 DEF File, q
<1>16. /\ Linked(sector', diskDirectory[current_file].sector, Append(q, f), 0)
       /\ Of(Append(q, f)) = Of(q) \cup {f}
       /\ Len(Append(q, f)) = Len(q) + 1
       /\ Append(q, f)[Len(q) + 1] = f
  <2>1. /\ Linked([sector EXCEPT ![f] = b], diskDirectory[current_file].sector, Append(q, f),
                  b.next)
        /\ Of(Append(q, f)) = Of(q) \cup {f}
        /\ Len(Append(q, f)) = Len(q) + 1
        /\ Append(q, f)[Len(q) + 1] = f
    BY <1>5, <1>7, <1>8, <1>15, LinkedAppend
  <2>2. QED
    BY <1>1, <1>7, <2>1 DEF b, f
<1>17. Stored(sector', Append(q, f), Writer, saved[Writer] + 1)
  <2>1. Len(sector[q[Len(q)]].data) = MAX_SECTOR_DATA
    BY <1>4, <1>5 DEF q
  <2>2. Len(b.data) <= MAX_SECTOR_DATA
    BY <1>7, Sizes
  <2>3. Stored([sector EXCEPT ![f] = b], Append(q, f), Writer, saved[Writer] + Len(b.data))
    BY <1>5, <1>7, <1>8, <1>15, <2>1, <2>2, StoredAppend
  <2>4. QED
    BY <1>1, <1>7, <2>3 DEF b, f
<1>18. PICK d \in Ghosts : /\ d[current_file] = Append(q, f)
                          /\ \A i \in 0..Free : i # current_file => d[i] = c[i]
  <2> DEFINE new == [c EXCEPT ![current_file] = Append(q, f)]
  <2>1. Append(q, f) \in Seq(Sectors)
    BY <1>16 DEF Linked
  <2>2. /\ new \in Ghosts /\ new[current_file] = Append(q, f)
        /\ \A i \in 0..Free : i # current_file => new[i] = c[i]
    BY <1>4, <2>1 DEF Ghosts
  <2> HIDE DEF new
  <2>3. QED
    BY <2>2
<1>19. Unwritten' = 0
  <2>1. /\ Unwritten' = Len(current_sector'.data) - Len(sector'[last_sector_open'].data)
        /\ current_sector' = b /\ sector'[last_sector_open'] = b
    BY <1>1, <1>4, <1>9 DEF Unwritten, b, f
  <2>2. Unwritten' = 1 - 1
    BY <1>7, <2>1
  <2>3. QED
    BY <2>2
<1>20. File(sector', diskDirectory'[current_file'], d[current_file'], Leads',
            saved'[diskDirectory'[current_file'].name] - Unwritten')
  <2>1. diskDirectory[current_file].size <= saved[Writer] + 1
    <3>1. diskDirectory[current_file].size \in Int
      BY <1>4, EntryTypes DEF IInv, Types
    <3> DEFINE k == diskDirectory[current_file].size
               l == saved[Writer]
    <3>2. k \in Int /\ l \in Nat /\ k <= l
      BY <1>4, <1>15, <3>1
    <3> HIDE DEF k, l
    <3>3. k <= l + 1
      BY ONLY <3>2
    <3>4. QED
      BY ONLY <3>3 DEF k, l
  <2>2. File(sector', diskDirectory[current_file], Append(q, f), 0, saved[Writer] + 1)
    BY <1>4, <1>15, <1>16, <1>17, <2>1 DEF File
  <2>3. saved'[Writer] - 0 = saved[Writer] + 1
    BY <1>4, <1>11
  <2>4. QED
    BY <1>1, <1>2, <1>4, <1>18, <1>19, <2>2, <2>3
<1>21. ASSUME NEW i \in DiskNamed, i # current_file
       PROVE  File(sector', diskDirectory[i], d[i], 0, saved'[diskDirectory[i].name])
  <2>1. /\ File(sector, diskDirectory[i], c[i], 0, saved[diskDirectory[i].name])
        /\ diskDirectory[i].name \in Names /\ diskDirectory[i].name # Writer
        /\ i \in 0..Free
    BY <1>2, <1>3, <1>21, Others DEF IInv
  <2>2. Of(c[i]) \subseteq Sectors /\ f \notin Of(c[i])
    BY <1>6, <2>1, FileFirst
  <2>3. \A t \in Of(c[i]) : sector'[t] = sector[t]
    BY <1>9, <2>2
  <2>4. File(sector', diskDirectory[i], c[i], 0, saved[diskDirectory[i].name])
    BY <2>1, <2>3, FileFrame
  <2>5. QED
    BY <1>11, <1>18, <1>21, <2>1, <2>4
<1>22. \A i \in DiskNamed' :
         i # current_file' => File(sector', diskDirectory'[i], d[i], 0,
                                   saved'[diskDirectory'[i].name])
  BY <1>1, <1>13, <1>21
<1>23. d[Free] = c[Free]
  BY <1>14, <1>18, Ranges
<1>24. Linked(sector', directory'[Free].sector, d[Free], 0)
  <2>1. Of(c[Free]) \subseteq Sectors /\ f \notin Of(c[Free])
    BY <1>3, <1>6, LinkedIn
  <2>2. \A t \in Of(c[Free]) : sector'[t].next = sector[t].next
    BY <1>9, <2>1
  <2>3. Linked(sector', directory[Free].sector, c[Free], 0)
    BY <1>3, <2>2, LinkedFrame
  <2>4. QED
    BY <1>14, <1>23, <2>3
<1>25. Apart(DiskNamed', d)
  <2>1. SUFFICES ASSUME NEW i \in DiskNamed \cup {Free}, NEW j \in DiskNamed \cup {Free}, i # j
                 PROVE  Of(d[i]) \cap Of(d[j]) = {}
    BY <1>13 DEF Apart
  <2>2. Of(c[i]) \cap Of(c[j]) = {}
    BY <1>3, <2>1 DEF Apart
  <2>3. \A k \in DiskNamed \cup {Free} :
          Of(d[k]) = IF k = current_file THEN Of(c[k]) \cup {f} ELSE Of(c[k])
    BY <1>13, <1>16, <1>18, Ranges DEF q
  <2>4. CASE i = current_file
    <3>1. Of(d[i]) = Of(c[i]) \cup {f} /\ Of(d[j]) = Of(c[j]) /\ f \notin Of(c[j])
      BY <1>6, <2>1, <2>3, <2>4
    <3>2. QED
      BY <2>2, <3>1
  <2>5. CASE i # current_file
    <3>1. Of(d[i]) = Of(c[i]) /\ f \notin Of(c[i]) /\ Of(d[j]) \subseteq Of(c[j]) \cup {f}
      BY <1>6, <2>1, <2>3, <2>5
    <3>2. QED
      BY <2>2, <3>1
  <2>6. QED
    BY <2>4, <2>5
<1>26. Mirrors(directory', diskDirectory', Named', saved')
  BY <1>1, <1>2, OneMoreMirrors DEF IInv
<1>27. WritingRight(d)'
  <2>1. current_file' \in Named'
    BY <1>1, <1>4, <1>13
  <2>2. last_sector_open' = d[current_file'][Len(d[current_file'])]
    BY <1>1, <1>16, <1>18 DEF f
  <2>3. current_sector'.data \in Seq({Writer'}) /\ current_sector'.next = Leads'
    BY <1>1, <1>2, <1>7, <1>12 DEF b
  <2>4. /\ Len(sector'[last_sector_open'].data) <= Len(current_sector'.data)
        /\ Len(current_sector'.data) <= MAX_SECTOR_DATA
    <3>1. current_sector' = b /\ sector'[last_sector_open'] = b
      BY <1>1, <1>9 DEF b, f
    <3>2. /\ Len(sector'[last_sector_open'].data) = 1 /\ Len(current_sector'.data) = 1
      BY <1>7, <3>1
    <3>3. QED
      BY <3>2, Sizes
  <2>5. call' # "write directory" /\ call' # "write sector"
    BY <1>1
  <2>6. QED
    BY <1>2, <2>1, <2>2, <2>3, <2>4, <2>5 DEF WritingRight
<1>28. /\ current_file' \in DiskNamed' /\ Control' /\ Named' \subseteq DiskNamed'
       /\ diskDirectory'[Free].sector = directory'[Free].sector
       /\ Once(diskDirectory', DiskNamed')
  BY <1>1, <1>3, <1>4, <1>13, <1>14 DEF Weak
<1>29. Behind(DiskNamed', directory'[Free].sector, d)
  <2>1. SUFFICES ASSUME directory[Free].sector # 0, NEW i \in DiskNamed, NEW t \in Of(d[i])
                 PROVE  t < directory[Free].sector
    BY <1>13, <1>14 DEF Behind
  <2>2. f < directory[Free].sector
    BY <1>1, <1>2, <2>1 DEF Structure, WritingRight, f
  <2>3. t \in Of(c[i]) \/ t = f
    BY <1>13, <1>16, <1>18, Ranges DEF q
  <2>4. QED
    BY <1>3, <2>1, <2>2, <2>3 DEF Behind
<1>30. Structure(d)'
  BY <1>2, <1>18, <1>20, <1>22, <1>24, <1>25, <1>26, <1>27, <1>28, <1>29, BusyStructure
<1>31. QED
  BY <1>18, <1>30 DEF Structured

(* eFile_WClose writes the open sector. *)
LEMMA CloseStructured ==
  ASSUME IInv, eFile_WClose, Weak', Followed', NEW c \in Ghosts, Structure(c)
  PROVE  Structure(c)'
<1> DEFINE q == c[current_file]
<1>1. /\ call \in {"write", "none"} /\ WriterCount = 1 /\ call' = "none"
      /\ sector' = [sector EXCEPT ![last_sector_open] = current_sector]
      /\ WriterCount' = 0
      /\ UNCHANGED <<diskDirectory, damaged, directory, saved>>
  BY DEF eFile_WClose, CutShort, Followed, Written
<1>2. Writing /\ ~Linking /\ Leads = 0 /\ ~Creating'
  BY <1>1 DEF IInv, Control, Linking, Leads, Creating, Followed
<1>3. /\ Linked(sector, directory[Free].sector, c[Free], 0)
      /\ Apart(DiskNamed, c) /\ Once(diskDirectory, DiskNamed)
      /\ Named \subseteq DiskNamed
      /\ Mirrors(directory, diskDirectory, Named, saved)
      /\ diskDirectory[Free].sector = directory[Free].sector
      /\ Behind(DiskNamed, directory[Free].sector, c)
  BY <1>2, BusyParts DEF IInv
<1>4. /\ Unwritten = Len(current_sector.data) - Len(sector[last_sector_open].data)
      /\ current_file \in Slots /\ current_file \in DiskNamed /\ current_file \in 0..Free
      /\ Writer \in Names /\ diskDirectory[current_file].name = Writer
      /\ last_sector_open \in Sectors
      /\ last_sector_open = q[Len(q)] /\ last_sector_open \in Of(q)
      /\ saved[Writer] \in Nat
      /\ File(sector, diskDirectory[current_file], q, 0, saved[Writer] - Unwritten)
  BY <1>2, <1>3, Busy DEF IInv
<1>5. /\ current_sector.data \in Seq({Writer}) /\ current_sector.next = 0
      /\ Len(current_sector.data) <= MAX_SECTOR_DATA
      /\ Len(sector[last_sector_open].data) <= Len(current_sector.data)
  BY <1>2 DEF Structure, WritingRight
<1>6. /\ current_sector \in Blocks /\ sector \in Disks /\ sector[last_sector_open] \in Blocks
  BY <1>4 DEF IInv, Types, Disks
<1>7. \A t \in Sectors : t # last_sector_open => sector'[t] = sector[t]
  BY <1>1, <1>4, <1>6 DEF Disks
<1>8. Named' = Named /\ DiskNamed' = DiskNamed
  BY <1>1 DEF Named, DiskNamed
<1> HIDE DEF q
<1>9. File(sector', diskDirectory[current_file], q, 0, saved[Writer])
  <2>1. File([sector EXCEPT ![last_sector_open] = current_sector], diskDirectory[current_file],
             c[current_file], current_sector.next, saved[Writer])
    BY <1>2, <1>6, LastWritten DEF IInv
  <2>2. QED
    BY <1>1, <1>5, <2>1 DEF q
<1>10. ASSUME NEW i \in DiskNamed
       PROVE  File(sector', diskDirectory[i], c[i], 0, saved[diskDirectory[i].name])
  <2>1. CASE i = current_file
    BY <1>4, <1>9, <2>1 DEF q
  <2>2. CASE i # current_file
    <3>1. /\ File(sector, diskDirectory[i], c[i], 0, saved[diskDirectory[i].name])
          /\ last_sector_open \notin Of(c[i])
      BY <1>2, <1>3, <2>2, Others DEF IInv
    <3>2. Of(c[i]) \subseteq Sectors
      BY <3>1, FileFirst
    <3>3. \A t \in Of(c[i]) : sector'[t] = sector[t]
      BY <1>7, <3>1, <3>2
    <3>4. QED
      BY <3>1, <3>3, FileFrame
  <2>3. QED
    BY <2>1, <2>2
<1>11. Linked(sector', directory[Free].sector, c[Free], 0)
  <2>1. Of(q) \cap Of(c[Free]) = {}
    BY <1>3, <1>4, FreeApart DEF q
  <2>2. last_sector_open \notin Of(c[Free]) /\ Of(c[Free]) \subseteq Sectors
    BY <1>3, <1>4, <2>1, LinkedIn
  <2>3. \A t \in Of(c[Free]) : sector'[t].next = sector[t].next
    BY <1>7, <2>2
  <2>4. QED
    BY <1>3, <2>3, LinkedFrame
<1>12. /\ Linked(sector', directory'[Free].sector, c[Free], 0)
       /\ Mirrors(directory', diskDirectory', Named', saved')
       /\ Apart(DiskNamed', c) /\ Once(diskDirectory', DiskNamed')
       /\ Named' \subseteq DiskNamed'
       /\ diskDirectory'[Free].sector = directory'[Free].sector
       /\ Behind(DiskNamed', directory'[Free].sector, c)
  BY <1>1, <1>3, <1>8, <1>11
<1>13. \A i \in DiskNamed' : File(sector', diskDirectory'[i], c[i], 0,
                                  saved'[diskDirectory'[i].name])
  BY <1>1, <1>8, <1>10
<1>14. WalkingRight(c)' /\ Control'
  BY <1>1 DEF WalkingRight, Weak
<1>15. QED
  BY <1>1, <1>2, <1>12, <1>13, <1>14, QuietStructure

-----------------------------------------------------------------------------
(* The chains after a step in touch. *)
LEMMA CreatingStructure ==
  ASSUME NEW c \in Ghosts, Creating',
         \A i \in DiskNamed' : File(sector', diskDirectory'[i], c[i], 0,
                                    saved'[diskDirectory'[i].name]),
         Linked(sector', FreeHead', c[Free], 0),
         Apart(DiskNamed', c), Once(diskDirectory', DiskNamed'), Once(directory', Named'),
         Named' \subseteq DiskNamed' \cup New',
         Mirrors(directory', diskDirectory', Named' \ New', saved'),
         diskDirectory'[Free].sector = directory'[Free].sector,
         Behind(DiskNamed', directory'[Free].sector, c),
         CreatingRight(c)'
  PROVE  Structure(c)'
<1>1. DiskNamed' \subseteq Slots
  BY DEF DiskNamed
<1>2. ~Writing' /\ call' # "walk" /\ WriterCount' = 0
  BY DEF Creating, Writing, Linking, CreatingRight
<1>3. Extended' = NULL
  BY <1>2 DEF Extended
<1>4. Files(sector, diskDirectory, DiskNamed, Extended, Leads, Unwritten, saved, c)'
  BY <1>1, <1>3, QuietFiles
<1>5. WritingRight(c)' /\ WalkingRight(c)'
  BY <1>2 DEF WritingRight, WalkingRight
<1>6. /\ Linked(sector, FreeHead, c[Free], 0)' /\ Apart(DiskNamed, c)'
      /\ Once(diskDirectory, DiskNamed)' /\ Once(directory, Named)'
      /\ (Named \subseteq DiskNamed \cup New)'
      /\ Mirrors(directory, diskDirectory, Named \ New, saved)'
      /\ Behind(DiskNamed, directory[Free].sector, c)'
  OBVIOUS
<1>7. QED
  BY <1>4, <1>5, <1>6 DEF Structure

(* touch enters the file in RAM. *)
LEMMA EntryStructured ==
  ASSUME IInv, NEW n \in Names, CreateEntry(n), Weak', Followed', NEW c \in Ghosts,
         Structure(c)
  PROVE  Structure(c)'
<1> DEFINE f == directory[Free].sector
           s == FreeSlot
<1>1. /\ call = "none" /\ ~damaged /\ Slot(n) = {}
      /\ directory' = [directory EXCEPT ![s] = NewEntry(n)]
      /\ f # 0 /\ local' = sector[f].next /\ call' = "create sector"
      /\ UNCHANGED <<diskDirectory, sector, WriterCount, saved>>
  BY DEF CreateEntry, CutShort, Followed, Prompt, disk, open
<1>2. WriterCount = 0 /\ ~Creating /\ Creating'
  BY <1>1 DEF IInv, Control, Types, Creating, Writing, Linking
<1>3. /\ \A i \in DiskNamed : /\ i \in Slots /\ i \in 0..Free
                              /\ File(sector, diskDirectory[i], c[i], 0,
                                      saved[diskDirectory[i].name])
                              /\ diskDirectory[i].name \in Names
      /\ Linked(sector, f, c[Free], 0)
      /\ Apart(DiskNamed, c) /\ Once(diskDirectory, DiskNamed)
      /\ Named \subseteq DiskNamed /\ Named \subseteq Slots
      /\ Mirrors(directory, diskDirectory, Named, saved)
      /\ Once(directory, Named)
      /\ diskDirectory[Free].sector = f /\ Behind(DiskNamed, f, c)
  BY <1>2, QuietParts DEF IInv
<1>4. s \in {i \in Slots : directory[i].name = NoName} \cup {Free}
  BY FreeSlotIs DEF IInv
<1>5. s \in 0..Free
  BY <1>4, Ranges
<1> HIDE DEF s
<1>6. /\ NewEntry(n) \in Entries /\ NewEntry(n).name = n /\ NewEntry(n).sector = f
      /\ NewEntry(n).size = 0
  BY NewEntryIs DEF IInv
<1>7. directory'[s] = NewEntry(n) /\ \A i \in 0..Free : i # s => directory'[i] = directory[i]
  <2> DEFINE e == NewEntry(n)
  <2>1. directory \in Directories /\ e \in Entries
    BY <1>6 DEF IInv, Types
  <2> HIDE DEF e
  <2>2. /\ [directory EXCEPT ![s] = e][s] = e
        /\ \A i \in 0..Free : i # s => [directory EXCEPT ![s] = e][i] = directory[i]
    BY <1>5, <2>1 DEF Directories
  <2>3. directory' = [directory EXCEPT ![s] = e]
    BY <1>1 DEF e
  <2>4. QED
    BY <2>2, <2>3 DEF e
<1>8. directory'[Free].sector = f
  BY <1>6, <1>7, Ranges
<1>9. s \notin Named /\ n # NoName
  BY <1>4, Ranges, Sizes DEF Named
<1>10. \A i \in Named : directory'[i] = directory[i] /\ i \in 0..Free
  BY <1>3, <1>7, <1>9, Ranges
<1>11. \A i \in Named : directory[i].sector # f
  <2>1. SUFFICES ASSUME NEW i \in Named PROVE directory[i].sector # f
    OBVIOUS
  <2>2. /\ File(sector, diskDirectory[i], c[i], 0, saved[diskDirectory[i].name])
        /\ directory[i].sector = diskDirectory[i].sector
    BY <1>3 DEF Mirrors
  <2>3. directory[i].sector \in Of(c[i])
    BY <2>2, FileFirst
  <2>4. f \in Of(c[Free])
    BY <1>1, <1>3, LinkedTail
  <2>5. Of(c[i]) \cap Of(c[Free]) = {}
    <3>1. i \in DiskNamed /\ i # Free
      BY <1>3, Ranges
    <3>2. QED
      BY <1>3, <3>1 DEF Apart
  <2>6. QED
    BY <2>3, <2>4, <2>5
<1>12. Named' = Named \cup ({s} \ {Free})
  <2>1. \A i \in Slots : i # s => directory'[i].name = directory[i].name
    BY <1>7, Ranges
  <2>2. directory'[s].name # NoName /\ Free \notin Slots
    BY <1>6, <1>7, <1>9, Ranges
  <2>3. s \in Slots \/ s = Free
    BY <1>4
  <2>4. QED
    BY <2>1, <2>2, <2>3 DEF Named
<1>13. New' = {s} \ {Free}
  <2>1. New' = {i \in Named' : directory'[i].sector = f}
    BY <1>2, <1>8 DEF New
  <2>2. QED
    BY <1>6, <1>7, <1>10, <1>11, <1>12, <2>1
<1>14. DiskNamed' = DiskNamed /\ Named' \ New' = Named
  BY <1>1, <1>9, <1>12, <1>13 DEF DiskNamed
<1>15. \A i \in Named : directory[i].name # n
  BY <1>1, <1>3 DEF Slot
<1>16. Once(directory', Named')
  <2>1. SUFFICES ASSUME NEW i \in Named', NEW j \in Named',
                        directory'[i].name = directory'[j].name
                 PROVE  i = j
    BY DEF Once
  <2>2. CASE i \in Named /\ j \in Named
    BY <1>3, <1>10, <2>1, <2>2 DEF Once
  <2>3. directory'[s].name = n /\ \A k \in Named : directory'[k].name # n
    BY <1>6, <1>7, <1>10, <1>15
  <2>4. (i \in Named \/ i = s) /\ (j \in Named \/ j = s)
    BY <1>12
  <2>5. QED
    BY <2>1, <2>2, <2>3, <2>4
<1>17. Mirrors(directory', diskDirectory', Named' \ New', saved')
  <2>1. \A i \in Named : directory'[i] = directory[i]
    BY <1>10
  <2>2. Mirrors(directory, diskDirectory, Named, saved)
    BY <1>3
  <2>3. Mirrors(directory', diskDirectory, Named, saved)
    BY ONLY <2>1, <2>2 DEF Mirrors
  <2>4. QED
    BY <1>1, <1>14, <2>3
<1>18. CreatingRight(c)'
  <2>1. WriterCount' = 0 /\ directory'[Free].sector # 0 /\ call' # "create directory"
    BY <1>1, <1>2, <1>8
  <2>2. \A i \in New' : directory'[i].size = 0
    BY <1>6, <1>7, <1>13
  <2>3. \A i, j \in New' : i = j
    BY <1>13
  <2>4. local' = sector'[directory'[Free].sector].next
    BY <1>1, <1>8
  <2>5. local' = 0 \/ directory'[Free].sector < local'
    <3>1. f \in Sectors
      BY <1>1, Ranges, EntryTypes DEF IInv, Types
    <3>2. QED
      BY <1>1, <1>8, <3>1 DEF IInv, Rising
  <2>6. QED
    BY <2>1, <2>2, <2>3, <2>4, <2>5 DEF CreatingRight
<1>19. Linked(sector', FreeHead', c[Free], 0)
  <2>1. FreeHead' = f
    BY <1>1, <1>8 DEF FreeHead
  <2>2. QED
    BY <1>1, <1>3, <2>1
<1>20. /\ Apart(DiskNamed', c) /\ Once(diskDirectory', DiskNamed')
       /\ Named' \subseteq DiskNamed' \cup New'
       /\ diskDirectory'[Free].sector = directory'[Free].sector
       /\ Behind(DiskNamed', directory'[Free].sector, c)
  BY <1>1, <1>3, <1>8, <1>12, <1>13, <1>14
<1>21. \A i \in DiskNamed' : File(sector', diskDirectory'[i], c[i], 0,
                                  saved'[diskDirectory'[i].name])
  BY <1>1, <1>3, <1>14
<1>22. QED
  BY <1>2, <1>16, <1>17, <1>18, <1>19, <1>20, <1>21, CreatingStructure

(* It writes an empty sector, the first of the free chain. *)
LEMMA EmptyStructured ==
  ASSUME IInv, CreateSector, Weak', Followed', NEW c \in Ghosts, Structure(c)
  PROVE  Structured'
<1> DEFINE f == directory[Free].sector
           d == [c EXCEPT ![Free] = Tail(c[Free])]
<1>1. /\ call = "create sector" /\ call' = "create directory"
      /\ sector' = [sector EXCEPT ![f] = NoBytes]
      /\ UNCHANGED <<diskDirectory, directory, saved, local, WriterCount>>
  BY DEF CreateSector, CutShort, Followed, Goto, open
<1>2. Creating /\ Creating'
  BY <1>1 DEF Creating
<1>3. /\ WriterCount = 0 /\ DiskNamed \subseteq Slots
      /\ \A i \in DiskNamed : /\ File(sector, diskDirectory[i], c[i], 0,
                                      saved[diskDirectory[i].name])
                              /\ i \in Slots /\ i \in 0..Free
      /\ f \in Sectors /\ (local = 0 \/ f < local)
      /\ \A i \in New : directory[i].size = 0
      /\ \A i, j \in New : i = j
      /\ Apart(DiskNamed, c)
      /\ Once(diskDirectory, DiskNamed) /\ Once(directory, Named)
      /\ Named \subseteq DiskNamed \cup New
      /\ Mirrors(directory, diskDirectory, Named \ New, saved)
      /\ diskDirectory[Free].sector = f /\ Behind(DiskNamed, f, c)
  BY <1>2, CreatingParts DEF IInv
<1>4. FreeHead = f /\ f # 0 /\ FreeHead' = local
  BY <1>1, <1>3, Ranges DEF FreeHead
<1>5. /\ \A i \in DiskNamed : f \notin Of(c[i])
      /\ Linked(sector, sector[f].next, Tail(c[Free]), 0)
      /\ f \notin Of(Tail(c[Free]))
      /\ Of(Tail(c[Free])) \subseteq Of(c[Free])
      /\ Tail(c[Free]) \in Seq(Sectors)
  BY <1>4, FreeSector1
<1>6. /\ sector'[f] = NoBytes
      /\ \A t \in Sectors : t # f => sector'[t] = sector[t]
  BY <1>1, <1>3 DEF IInv, Types, Disks
<1>7. New' = New /\ Named' = Named /\ DiskNamed' = DiskNamed
  BY <1>1, <1>2 DEF New, Named, DiskNamed
<1>8. d \in Ghosts /\ d[Free] = Tail(c[Free]) /\ \A i \in Slots : d[i] = c[i]
  BY <1>5, Ranges DEF Ghosts
<1> HIDE DEF d
<1>9. ASSUME NEW i \in DiskNamed
      PROVE  File(sector', diskDirectory[i], d[i], 0, saved[diskDirectory[i].name])
  <2>1. File(sector, diskDirectory[i], c[i], 0, saved[diskDirectory[i].name])
    BY <1>3
  <2>2. Of(c[i]) \subseteq Sectors /\ f \notin Of(c[i])
    BY <1>5, <2>1, FileFirst
  <2>3. \A t \in Of(c[i]) : sector'[t] = sector[t]
    BY <1>6, <2>2
  <2>4. File(sector', diskDirectory[i], c[i], 0, saved[diskDirectory[i].name])
    BY <2>1, <2>3, FileFrame
  <2>5. QED
    BY <1>3, <1>8, <2>4
<1>10. Linked(sector', FreeHead', d[Free], 0)
  <2>1. local = sector[f].next
    BY <1>1, <1>2 DEF Structure, CreatingRight
  <2>2. Of(Tail(c[Free])) \subseteq Sectors
    BY <1>5, LinkedIn
  <2>3. \A t \in Of(Tail(c[Free])) : sector'[t].next = sector[t].next
    BY <1>5, <1>6, <2>2
  <2>4. Linked(sector', sector[f].next, Tail(c[Free]), 0)
    BY <1>5, <2>3, LinkedFrame
  <2>5. QED
    BY <1>4, <1>8, <2>1, <2>4
<1>11. Apart(DiskNamed, d)
  <2>1. SUFFICES ASSUME NEW i \in DiskNamed \cup {Free}, NEW j \in DiskNamed \cup {Free}, i # j
                 PROVE  Of(d[i]) \cap Of(d[j]) = {}
    BY DEF Apart
  <2>2. Of(c[i]) \cap Of(c[j]) = {}
    BY <1>3, <2>1 DEF Apart
  <2>3. \A k \in DiskNamed \cup {Free} : Of(d[k]) \subseteq Of(c[k])
    BY <1>3, <1>5, <1>8
  <2>4. QED
    BY <2>2, <2>3
<1>12. CreatingRight(d)'
  <2>1. \A i \in DiskNamed \cup {Free} : f \notin Of(d[i])
    BY <1>3, <1>5, <1>8
  <2>2. WriterCount' = 0 /\ call' # "create sector"
    BY <1>1, <1>3
  <2>3. /\ directory'[Free].sector # 0
        /\ local' = 0 \/ directory'[Free].sector < local'
        /\ \A i \in New' : directory'[i].size = 0
        /\ \A i, j \in New' : i = j
        /\ sector'[directory'[Free].sector] = NoBytes
        /\ \A i \in DiskNamed' \cup {Free} : directory'[Free].sector \notin Of(d[i])
    BY <1>1, <1>3, <1>4, <1>6, <1>7, <2>1
  <2>4. QED
    BY <2>2, <2>3 DEF CreatingRight
<1>13. /\ \A i \in DiskNamed' : File(sector', diskDirectory'[i], d[i], 0,
                                     saved'[diskDirectory'[i].name])
       /\ Apart(DiskNamed', d) /\ Once(diskDirectory', DiskNamed') /\ Once(directory', Named')
       /\ Named' \subseteq DiskNamed' \cup New'
       /\ Mirrors(directory', diskDirectory', Named' \ New', saved')
       /\ diskDirectory'[Free].sector = directory'[Free].sector
  BY <1>1, <1>3, <1>7, <1>9, <1>11
<1>14. Behind(DiskNamed', directory'[Free].sector, d)
  BY <1>1, <1>3, <1>7, <1>8 DEF Behind
<1>15. Structure(d)'
  BY <1>2, <1>8, <1>10, <1>12, <1>13, <1>14, CreatingStructure
<1>16. QED
  BY <1>8, <1>15 DEF Structured

(* Then the directory. *)
LEMMA CreatedStructured ==
  ASSUME IInv, CreateDirectory, Weak', Followed', NEW c \in Ghosts, Structure(c)
  PROVE  Structured'
<1> DEFINE f == directory[Free].sector
<1>1. /\ call = "create directory" /\ call' = "none"
      /\ directory' = FreeFrom(local) /\ diskDirectory' = directory'
      /\ saved' = [n \in Names |-> IF \E i \in Created : directory[i].name = n THEN 0
                                   ELSE saved[n]]
      /\ UNCHANGED <<sector, WriterCount>>
  BY DEF CreateDirectory, CutShort, Followed, open
<1>2. Creating /\ ~Creating'
  BY <1>1 DEF Creating
<1>3. /\ WriterCount = 0 /\ WriterCount' = 0 /\ DiskNamed \subseteq Slots
      /\ \A i \in DiskNamed : File(sector, diskDirectory[i], c[i], 0,
                                   saved[diskDirectory[i].name])
      /\ Linked(sector, FreeHead, c[Free], 0)
      /\ f \in Sectors /\ (local = 0 \/ f < local)
      /\ Apart(DiskNamed, c) /\ Once(directory, Named)
      /\ Named \subseteq DiskNamed \cup New
      /\ Mirrors(directory, diskDirectory, Named \ New, saved)
      /\ Behind(DiskNamed, f, c)
  BY <1>1, <1>2, CreatingParts DEF IInv
<1>4. FreeHead = local
  BY <1>1 DEF FreeHead
<1>5. directory'[Free].sector = local /\ \A i \in Slots : directory'[i] = directory[i]
  BY <1>1, FreeFromIs DEF IInv, Types
<1>6. Named' = Named /\ DiskNamed' = Named /\ Named \subseteq Slots /\ New \subseteq Named
  BY <1>1, <1>5 DEF Named, DiskNamed, New
<1>7. /\ \A i \in New : directory[i].size = 0
      /\ \A i, j \in New : i = j
      /\ sector[f] = NoBytes
      /\ \A i \in DiskNamed \cup {Free} : f \notin Of(c[i])
  BY <1>1, <1>2 DEF Structure, CreatingRight
<1>8. PICK d \in Ghosts : \A i \in 0..Free : d[i] = IF i \in New THEN <<f>> ELSE c[i]
  <2> DEFINE new == [i \in 0..Free |-> IF i \in New THEN <<f>> ELSE c[i]]
  <2>1. <<f>> \in Seq(Sectors)
    BY <1>3, <1>7, LinkedOne
  <2>2. new \in Ghosts
    BY <2>1 DEF Ghosts
  <2>3. QED
    BY <2>2
<1>9. /\ d[Free] = c[Free]
      /\ \A i \in New : d[i] = <<f>>
      /\ \A i \in Named \ New : d[i] = c[i] /\ i \in DiskNamed
  BY <1>3, <1>6, <1>8, Ranges
<1>10. Of(<<f>>) = {f}
  BY <1>3, <1>7, LinkedOne
<1>11. ASSUME NEW i \in Named
       PROVE  saved'[directory[i].name] = IF i \in New THEN 0 ELSE saved[directory[i].name]
  <2>1. directory[i].name \in Names /\ i \in Slots
    BY <1>6, EntryTypes, Ranges DEF IInv, Types, Named
  <2>2. saved'[directory[i].name] = IF \E j \in Created : directory[j].name = directory[i].name
                                    THEN 0 ELSE saved[directory[i].name]
    BY <1>1, <2>1
  <2>3. ASSUME NEW j \in Created, directory[j].name = directory[i].name
        PROVE  i \in New
    <3>1. j \in Named /\ j \in New
      BY <1>2, <2>1, <2>3, Sizes DEF Created, Named, New
    <3>2. QED
      BY <1>3, <2>3, <3>1 DEF Once
  <2>4. i \in New => i \in Created
    BY <2>1 DEF New, Created
  <2>5. QED
    BY <2>2, <2>3, <2>4
<1>12. ASSUME NEW i \in Named
       PROVE  /\ File(sector, directory[i], d[i], 0, saved'[directory[i].name])
              /\ directory[i].size <= saved'[directory[i].name]
              /\ directory[i].size <= directory[i].size
  <2>1. directory[i].name # NoName
    BY DEF Named
  <2>2. directory[i].size \in Int
    BY <1>6, EntryTypes, Ranges DEF IInv, Types
  <2>3. CASE i \in New
    <3>1. /\ directory[i].sector = f /\ directory[i].size = 0
          /\ saved'[directory[i].name] = 0 /\ d[i] = <<f>>
      BY <1>7, <1>9, <1>11, <2>3 DEF New
    <3>2. Linked(sector, f, <<f>>, 0) /\ Stored(sector, <<f>>, directory[i].name, 0)
      BY <1>3, <1>7, LinkedOne
    <3>3. 0 <= 0
      OBVIOUS
    <3>4. File(sector, directory[i], <<f>>, 0, 0)
      BY <2>1, <3>1, <3>2, <3>3 DEF File
    <3>5. QED
      BY <3>1, <3>3, <3>4
  <2>4. CASE i \notin New
    <3>1. i \in Named \ New /\ i \in DiskNamed
      BY <1>9, <2>4
    <3>2. /\ directory[i].name = diskDirectory[i].name
          /\ directory[i].sector = diskDirectory[i].sector
          /\ directory[i].size <= saved[directory[i].name]
      BY <1>3, <3>1 DEF Mirrors
    <3>3. File(sector, diskDirectory[i], c[i], 0, saved[directory[i].name])
      BY <1>3, <3>1, <3>2
    <3>4. File(sector, directory[i], c[i], 0, saved[directory[i].name])
      BY <3>2, <3>3, FileAgain
    <3>5. QED
      BY <1>9, <1>11, <2>2, <2>4, <3>1, <3>2, <3>4
  <2>5. QED
    BY <2>3, <2>4
<1>13. Apart(Named, d)
  <2>1. SUFFICES ASSUME NEW i \in Named \cup {Free}, NEW j \in Named \cup {Free}, i # j
                 PROVE  Of(d[i]) \cap Of(d[j]) = {}
    BY DEF Apart
  <2>2. \A k \in (Named \cup {Free}) \ New : d[k] = c[k] /\ k \in DiskNamed \cup {Free}
    BY <1>9
  <2>3. CASE i \in New
    <3>1. j \notin New
      BY <1>7, <2>1, <2>3
    <3>2. f \notin Of(d[j]) /\ Of(d[i]) = {f}
      BY <1>7, <1>9, <1>10, <2>1, <2>2, <2>3, <3>1
    <3>3. QED
      BY <3>2
  <2>4. CASE j \in New
    <3>1. i \notin New
      BY <1>7, <2>1, <2>4
    <3>2. f \notin Of(d[i]) /\ Of(d[j]) = {f}
      BY <1>7, <1>9, <1>10, <2>1, <2>2, <2>4, <3>1
    <3>3. QED
      BY <3>2
  <2>5. CASE i \notin New /\ j \notin New
    BY <1>3, <2>1, <2>2, <2>5 DEF Apart
  <2>6. QED
    BY <2>3, <2>4, <2>5
<1>14. Behind(Named, local, d)
  <2>1. SUFFICES ASSUME local # 0, NEW i \in Named, NEW x \in Of(d[i])
                 PROVE  x < local
    BY DEF Behind
  <2>2. f < local /\ f # 0
    BY <1>3, <2>1, Ranges
  <2>3. CASE i \in New
    BY <1>9, <1>10, <2>1, <2>2, <2>3
  <2>4. CASE i \notin New
    <3>1. x < f
      BY <1>3, <1>9, <2>1, <2>2, <2>4 DEF Behind
    <3>2. x \in Sectors /\ local \in 0..NUM_SECTORS - 1
      BY <1>6, <2>1, GhostSectors, Ranges DEF IInv, Types
    <3>3. x \in Int /\ f \in Int /\ local \in Int
      BY <1>3, <3>2, Sizes DEF Sectors
    <3>4. QED
      BY ONLY <2>2, <3>1, <3>3
  <2>5. QED
    BY <2>3, <2>4
<1>15. \A i \in Named : diskDirectory'[i] = directory[i] /\ directory'[i] = directory[i]
  BY <1>1, <1>5, <1>6
<1>16. \A i \in DiskNamed' : File(sector', diskDirectory'[i], d[i], 0,
                                  saved'[diskDirectory'[i].name])
  BY <1>1, <1>6, <1>12, <1>15
<1>17. Once(diskDirectory', DiskNamed')
  BY <1>3, <1>6, <1>15 DEF Once
<1>18. Mirrors(directory', diskDirectory', Named', saved')
  BY <1>1, <1>6, <1>12, <1>15 DEF Mirrors
<1>19. Linked(sector', directory'[Free].sector, d[Free], 0)
  BY <1>1, <1>3, <1>4, <1>5, <1>9
<1>20. /\ Apart(DiskNamed', d) /\ Named' \subseteq DiskNamed' /\ Control'
       /\ diskDirectory'[Free].sector = directory'[Free].sector
       /\ Behind(DiskNamed', directory'[Free].sector, d)
  BY <1>1, <1>5, <1>6, <1>13, <1>14 DEF Weak
<1>21. WalkingRight(d)'
  BY <1>1 DEF WalkingRight
<1>22. Structure(d)'
  BY <1>2, <1>3, <1>8, <1>16, <1>17, <1>18, <1>19, <1>20, <1>21, QuietStructure
<1>23. QED
  BY <1>8, <1>22 DEF Structured

-----------------------------------------------------------------------------
(* The disk that format leaves. *)
FreshChain == [i \in 1..NUM_SECTORS - 1 |-> i]

LEMMA FreshLinked ==
  ASSUME NEW sec, \A s \in Sectors : sec[s] = FreeSector(s)
  PROVE  FreshChain \in Seq(Sectors) /\ Linked(sec, 1, FreshChain, 0)
<1> DEFINE q == FreshChain
           n == NUM_SECTORS - 1
<1>1. n \in Nat /\ n >= 1 /\ Sectors = 1..n
  BY Sizes DEF Sectors
<1>2. q = [i \in 1..n |-> i]
  BY DEF FreshChain
<1> HIDE DEF q
<1>3. q \in Seq(Sectors) /\ Len(q) = n /\ \A i \in 1..n : q[i] = i
  <2> HIDE DEF n
  <2>1. q \in [1..n -> Sectors]
    BY <1>1, <1>2
  <2>2. QED
    BY <1>1, <1>2, <2>1
<1>4. \A s \in Sectors : sec[s].next = IF s = n THEN 0 ELSE s + 1
  BY FreeSectorIs
<1> HIDE DEF n
<1>5. \A k, l \in 1..Len(q) : q[k] = q[l] => k = l
  BY <1>3
<1>6. \A k \in 1..Len(q) - 1 : sec[q[k]].next = q[k + 1]
  <2>1. SUFFICES ASSUME NEW k \in 1..n - 1 PROVE sec[q[k]].next = q[k + 1]
    BY <1>3
  <2>2. k \in 1..n /\ k + 1 \in 1..n /\ k # n
    BY <1>1
  <2>3. QED
    BY <1>1, <1>3, <1>4, <2>2
<1>7. Len(q) # 0 /\ q[1] = 1 /\ sec[q[Len(q)]].next = 0
  <2>1. 1 \in 1..n /\ n \in 1..n
    BY <1>1
  <2>2. QED
    BY <1>1, <1>3, <1>4, <2>1
<1>8. QED
  BY <1>3, <1>5, <1>6, <1>7 DEF Linked, q

LEMMA FreshRising ==
  ASSUME NEW sec, \A s \in Sectors : sec[s] = FreeSector(s)
  PROVE  Rising(sec)
<1>1. \A s \in Sectors : FreeSector(s).next = 0 \/ FreeSector(s).next > s
  BY FreeSectorIs, Sizes DEF Sectors
<1>2. QED
  BY <1>1 DEF Rising

(* All sectors are free when format has written the last one. *)
LEMMA FormattedSectors ==
  ASSUME IInv, FormatSector, Followed'
  PROVE  \A s \in Sectors : sector'[s] = FreeSector(s)
<1>1. /\ call = "format" /\ local = NUM_SECTORS - 1
      /\ sector' = [sector EXCEPT ![local] = FreeSector(local)]
  BY DEF FormatSector, CutShort, Followed
<1>2. \A s \in 1..local - 1 : sector[s] = FreeSector(s)
  BY <1>1 DEF IInv, Formatting
<1>3. SUFFICES ASSUME NEW s \in Sectors PROVE sector'[s] = FreeSector(s)
  OBVIOUS
<1>4. s = local \/ s \in 1..local - 1
  BY <1>1, Sizes DEF Sectors
<1>5. sector'[s] = IF s = local THEN FreeSector(local) ELSE sector[s]
  BY <1>1 DEF IInv, Types, Disks
<1>6. QED
  BY <1>2, <1>4, <1>5

LEMMA FormatStructured ==
  ASSUME IInv, FormatSector, Weak', Followed'
  PROVE  Structured'
<1> DEFINE d == [i \in 0..Free |-> FreshChain]
<1>1. call = "format" /\ UNCHANGED <<directory, open, file_position, saved>>
  BY DEF FormatSector
<1>2. /\ local = NUM_SECTORS - 1 /\ call' = "none" /\ damaged' = (WriterCount = 1)
      /\ sector' = [sector EXCEPT ![local] = FreeSector(local)]
      /\ UNCHANGED diskDirectory
  BY <1>1 DEF FormatSector, CutShort, Followed
<1>3. /\ directory = BlankDirectory /\ diskDirectory = BlankDirectory
  BY <1>1 DEF IInv, Formatting
<1>4. \A s \in Sectors : sector'[s] = FreeSector(s)
  BY FormattedSectors
<1>5. FreshChain \in Seq(Sectors) /\ Linked(sector', 1, FreshChain, 0)
  BY <1>4, FreshLinked
<1>6. d \in Ghosts /\ d[Free] = FreshChain
  BY <1>5, Ranges DEF Ghosts
<1> HIDE DEF d
<1>7. DiskNamed' = {} /\ Named' = {}
  BY <1>1, <1>2, <1>3, BlankIs DEF DiskNamed, Named
<1>8. Linked(sector', directory'[Free].sector, d[Free], 0)
  BY <1>1, <1>3, <1>5, <1>6, BlankIs
<1>9. /\ Apart(DiskNamed', d) /\ Once(diskDirectory', DiskNamed')
      /\ Mirrors(directory', diskDirectory', Named', saved')
  BY <1>7 DEF Apart, Once, Mirrors
<1>10. diskDirectory'[Free].sector = directory'[Free].sector
  BY <1>1, <1>2, <1>3
<1>11. WriterCount' = 0 /\ ~Creating' /\ WalkingRight(d)' /\ Control'
  BY <1>1, <1>2 DEF Weak, Types, Followed, open, Creating, WalkingRight
<1>12. Behind(DiskNamed', directory'[Free].sector, d)
  BY <1>7 DEF Behind
<1>13. Structure(d)'
  BY <1>6, <1>7, <1>8, <1>9, <1>10, <1>11, <1>12, QuietStructure
<1>14. QED
  BY <1>6, <1>13 DEF Structured

LEMMA InitInvariant == Init => IInv
<1> SUFFICES ASSUME Init PROVE IInv
  OBVIOUS
<1> DEFINE d == [i \in 0..Free |-> FreshChain]
<1>1. /\ diskDirectory = BlankDirectory /\ directory = BlankDirectory
      /\ sector = [s \in Sectors |-> FreeSector(s)]
      /\ current_file = NULL /\ current_sector = NoBytes /\ last_sector_open = -1
      /\ file_position = 0 /\ ReaderCount = 0 /\ WriterCount = 0
      /\ call = "none" /\ local = 0 /\ saved = Nothing /\ damaged = FALSE
  BY DEF Init
<1>2. \A s \in Sectors : sector[s] = FreeSector(s)
  BY <1>1
<1>3. sector \in Disks /\ \A s \in Sectors : sector[s].next # OUTSIDE
  <2>1. \A s \in Sectors : FreeSector(s) \in Blocks /\ FreeSector(s).next # OUTSIDE
    BY FreeSectorIs
  <2>2. QED
    BY <1>1, <2>1 DEF Disks
<1>4. Types
  <2>1. saved \in [Names -> Nat]
    BY <1>1 DEF Nothing
  <2>2. directory \in Directories /\ diskDirectory \in Directories
    BY <1>1, BlankIs
  <2>3. current_sector \in Blocks
    BY <1>1, EmptyBlock
  <2>4. file_position \in 0..MAX_SECTOR_DATA /\ local \in 0..NUM_SECTORS - 1
    BY <1>1, Sizes
  <2>5. /\ current_file \in Slots \cup {NULL} /\ last_sector_open \in Sectors \cup {-1}
        /\ ReaderCount \in {0, 1} /\ WriterCount \in {0, 1} /\ damaged \in BOOLEAN
    BY <1>1
  <2>6. QED
    BY <1>3, <2>1, <2>2, <2>3, <2>4, <2>5 DEF Types
<1>5. ~Creating /\ ~Linking /\ ~Writing /\ ~Reading /\ call # "walk"
  BY <1>1 DEF Creating, Linking, Writing, Reading
<1>6. Control
  BY <1>1, <1>5 DEF Control
<1>7. Formatting
  BY <1>1 DEF Formatting
<1>8. FreshChain \in Seq(Sectors) /\ Linked(sector, 1, FreshChain, 0)
  BY <1>2, FreshLinked
<1>9. d \in Ghosts /\ d[Free] = FreshChain
  BY <1>8, Ranges DEF Ghosts
<1> HIDE DEF d
<1>10. DiskNamed = {} /\ Named = {}
  BY <1>1, <1>5, BlankIs DEF DiskNamed, Named
<1>11. FreeHead = 1 /\ diskDirectory[Free].sector = directory[Free].sector
  BY <1>1, BlankIs DEF FreeHead
<1>12. Linked(sector, FreeHead, d[Free], 0)
  BY <1>8, <1>9, <1>11
<1>13. Structure(d)
  <2>1. Files(sector, diskDirectory, DiskNamed, Extended, Leads, Unwritten, saved, d)
    BY <1>10 DEF Files
  <2>2. Apart(DiskNamed, d) /\ Once(diskDirectory, DiskNamed) /\ Once(directory, Named)
    BY <1>10 DEF Apart, Once
  <2>3. /\ Mirrors(directory, diskDirectory, Named \ New, saved)
        /\ Named \subseteq DiskNamed \cup New
    BY <1>10 DEF Mirrors
  <2>4. CreatingRight(d) /\ WritingRight(d) /\ WalkingRight(d)
    BY <1>5 DEF CreatingRight, WritingRight, WalkingRight
  <2>5. Behind(DiskNamed, directory[Free].sector, d)
    BY <1>10 DEF Behind
  <2>6. QED
    BY <1>11, <1>12, <2>1, <2>2, <2>3, <2>4, <2>5 DEF Structure
<1>14. Rising(sector)
  BY <1>2, FreshRising
<1>15. QED
  BY <1>4, <1>6, <1>7, <1>9, <1>13, <1>14 DEF IInv, Structured

-----------------------------------------------------------------------------
(* Only format repairs a damaged disk. *)
LEMMA FollowedBefore ==
  ASSUME IInv, Next, ~FormatDirectory, ~FormatSector, ~PowerLoss, Followed'
  PROVE  Followed
<1>1. ASSUME call \in {"create sector", "create directory", "write directory", "write sector"}
      PROVE  Followed
  BY <1>1 DEF IInv, Control, Creating, Linking, Followed
<1>2. CASE eFile_Mount
  BY <1>2 DEF eFile_Mount, Prompt, Followed
<1>3. CASE CreateSector
  BY <1>1, <1>3 DEF CreateSector
<1>4. CASE CreateDirectory
  BY <1>1, <1>4 DEF CreateDirectory
<1>5. CASE WOpenWalk
  BY <1>5 DEF WOpenWalk, Goto, Followed
<1>6. CASE WriteByte
  BY <1>6 DEF WriteByte, Followed
<1>7. CASE WriteLink
  BY <1>7 DEF WriteLink, Followed
<1>8. CASE WriteDirectory
  BY <1>1, <1>8 DEF WriteDirectory
<1>9. CASE WriteSector
  BY <1>1, <1>9 DEF WriteSector
<1>10. CASE eFile_WClose
  BY <1>10 DEF eFile_WClose, CutShort, Followed
<1>11. CASE ReadNext
  BY <1>11 DEF ReadNext, Goto, Followed
<1>12. CASE eFile_RClose
  BY <1>12 DEF eFile_RClose, Goto, Followed
<1>13. CASE eFile_Unmount
  BY <1>13 DEF eFile_Unmount, Prompt, Followed
<1>14. ASSUME NEW n \in Names,
              CreateEntry(n) \/ eFile_WOpen(n) \/ eFile_ROpen(n) \/ eFile_Delete(n)
       PROVE  Followed
  BY <1>14 DEF CreateEntry, eFile_WOpen, eFile_ROpen, eFile_Delete, Prompt, Followed
<1>15. QED
  BY <1>2, <1>3, <1>4, <1>5, <1>6, <1>7, <1>8, <1>9, <1>10, <1>11, <1>12, <1>13, <1>14
     DEF Next, Calls

(* Every step leaves the chains in order. *)
LEMMA StructuredNext ==
  ASSUME IInv, Next, Weak', Followed'
  PROVE  Structured'
<1>1. CASE FormatDirectory
  BY <1>1 DEF FormatDirectory, CutShort, Followed
<1>2. CASE FormatSector
  BY <1>2, FormatStructured
<1>3. CASE PowerLoss
  <2>1. CASE call = "format"
    BY <1>3, <2>1, FormatLossStructured
  <2>2. CASE call # "format"
    <3>1. PICK c \in Ghosts : Structure(c)
      BY <1>3, <2>2 DEF IInv, Followed, Structured, PowerLoss
    <3>2. QED
      BY <1>3, <3>1, PowerLossStructured
  <2>3. QED
    BY <2>1, <2>2
<1>4. ASSUME ~FormatDirectory, ~FormatSector, ~PowerLoss PROVE Structured'
  <2>1. PICK c \in Ghosts : Structure(c)
    BY <1>4, FollowedBefore DEF IInv, Structured
  <2>2. SUFFICES ASSUME ~Structure(c)' PROVE Structured'
    BY DEF Structured
  <2>3. CASE eFile_Mount
    BY <2>1, <2>2, <2>3, MountStructured
  <2>4. CASE CreateSector
    BY <2>1, <2>4, EmptyStructured
  <2>5. CASE CreateDirectory
    BY <2>1, <2>5, CreatedStructured
  <2>6. CASE WOpenWalk
    BY <2>1, <2>2, <2>6, WalkStructured
  <2>7. CASE WriteByte
    BY <2>1, <2>2, <2>7, ByteStructured
  <2>8. CASE WriteLink
    BY <2>1, <2>2, <2>8, LinkStructured
  <2>9. CASE WriteDirectory
    BY <2>1, <2>9, DirectoryStructured
  <2>10. CASE WriteSector
    BY <2>1, <2>10, SectorStructured
  <2>11. CASE eFile_WClose
    BY <2>1, <2>2, <2>11, CloseStructured
  <2>12. CASE ReadNext \/ eFile_RClose
    BY <2>1, <2>2, <2>12, ReadsStructured
  <2>13. CASE eFile_Unmount
    BY <2>1, <2>2, <2>13, UnmountStructured
  <2>14. ASSUME NEW n \in Names,
                CreateEntry(n) \/ eFile_WOpen(n) \/ eFile_ROpen(n) \/ eFile_Delete(n)
         PROVE  Structured'
    <3>1. CASE CreateEntry(n)
      BY <2>1, <2>2, <3>1, EntryStructured
    <3>2. CASE eFile_WOpen(n)
      BY <2>1, <2>2, <3>2, WOpenStructured
    <3>3. CASE eFile_ROpen(n)
      BY <2>1, <2>2, <3>3, ReadsStructured
    <3>4. CASE eFile_Delete(n)
      BY <2>1, <2>2, <3>4, DeleteStructured
    <3>5. QED
      BY <2>14, <3>1, <3>2, <3>3, <3>4
  <2>15. QED
    BY <1>4, <2>3, <2>4, <2>5, <2>6, <2>7, <2>8, <2>9, <2>10, <2>11, <2>12, <2>13, <2>14
       DEF Next, Calls
<1>5. QED
  BY <1>1, <1>2, <1>3, <1>4

-----------------------------------------------------------------------------
(* Every sector written leads to a later one.                              *)
LEMMA RisingPut ==
  ASSUME NEW sec \in Disks, Rising(sec), NEW s \in Sectors, NEW b, b.next = 0 \/ b.next > s
  PROVE  Rising([sec EXCEPT ![s] = b])
<1>1. \A t \in Sectors : [sec EXCEPT ![s] = b][t] = IF t = s THEN b ELSE sec[t]
  BY DEF Disks
<1>2. QED
  BY <1>1 DEF Rising

LEMMA FormatRising ==
  ASSUME IInv, FormatSector, Weak', ~damaged'
  PROVE  Rising(sector')
<1>1. CASE Followed'
  BY <1>1, FormattedSectors, FreshRising
<1>2. CASE ~Followed'
  <2>1. /\ ~damaged /\ local \in Sectors
        /\ sector' = [sector EXCEPT ![local] = FreeSector(local)]
    BY <1>2 DEF FormatSector, CutShort, Followed, IInv, Formatting
  <2>2. FreeSector(local).next = 0 \/ FreeSector(local).next > local
    BY <2>1, FreeSectorIs, Sizes DEF Sectors
  <2>3. QED
    BY <2>1, <2>2, RisingPut DEF IInv, Types
<1>3. QED
  BY <1>1, <1>2

(* The first free sector is behind the last one of the file. *)
LEMMA LinkRising ==
  ASSUME IInv, WriteLink, ~damaged'
  PROVE  Rising(sector')
<1> DEFINE f == directory[Free].sector
<1>1. /\ call = "write" /\ ~damaged /\ f # 0
      /\ current_sector' = [current_sector EXCEPT !.next = f]
      /\ sector' = [sector EXCEPT ![last_sector_open] = current_sector']
  BY DEF WriteLink, CutShort
<1>2. Writing /\ Followed
  BY <1>1 DEF Writing, Followed
<1>3. PICK c \in Ghosts : Structure(c)
  BY <1>2 DEF IInv, Structured
<1>4. /\ current_file \in DiskNamed
      /\ last_sector_open \in Sectors /\ last_sector_open \in Of(c[current_file])
  BY <1>2, <1>3, Busy DEF IInv
<1>5. last_sector_open < f
  BY <1>1, <1>3, <1>4 DEF Structure, Behind
<1>6. current_sector'.next = f
  <2>1. f \in 0..OUTSIDE /\ current_sector \in Blocks
    BY Ranges, EntryTypes DEF IInv, Types
  <2>2. QED
    BY <1>1, <2>1, NextSet
<1>7. f > last_sector_open
  BY <1>5
<1>8. Rising(sector) /\ sector \in Disks
  BY <1>1 DEF IInv, Types
<1>9. QED
  BY <1>1, <1>4, <1>6, <1>7, <1>8, RisingPut

LEMMA RisingNext ==
  ASSUME IInv, Next, Weak', ~damaged'
  PROVE  Rising(sector')
<1>1. CASE FormatSector
  BY <1>1, FormatRising
<1>2. CASE CreateSector
  <2>1. /\ ~damaged /\ sector' = [sector EXCEPT ![directory[Free].sector] = NoBytes]
        /\ directory[Free].sector \in Sectors
    BY <1>2, FreeHeads DEF CreateSector, CutShort, Goto, IInv, Control, Creating
  <2>2. QED
    BY <2>1, RisingPut, EmptyBlock DEF IInv, Types
<1>3. CASE WriteLink
  BY <1>3, LinkRising
<1>4. CASE WriteSector
  <2> DEFINE b == [next |-> 0, data |-> <<Writer>>]
  <2>1. /\ ~damaged /\ current_sector' = b
        /\ sector' = [sector EXCEPT ![current_sector.next] = current_sector']
    <3>1. last_sector_open' = current_sector.next /\ current_sector' = b
      BY <1>4 DEF WriteSector
    <3>2. \/ sector' = [sector EXCEPT ![last_sector_open'] = current_sector'] /\ Goto("write")
          \/ CutShort("write")
      BY <1>4, Zenon DEF WriteSector
    <3>3. ~CutShort("write")
      BY DEF CutShort
    <3>4. /\ ~damaged
          /\ sector' = [sector EXCEPT ![last_sector_open'] = current_sector']
      BY <3>2, <3>3 DEF Goto
    <3>5. QED
      BY <3>1, <3>4
  <2>2. current_sector.next \in Sectors /\ b.next = 0
    BY <1>4, FreeHeads DEF WriteSector, Linking
  <2> HIDE DEF b
  <2>3. QED
    BY <2>1, <2>2, RisingPut DEF IInv, Types
<1>5. CASE eFile_WClose
  <2>1. /\ ~damaged /\ WriterCount = 1 /\ call \in {"write", "none"}
        /\ sector' = [sector EXCEPT ![last_sector_open] = current_sector]
    BY <1>5 DEF eFile_WClose, CutShort, Written
  <2>2. Writing /\ Followed /\ ~Linking /\ last_sector_open \in Sectors
    BY <2>1 DEF IInv, Control, Followed, Linking
  <2>3. PICK c \in Ghosts : Structure(c)
    BY <2>2 DEF IInv, Structured
  <2>4. current_sector.next = 0
    BY <2>2, <2>3 DEF Structure, WritingRight, Leads
  <2>5. QED
    BY <2>1, <2>2, <2>4, RisingPut DEF IInv, Types
<1>6. CASE sector' = sector /\ ~damaged
  BY <1>6 DEF IInv
<1>7. CASE FormatDirectory
  BY <1>6, <1>7 DEF FormatDirectory, CutShort
<1>8. CASE PowerLoss
  BY <1>6, <1>8 DEF PowerLoss, disk
<1>9. CASE eFile_Mount \/ eFile_Unmount
  BY <1>6, <1>9 DEF eFile_Mount, eFile_Unmount, CutShort, Prompt, disk
<1>10. CASE CreateDirectory
  BY <1>6, <1>10 DEF CreateDirectory, CutShort
<1>11. CASE WOpenWalk \/ ReadNext \/ eFile_RClose
  BY <1>6, <1>11 DEF WOpenWalk, ReadNext, eFile_RClose, Goto, disk
<1>12. CASE WriteByte
  BY <1>6, <1>12 DEF WriteByte, disk
<1>13. CASE WriteDirectory
  BY <1>6, <1>13 DEF WriteDirectory, CutShort, Goto
<1>14. ASSUME NEW n \in Names,
              CreateEntry(n) \/ eFile_WOpen(n) \/ eFile_ROpen(n) \/ eFile_Delete(n)
       PROVE  Rising(sector')
  <2>1. sector' = sector /\ ~damaged
    BY <1>14 DEF CreateEntry, eFile_WOpen, eFile_ROpen, eFile_Delete, CutShort, Prompt, Goto,
                 disk
  <2>2. QED
    BY <1>6, <2>1
<1>15. QED
  BY <1>1, <1>2, <1>3, <1>4, <1>5, <1>7, <1>8, <1>9, <1>10, <1>11, <1>12, <1>13, <1>14
     DEF Next, Calls

LEMMA NextInvariant ==
  ASSUME IInv, [Next]_vars
  PROVE  IInv'
<1>1. CASE Next
  <2>1. Weak'
    BY <1>1, WeakNext
  <2>2. Followed' => Structured'
    BY <1>1, <2>1, StructuredNext
  <2>3. ~damaged' => Rising(sector')
    BY <1>1, <2>1, RisingNext
  <2>4. QED
    BY <2>1, <2>2, <2>3 DEF Weak, IInv
<1>2. CASE UNCHANGED vars
  <2>1. UNCHANGED <<diskDirectory, sector, directory, current_file, current_sector,
                    last_sector_open, ReaderCount, WriterCount, file_position, call, local,
                    saved, damaged>>
    BY <1>2 DEF vars, disk, open
  <2>2. /\ Named' = Named /\ DiskNamed' = DiskNamed /\ Creating' = Creating
        /\ Linking' = Linking /\ Writing' = Writing /\ Reading' = Reading
        /\ Unwritten' = Unwritten /\ Writer' = Writer
    BY <2>1 DEF Named, DiskNamed, Creating, Linking, Writing, Reading, Unwritten, Writer
  <2>3. /\ Types' /\ Control' /\ Formatting' /\ (Followed' <=> Followed)
        /\ ~damaged' => Rising(sector')
    BY <2>1, <2>2 DEF IInv, Types, Control, Formatting, Followed
  <2>4. ASSUME NEW c \in Ghosts, Structure(c) PROVE Structure(c)'
    <3>1. /\ New' = New /\ FreeHead' = FreeHead /\ Extended' = Extended /\ Leads' = Leads
      BY <2>1, <2>2 DEF New, FreeHead, Extended, Leads
    <3>2. CreatingRight(c)'
      BY <2>1, <2>2, <2>4, <3>1 DEF Structure, CreatingRight
    <3>3. WritingRight(c)'
      BY <2>1, <2>2, <2>4, <3>1 DEF Structure, WritingRight
    <3>4. WalkingRight(c)'
      BY <2>1, <2>2, <2>4, <3>1 DEF Structure, WalkingRight
    <3>5. QED
      BY <2>1, <2>2, <2>4, <3>1, <3>2, <3>3, <3>4 DEF Structure
  <2>5. Structured => Structured'
    BY <2>4 DEF Structured
  <2>6. QED
    BY <2>3, <2>5 DEF IInv
<1>3. QED
  BY <1>1, <1>2

(* The invariant holds in every state.  While the disk is not damaged (no error  *)
(* or end of free space cut a call short, and the power did not go while         *)
(* eFile_Write was linking a sector) every sector leads to a later one, and      *)
(* outside format the files and the free space are chains that a step of eFile.c *)
(* only takes apart or extends.                                                  *)
THEOREM Invariant == Spec => []IInv
<1>1. Init => IInv
  BY InitInvariant
<1>2. IInv /\ [Next]_vars => IInv'
  BY NextInvariant
<1>3. QED
  BY <1>1, <1>2, PTL DEF Spec

-----------------------------------------------------------------------------
(* The files as calls see them, between calls. *)
LEMMA ViewFiles ==
  ASSUME IInv, Consistent, NEW c \in Ghosts, Structure(c)
  PROVE  /\ View \in Disks
         /\ \A i \in Named : File(View, directory[i], c[i], 0, saved[directory[i].name])
         /\ Linked(View, directory[Free].sector, c[Free], 0)
         /\ Apart(Named, c)
<1>1. ~damaged /\ ~Creating /\ ~Linking /\ call # "format"
  BY DEF Consistent, Allocating, Creating, Linking
<1>2. CASE WriterCount = 0
  <2>1. View = sector
    BY <1>2 DEF View
  <2>2. /\ \A i \in DiskNamed : File(sector, diskDirectory[i], c[i], 0,
                                     saved[diskDirectory[i].name])
        /\ Linked(sector, directory[Free].sector, c[Free], 0)
        /\ Apart(DiskNamed, c) /\ Named \subseteq DiskNamed
        /\ Mirrors(directory, diskDirectory, Named, saved)
    BY <1>1, <1>2, QuietParts DEF IInv
  <2>3. ASSUME NEW i \in Named
        PROVE  File(sector, directory[i], c[i], 0, saved[directory[i].name])
    <3>1. /\ directory[i].name = diskDirectory[i].name
          /\ directory[i].sector = diskDirectory[i].sector
          /\ directory[i].size <= saved[directory[i].name]
      BY <2>2 DEF Mirrors
    <3>2. File(sector, diskDirectory[i], c[i], 0, saved[directory[i].name])
      BY <2>2, <3>1
    <3>3. QED
      BY <3>1, <3>2, FileAgain
  <2>4. Apart(Named, c)
    BY <2>2, FewerApart
  <2>5. QED
    BY <2>1, <2>2, <2>3, <2>4 DEF IInv, Types
<1>3. CASE WriterCount = 1
  <2> DEFINE q == c[current_file]
  <2>1. Writing /\ Leads = 0
    BY <1>1, <1>3 DEF IInv, Control, Leads
  <2>2. /\ Linked(sector, directory[Free].sector, c[Free], 0)
        /\ Apart(DiskNamed, c) /\ Named \subseteq DiskNamed
        /\ Mirrors(directory, diskDirectory, Named, saved)
    BY <2>1, BusyParts DEF IInv
  <2>3. /\ current_file \in DiskNamed /\ diskDirectory[current_file].name = Writer
        /\ last_sector_open \in Sectors /\ last_sector_open \in Of(q)
    BY <2>1, <2>2, Busy DEF IInv
  <2>4. current_sector.next = 0
    BY <2>1 DEF Structure, WritingRight
  <2>5. current_sector \in Blocks /\ sector \in Disks
    BY DEF IInv, Types
  <2>6. View = [sector EXCEPT ![last_sector_open] = current_sector]
    BY <1>3 DEF View
  <2>7. View \in Disks /\ \A t \in Sectors : t # last_sector_open => View[t] = sector[t]
    BY <2>3, <2>5, <2>6 DEF Disks
  <2>8. File(View, diskDirectory[current_file], q, 0, saved[Writer])
    <3>1. File([sector EXCEPT ![last_sector_open] = current_sector],
               diskDirectory[current_file], c[current_file], current_sector.next, saved[Writer])
      BY <2>1, <2>5, LastWritten DEF IInv
    <3>2. QED
      BY <2>4, <2>6, <3>1
  <2> HIDE DEF q
  <2>9. ASSUME NEW i \in DiskNamed
        PROVE  File(View, diskDirectory[i], c[i], 0, saved[diskDirectory[i].name])
    <3>1. CASE i = current_file
      BY <2>3, <2>8, <3>1 DEF q
    <3>2. CASE i # current_file
      <4>1. /\ File(sector, diskDirectory[i], c[i], 0, saved[diskDirectory[i].name])
            /\ last_sector_open \notin Of(c[i])
        BY <2>1, <2>2, <3>2, Others DEF IInv
      <4>2. Of(c[i]) \subseteq Sectors
        BY <4>1, FileFirst
      <4>3. \A t \in Of(c[i]) : View[t] = sector[t]
        BY <2>7, <4>1, <4>2
      <4>4. QED
        BY <4>1, <4>3, FileFrame
    <3>3. QED
      BY <3>1, <3>2
  <2>10. ASSUME NEW i \in Named
         PROVE  File(View, directory[i], c[i], 0, saved[directory[i].name])
    <3>1. /\ directory[i].name = diskDirectory[i].name
          /\ directory[i].sector = diskDirectory[i].sector
          /\ directory[i].size <= saved[directory[i].name]
      BY <2>2 DEF Mirrors
    <3>2. File(View, diskDirectory[i], c[i], 0, saved[directory[i].name])
      BY <2>2, <2>9, <3>1
    <3>3. QED
      BY <3>1, <3>2, FileAgain
  <2>11. Linked(View, directory[Free].sector, c[Free], 0)
    <3>1. Of(q) \cap Of(c[Free]) = {}
      BY <2>2, <2>3, FreeApart DEF q
    <3>2. last_sector_open \notin Of(c[Free]) /\ Of(c[Free]) \subseteq Sectors
      BY <2>2, <2>3, <3>1, LinkedIn
    <3>3. \A t \in Of(c[Free]) : View[t].next = sector[t].next
      BY <2>7, <3>2
    <3>4. QED
      BY <2>2, <3>3, LinkedFrame
  <2>12. Apart(Named, c)
    BY <2>2, FewerApart
  <2>13. QED
    BY <2>7, <2>10, <2>11, <2>12
<1>4. QED
  BY <1>2, <1>3 DEF IInv, Types

LEMMA ConsistentStructured ==
  ASSUME IInv, Consistent
  PROVE  Structured
  BY DEF IInv, Followed, Consistent, Allocating

LEMMA ChainsApartHolds == IInv => ChainsApart
<1> SUFFICES ASSUME IInv, Consistent
             PROVE  /\ \A i \in Named \cup {Free} : Ends(View, directory[i].sector)
                    /\ \A i, j \in Named \cup {Free} :
                         i # j => Chain(View, directory[i].sector)
                                    \cap Chain(View, directory[j].sector) = {}
  BY DEF ChainsApart
<1>1. PICK c \in Ghosts : Structure(c)
  BY ConsistentStructured DEF Structured
<1>2. /\ \A i \in Named : File(View, directory[i], c[i], 0, saved[directory[i].name])
      /\ Linked(View, directory[Free].sector, c[Free], 0)
      /\ Apart(Named, c)
  BY <1>1, ViewFiles
<1>3. \A i \in Named \cup {Free} : Linked(View, directory[i].sector, c[i], 0)
  BY <1>2 DEF File
<1>4. \A i \in Named \cup {Free} : /\ Ends(View, directory[i].sector)
                                   /\ Chain(View, directory[i].sector) = Of(c[i])
  BY <1>3, LinkedChain
<1>5. QED
  BY <1>2, <1>4 DEF Apart

LEMMA BytesKeptHolds == IInv => BytesKept
<1> SUFFICES ASSUME IInv, Consistent, NEW i \in Named
             PROVE  /\ Holds(View, directory[i].sector, directory[i].name,
                             saved[directory[i].name])
                    /\ directory[i].size <= saved[directory[i].name]
  BY DEF BytesKept
<1>1. PICK c \in Ghosts : Structure(c)
  BY ConsistentStructured DEF Structured
<1>2. View \in Disks /\ File(View, directory[i], c[i], 0, saved[directory[i].name])
  BY <1>1, ViewFiles
<1>3. /\ Linked(View, directory[i].sector, c[i], 0)
      /\ Stored(View, c[i], directory[i].name, saved[directory[i].name])
      /\ directory[i].size <= saved[directory[i].name]
  BY <1>2 DEF File
<1>4. QED
  BY <1>2, <1>3, HoldsIs

LEMMA SurvivesHolds == IInv => SurvivesPowerLoss
<1> DEFINE lost(i) == IF i = current_file THEN Unwritten ELSE 0
<1> SUFFICES ASSUME IInv, ~damaged, NEW i \in Named \ AtRisk
             PROVE  /\ diskDirectory[i].name = directory[i].name
                    /\ diskDirectory[i].sector = directory[i].sector
                    /\ diskDirectory[i].size <= directory[i].size
                    /\ Holds(sector, directory[i].sector, directory[i].name,
                             saved[directory[i].name] - lost(i))
  BY DEF SurvivesPowerLoss
<1>1. i \in Slots /\ i \in 0..Free /\ directory[i].name # NoName
  BY Ranges DEF Named
<1>2. call # "format"
  BY <1>1, BlankIs DEF IInv, Formatting
<1>3. PICK c \in Ghosts : Structure(c)
  BY <1>2 DEF IInv, Followed, Structured
<1>4. i \in DiskNamed /\ i \in Named \ New
  <2>1. i \notin New
    <3>1. SUFFICES ASSUME Creating, directory[i].sector = directory[Free].sector PROVE FALSE
      BY DEF New
    <3>2. AtRisk = {k \in Slots : directory[k].sector = directory[Free].sector}
      BY <3>1 DEF AtRisk, Created, Creating, Linking
    <3>3. QED
      BY <1>1, <3>1, <3>2
  <2>2. QED
    BY <1>3, <2>1 DEF Structure
<1>5. /\ directory[i].name = diskDirectory[i].name
      /\ directory[i].sector = diskDirectory[i].sector
      /\ diskDirectory[i].size <= directory[i].size
  BY <1>3, <1>4 DEF Structure, Mirrors
<1>6. saved[directory[i].name] \in Nat
  <2>1. directory[i].name \in Names
    BY <1>1, EntryTypes DEF IInv, Types
  <2>2. QED
    BY <2>1 DEF IInv, Types
<1>7. saved[directory[i].name] - 0 = saved[directory[i].name]
  BY <1>6
<1>8. File(sector, diskDirectory[i], c[i], 0, saved[directory[i].name] - lost(i))
  <2>1. CASE WriterCount = 0
    <3>1. /\ Unwritten = 0
          /\ File(sector, diskDirectory[i], c[i], 0, saved[diskDirectory[i].name])
      BY <1>3, <1>4, <2>1, Quiet DEF IInv
    <3>2. QED
      BY <1>5, <1>7, <3>1
  <2>2. CASE WriterCount = 1
    <3>1. Writing
      BY <2>2 DEF IInv, Control
    <3>2. CASE i = current_file
      <4>1. ~Linking
        BY <3>2 DEF AtRisk, Linking
      <4>2. /\ File(sector, diskDirectory[i], c[i], Leads, saved[Writer] - Unwritten)
            /\ diskDirectory[i].name = Writer
        BY <1>3, <3>1, <3>2, Busy DEF IInv
      <4>3. QED
        BY <1>5, <3>2, <4>1, <4>2 DEF Leads
    <3>3. CASE i # current_file
      <4>1. File(sector, diskDirectory[i], c[i], 0, saved[diskDirectory[i].name])
        BY <1>3, <1>4, <3>1, <3>3, Others DEF IInv
      <4>2. QED
        BY <1>5, <1>7, <3>3, <4>1
    <3>4. QED
      BY <3>2, <3>3
  <2>3. QED
    BY <2>1, <2>2 DEF IInv, Types
<1> HIDE DEF lost
<1>9. Holds(sector, diskDirectory[i].sector, diskDirectory[i].name,
            saved[directory[i].name] - lost(i))
  <2>1. /\ Linked(sector, diskDirectory[i].sector, c[i], 0)
        /\ Stored(sector, c[i], diskDirectory[i].name, saved[directory[i].name] - lost(i))
        /\ sector \in Disks
    BY <1>8 DEF File, IInv, Types
  <2>2. QED
    BY <2>1, HoldsIs
<1>10. QED
  BY <1>5, <1>9

-----------------------------------------------------------------------------
(* The variables of the file system keep their types, through every failed     *)
(* access to the disk and every loss of power.                                 *)
THEOREM TypeCorrect == Spec => []TypeOK
<1>1. IInv => TypeOK
  BY DEF IInv, Types, TypeOK, Directories, Entries, Disks, Blocks
<1>2. QED
  BY <1>1, Invariant, PTL

(* Between calls the chains of files and free space end and share no sector:   *)
(* touch and write take sectors off the free chain and link them to one file   *)
(* only, in any order of the commands and also when the power went at a sector *)
(* write of touch, of format or of the closing of a file.  Excluded is what    *)
(* sets damaged: an error of the disk, the end of free space, and the loss of  *)
(* power while eFile_Write links a sector (eFile.c:334 to 370).  After that    *)
(* one the file leads to the sector that the next touch allocates.             *)
THEOREM ChainsStayApart == Spec => []ChainsApart
<1>1. QED
  BY ChainsApartHolds, Invariant, PTL

(* Between calls a file has the bytes that eFile_Write accepted for it and no  *)
(* others: none is lost at a sector boundary, by closing or by other files.    *)
(* After a loss of power it has those that were written, except on a disk      *)
(* damaged as above.                                                           *)
THEOREM NoByteLost == Spec => []BytesKept
<1>1. QED
  BY BytesKeptHolds, Invariant, PTL

(* At any moment until the disk is damaged, also between two sector writes of  *)
(* one call, the disk alone has every file but the one the call works on, with *)
(* all its bytes but those of the open sector.                                 *)
THEOREM DiskSurvives == Spec => []SurvivesPowerLoss
<1>1. QED
  BY SurvivesHolds, Invariant, PTL
=============================================================================
