---------------------------- MODULE UART0intProofs ----------------------------
(***************************************************************************)
(* Proofs about UART0int.  The characters are numbered, so a fifo, the     *)
(* hardware behind it and what has gone through both hold consecutive      *)
(* numbers: TxInv says which ones each of them holds, and that foreground  *)
(* and handler are never at TxFifo together, which needs ~Collide.  RxInv  *)
(* says the same of the receiver by positions in kept, and needs nothing.  *)
(***************************************************************************)
EXTENDS UART0int, SequenceTheorems, TLAPS

(* The assumptions on the constants, one by one. *)

LEMMA Bounds == /\ FIFOSIZE \in Nat /\ FIFOSIZE > 0
                /\ INDEXES \in Nat /\ INDEXES > FIFOSIZE
                /\ HWSIZE \in Nat /\ HWSIZE > 0
                /\ LENGTH \in Nat /\ LENGTH > 0
                /\ INDEXES % FIFOSIZE = 0
  BY UARTAssumption DEF UARTAssumption

-----------------------------------------------------------------------------
(* Free running indexes and the slots they name.                           *)

LEMMA Remainder ==
  ASSUME NEW q \in Int, NEW r \in 0..FIFOSIZE - 1
  PROVE  (q * FIFOSIZE + r) % FIFOSIZE = r
  BY Bounds

LEMMA Division ==
  ASSUME NEW a \in Nat
  PROVE  /\ a \div FIFOSIZE \in Nat
         /\ a % FIFOSIZE \in 0..FIFOSIZE - 1
         /\ a = (a \div FIFOSIZE) * FIFOSIZE + (a % FIFOSIZE)
  BY Bounds

LEMMA IndexPlus ==
  ASSUME NEW i \in 0..INDEXES - 1, NEW k \in 0..FIFOSIZE
  PROVE  /\ Plus(i, k) = IF i + k < INDEXES THEN i + k ELSE i + k - INDEXES
         /\ Plus(i, k) \in 0..INDEXES - 1
  BY Bounds DEF Plus

LEMMA IndexSize ==
  ASSUME NEW p \in 0..INDEXES - 1, NEW g \in 0..INDEXES - 1
  PROVE  /\ Size(p, g) = IF p >= g THEN p - g ELSE p - g + INDEXES
         /\ Size(p, g) \in 0..INDEXES - 1
  BY Bounds DEF Size

LEMMA SizePlus ==
  ASSUME NEW p \in 0..INDEXES - 1, NEW g \in 0..INDEXES - 1,
         NEW n \in 0..FIFOSIZE, Size(p, g) <= FIFOSIZE
  PROVE  /\ Size(p, g) + n <= FIFOSIZE => Size(Plus(p, n), g) = Size(p, g) + n
         /\ n <= Size(p, g) => Size(p, Plus(g, n)) = Size(p, g) - n
<1>1. Size(p, g) = IF p >= g THEN p - g ELSE p - g + INDEXES
  BY IndexSize
<1>2. ASSUME Size(p, g) + n <= FIFOSIZE PROVE Size(Plus(p, n), g) = Size(p, g) + n
  <2>1. /\ Plus(p, n) = IF p + n < INDEXES THEN p + n ELSE p + n - INDEXES
        /\ Plus(p, n) \in 0..INDEXES - 1
    BY IndexPlus
  <2>2. Size(Plus(p, n), g) = IF Plus(p, n) >= g THEN Plus(p, n) - g
                              ELSE Plus(p, n) - g + INDEXES
    BY <2>1, IndexSize
  <2>3. QED
    BY <1>1, <1>2, <2>1, <2>2, Bounds
<1>3. ASSUME n <= Size(p, g) PROVE Size(p, Plus(g, n)) = Size(p, g) - n
  <2>1. /\ Plus(g, n) = IF g + n < INDEXES THEN g + n ELSE g + n - INDEXES
        /\ Plus(g, n) \in 0..INDEXES - 1
    BY IndexPlus
  <2>2. Size(p, Plus(g, n)) = IF p >= Plus(g, n) THEN p - Plus(g, n)
                              ELSE p - Plus(g, n) + INDEXES
    BY <2>1, IndexSize
  <2>3. QED
    BY <1>1, <1>3, <2>1, <2>2, Bounds
<1>4. QED
  BY <1>2, <1>3

(* Indexes that differ by INDEXES name the same slot. *)
LEMMA SameRemainder ==
  ASSUME NEW a \in Nat, a >= INDEXES
  PROVE  (a - INDEXES) % FIFOSIZE = a % FIFOSIZE
<1> DEFINE q == a \div FIFOSIZE
           r == a % FIFOSIZE
           m == INDEXES \div FIFOSIZE
<1>1. q \in Nat /\ r \in 0..FIFOSIZE - 1 /\ a = q * FIFOSIZE + r
  BY Division
<1>2. m \in Nat /\ INDEXES = m * FIFOSIZE
  BY Division, Bounds
<1> HIDE DEF q, r, m
<1>3. a - INDEXES = (q - m) * FIFOSIZE + r
  BY <1>1, <1>2, Bounds
<1>4. (a - INDEXES) % FIFOSIZE = r
  BY <1>1, <1>2, <1>3, Remainder
<1>5. QED
  BY <1>4 DEF r

LEMMA SlotPlus ==
  ASSUME NEW i \in 0..INDEXES - 1, NEW n \in 0..FIFOSIZE, NEW k \in Nat
  PROVE  (Plus(i, n) + k) % FIFOSIZE = (i + n + k) % FIFOSIZE
<1>1. CASE i + n < INDEXES
  BY <1>1, IndexPlus
<1>2. CASE i + n >= INDEXES
  <2>1. Plus(i, n) + k = (i + n + k) - INDEXES
    BY <1>2, IndexPlus, Bounds
  <2>2. i + n + k \in Nat /\ i + n + k >= INDEXES
    BY <1>2, Bounds
  <2>3. QED
    BY <2>1, <2>2, SameRemainder
<1>3. QED
  BY <1>1, <1>2, Bounds

(* The slot behind n elements from index g on is none of theirs. *)
LEMMA OtherSlot ==
  ASSUME NEW a \in Nat, NEW d \in 1..FIFOSIZE - 1
  PROVE  a % FIFOSIZE # (a + d) % FIFOSIZE
<1> DEFINE q == a \div FIFOSIZE
           r == a % FIFOSIZE
<1>1. q \in Nat /\ r \in 0..FIFOSIZE - 1 /\ a = q * FIFOSIZE + r
  BY Division
<1> HIDE DEF q, r
<1>2. CASE r + d < FIFOSIZE
  <2>1. a + d = q * FIFOSIZE + (r + d) /\ r + d \in 0..FIFOSIZE - 1
    BY <1>1, <1>2, Bounds
  <2>2. (a + d) % FIFOSIZE = r + d
    BY <1>1, <2>1, Remainder
  <2>3. QED
    BY <1>1, <2>2 DEF r
<1>3. CASE r + d >= FIFOSIZE
  <2>1. a + d = (q + 1) * FIFOSIZE + (r + d - FIFOSIZE) /\ r + d - FIFOSIZE \in 0..FIFOSIZE - 1
    BY <1>1, <1>3, Bounds
  <2>2. (a + d) % FIFOSIZE = r + d - FIFOSIZE
    BY <1>1, <2>1, Remainder
  <2>3. QED
    BY <1>1, <2>2, Bounds DEF r
<1>4. QED
  BY <1>1, <1>2, <1>3, Bounds

LEMMA Min2 == ASSUME NEW a \in Nat, NEW b \in Nat PROVE Min({a, b}) = IF a <= b THEN a ELSE b
  BY DEF Min
LEMMA AroundTheFifo ==
  ASSUME NEW a \in Nat
  PROVE  (a + FIFOSIZE) % FIFOSIZE = a % FIFOSIZE
<1> DEFINE q == a \div FIFOSIZE
           r == a % FIFOSIZE
<1>1. q \in Nat /\ r \in 0..FIFOSIZE - 1 /\ a = q * FIFOSIZE + r
  BY Division
<1> HIDE DEF q, r
<1>2. a + FIFOSIZE = (q + 1) * FIFOSIZE + r
  BY <1>1, Bounds
<1>3. QED
  BY <1>1, <1>2, Remainder DEF r

-----------------------------------------------------------------------------
(* An index fifo with put index p and get index g.                         *)

(* The put index is where the elements end. *)
LEMMA PutSlot ==
  ASSUME NEW p \in 0..INDEXES - 1, NEW g \in 0..INDEXES - 1, Size(p, g) <= FIFOSIZE,
         NEW k \in Nat
  PROVE  (p + k) % FIFOSIZE = (g + Size(p, g) + k) % FIFOSIZE
<1>1. Size(p, g) \in 0..FIFOSIZE /\ Size(p, g) = IF p >= g THEN p - g ELSE p - g + INDEXES
  BY IndexSize, Bounds
<1>2. p = Plus(g, Size(p, g))
  BY <1>1, IndexPlus, Bounds
<1>3. QED
  BY <1>1, <1>2, SlotPlus

LEMMA PutSlots ==
  ASSUME NEW p \in 0..INDEXES - 1, NEW g \in 0..INDEXES - 1, Size(p, g) < FIFOSIZE
  PROVE  /\ Plus(p, 1) \in 0..INDEXES - 1
         /\ Size(Plus(p, 1), g) = Size(p, g) + 1
         /\ p % FIFOSIZE \in 0..FIFOSIZE - 1
         /\ p % FIFOSIZE = (g + Size(p, g)) % FIFOSIZE
         /\ \A k \in 1..Size(p, g) : /\ (g + k - 1) % FIFOSIZE \in 0..FIFOSIZE - 1
                                     /\ (g + k - 1) % FIFOSIZE # p % FIFOSIZE
<1>1. Size(p, g) \in 0..FIFOSIZE - 1
  BY IndexSize, Bounds
<1>2. Plus(p, 1) \in 0..INDEXES - 1 /\ Size(Plus(p, 1), g) = Size(p, g) + 1
  <2>1. 1 \in 0..FIFOSIZE /\ Size(p, g) + 1 <= FIFOSIZE
    BY <1>1, Bounds
  <2>2. Plus(p, 1) \in 0..INDEXES - 1
    BY <2>1, IndexPlus
  <2>3. QED
    BY <1>1, <2>1, <2>2, SizePlus, Bounds
<1>3. p % FIFOSIZE = (g + Size(p, g)) % FIFOSIZE
  <2>1. (p + 0) % FIFOSIZE = (g + Size(p, g) + 0) % FIFOSIZE
    BY <1>1, PutSlot, Bounds
  <2>2. QED
    BY <1>1, <2>1, Bounds
<1>4. p % FIFOSIZE \in 0..FIFOSIZE - 1
  BY Division, Bounds
<1>5. ASSUME NEW k \in 1..Size(p, g)
      PROVE  /\ (g + k - 1) % FIFOSIZE \in 0..FIFOSIZE - 1
             /\ (g + k - 1) % FIFOSIZE # p % FIFOSIZE
  <2>1. /\ g + k - 1 \in Nat
        /\ Size(p, g) - k + 1 \in 1..FIFOSIZE - 1
        /\ g + k - 1 + (Size(p, g) - k + 1) = g + Size(p, g)
    BY <1>1, Bounds
  <2>2. (g + k - 1) % FIFOSIZE # (g + Size(p, g)) % FIFOSIZE
    BY <2>1, OtherSlot
  <2>3. QED
    BY <1>3, <2>1, <2>2, Division
<1>6. QED
  BY <1>2, <1>3, <1>4, <1>5

LEMMA GetElements ==
  ASSUME NEW p \in 0..INDEXES - 1, NEW g \in 0..INDEXES - 1, Size(p, g) <= FIFOSIZE,
         NEW n \in 0..Size(p, g)
  PROVE  /\ Plus(g, n) \in 0..INDEXES - 1
         /\ Size(p, Plus(g, n)) = Size(p, g) - n
         /\ \A k \in 1..Size(p, g) - n :
              (Plus(g, n) + k - 1) % FIFOSIZE = (g + (n + k) - 1) % FIFOSIZE
<1>1. n \in 0..FIFOSIZE /\ Size(p, g) \in Nat
  BY IndexSize, Bounds
<1>2. Plus(g, n) \in 0..INDEXES - 1
  BY <1>1, IndexPlus
<1>3. \A k \in 1..Size(p, g) - n :
        (Plus(g, n) + k - 1) % FIFOSIZE = (g + (n + k) - 1) % FIFOSIZE
  <2> TAKE k \in 1..Size(p, g) - n
  <2>1. k - 1 \in Nat /\ Plus(g, n) + k - 1 = Plus(g, n) + (k - 1)
        /\ g + (n + k) - 1 = g + n + (k - 1)
    BY <1>1, <1>2, Bounds
  <2>2. QED
    BY <1>1, <2>1, SlotPlus
<1>4. QED
  BY <1>1, <1>2, <1>3, SizePlus

(* n elements put at once, as the handler does: their slots are counted from
   the put index on. *)
LEMMA BackFromSlot ==
  ASSUME NEW p \in 0..INDEXES - 1, NEW j \in 0..FIFOSIZE - 1
  PROVE  /\ (p + j) % FIFOSIZE \in 0..FIFOSIZE - 1
         /\ (((p + j) % FIFOSIZE) - p) % FIFOSIZE = j
<1> DEFINE q == (p + j) \div FIFOSIZE
           r == (p + j) % FIFOSIZE
<1>1. p + j \in Nat
  BY Bounds
<1>2. q \in Nat /\ r \in 0..FIFOSIZE - 1 /\ p + j = q * FIFOSIZE + r
  BY <1>1, Division
<1> HIDE DEF q, r
<1>3. r - p = (0 - q) * FIFOSIZE + j
  BY <1>1, <1>2, Bounds
<1>4. (r - p) % FIFOSIZE = j
  BY <1>2, <1>3, Remainder
<1>5. QED
  BY <1>2, <1>4 DEF r

LEMMA ManySlots ==
  ASSUME NEW p \in 0..INDEXES - 1, NEW g \in 0..INDEXES - 1, Size(p, g) < FIFOSIZE,
         NEW n \in 0..FIFOSIZE - 1 - Size(p, g)
  PROVE  /\ Plus(p, n) \in 0..INDEXES - 1
         /\ Size(Plus(p, n), g) = Size(p, g) + n
         /\ \A k \in 1..Size(p, g) :
              /\ (g + k - 1) % FIFOSIZE \in 0..FIFOSIZE - 1
              /\ ~(1 + ((((g + k - 1) % FIFOSIZE) - p) % FIFOSIZE) <= n)
         /\ \A k \in 1..n :
              /\ (g + (Size(p, g) + k) - 1) % FIFOSIZE \in 0..FIFOSIZE - 1
              /\ 1 + ((((g + (Size(p, g) + k) - 1) % FIFOSIZE) - p) % FIFOSIZE) = k
<1>1. Size(p, g) \in 0..FIFOSIZE - 1 /\ n \in 0..FIFOSIZE /\ Size(p, g) + n <= FIFOSIZE - 1
  <2>1. Size(p, g) \in 0..FIFOSIZE - 1
    BY IndexSize, Bounds
  <2>2. QED
    BY <2>1, Bounds
<1>2. Plus(p, n) \in 0..INDEXES - 1 /\ Size(Plus(p, n), g) = Size(p, g) + n
  <2>1. Plus(p, n) \in 0..INDEXES - 1
    BY <1>1, IndexPlus
  <2>2. QED
    BY <1>1, <2>1, SizePlus, Bounds
<1>3. \A k \in Nat : (p + k) % FIFOSIZE = (g + Size(p, g) + k) % FIFOSIZE
  BY <1>1, PutSlot, Bounds
<1>4. ASSUME NEW k \in 1..Size(p, g)
      PROVE  /\ (g + k - 1) % FIFOSIZE \in 0..FIFOSIZE - 1
             /\ ~(1 + ((((g + k - 1) % FIFOSIZE) - p) % FIFOSIZE) <= n)
  <2> DEFINE j == FIFOSIZE - Size(p, g) + k - 1
  <2>1. j \in 0..FIFOSIZE - 1 /\ 1 + j > n
    BY <1>1, Bounds
  <2>2. g + k - 1 \in Nat /\ g + Size(p, g) + j = g + k - 1 + FIFOSIZE
    BY <1>1, Bounds
  <2> HIDE DEF j
  <2>3. (p + j) % FIFOSIZE = (g + k - 1) % FIFOSIZE
    <3>1. (p + j) % FIFOSIZE = (g + Size(p, g) + j) % FIFOSIZE
      BY <1>3, <2>1
    <3>2. QED
      BY <2>2, <3>1, AroundTheFifo
  <2>4. /\ (p + j) % FIFOSIZE \in 0..FIFOSIZE - 1
        /\ (((p + j) % FIFOSIZE) - p) % FIFOSIZE = j
    BY <2>1, BackFromSlot
  <2>5. QED
    BY <1>1, <2>1, <2>3, <2>4, Bounds
<1>5. ASSUME NEW k \in 1..n
      PROVE  /\ (g + (Size(p, g) + k) - 1) % FIFOSIZE \in 0..FIFOSIZE - 1
             /\ 1 + ((((g + (Size(p, g) + k) - 1) % FIFOSIZE) - p) % FIFOSIZE) = k
  <2>1. k - 1 \in 0..FIFOSIZE - 1 /\ g + (Size(p, g) + k) - 1 = g + Size(p, g) + (k - 1)
    BY <1>1, Bounds
  <2>2. (p + (k - 1)) % FIFOSIZE = (g + (Size(p, g) + k) - 1) % FIFOSIZE
    BY <1>3, <2>1
  <2>3. /\ (p + (k - 1)) % FIFOSIZE \in 0..FIFOSIZE - 1
        /\ (((p + (k - 1)) % FIFOSIZE) - p) % FIFOSIZE = k - 1
    BY <2>1, BackFromSlot
  <2>4. QED
    BY <1>1, <2>2, <2>3
<1>6. QED
  BY <1>2, <1>4, <1>5

-----------------------------------------------------------------------------
(* The transmitter.                                                        *)

Passing == IF pc = "send" THEN 1 ELSE 0

(* The number of the last character that has left TxFifo. *)
Left == Len(sent) + Len(txHW) + Passing

TxTypes ==
  /\ TxPutI \in 0..INDEXES - 1
  /\ TxGetI \in 0..INDEXES - 1
  /\ TxFifo \in [0..FIFOSIZE - 1 -> 0..LENGTH]
  /\ txHW \in Seq(1..LENGTH) /\ Len(txHW) <= HWSIZE
  /\ sent \in Seq(1..LENGTH)
  /\ TXIM \in BOOLEAN /\ TXRIS \in BOOLEAN
  /\ pc \in {"ready", "mask", "copy", "read", "load", "store", "send", "unmask"}
  /\ letter \in 0..LENGTH
  /\ index \in 0..INDEXES - 1
  /\ written \in 0..LENGTH
  /\ TxSize <= FIFOSIZE

(* While the foreground copies, it is alone at TxFifo. *)
CopyControl ==
  /\ Copying \/ pc = "unmask" => ~TXIM
  /\ pc \in {"read", "load", "store"} => TxSize > 0
  /\ pc \in {"read", "load", "store", "send"} => Len(txHW) < HWSIZE
  /\ pc \in {"load", "store"} => letter = TxFifo[TxGetI % FIFOSIZE]
  /\ pc = "store" => index = Plus(TxGetI, 1)

(* The characters are, in order: on the line, in the hardware, in the hand of the
   foreground, in TxFifo. *)
TxStream ==
  /\ \A k \in 1..Len(sent) : sent[k] = k
  /\ \A k \in 1..Len(txHW) : txHW[k] = Len(sent) + k
  /\ pc = "send" => letter = Left
  /\ \A k \in 1..TxSize : TxFifo[(TxGetI + k - 1) % FIFOSIZE] = Left + k
  /\ Left + TxSize = written

TxInv == TxTypes /\ CopyControl /\ TxStream

LEMMA TxNumbers ==
  ASSUME TxTypes
  PROVE  /\ TxSize \in 0..FIFOSIZE
         /\ Len(sent) \in Nat /\ Len(txHW) \in 0..HWSIZE
         /\ Passing \in 0..1 /\ Left \in Nat
<1>1. TxSize \in 0..FIFOSIZE
  BY IndexSize, Bounds DEF TxTypes, TxSize
<1>2. QED
  BY <1>1, Bounds DEF TxTypes, Passing, Left

LEMMA TxInit == Init => TxInv
<1> SUFFICES ASSUME Init PROVE TxInv
  OBVIOUS
<1>1. TxSize = 0
  BY IndexSize, Bounds DEF Init, TxSize
<1>2. Left = 0
  BY DEF Init, Left, Passing
<1>3. TxTypes
  <2>1. 0 \in 0..INDEXES - 1 /\ 0 \in 0..LENGTH /\ 0 <= HWSIZE /\ 0 <= FIFOSIZE
    BY Bounds
  <2>2. <<>> \in Seq(1..LENGTH) /\ Len(<<>>) = 0
    BY EmptySeq
  <2>3. TxFifo \in [0..FIFOSIZE - 1 -> 0..LENGTH]
    BY <2>1 DEF Init
  <2>4. QED
    BY <1>1, <2>1, <2>2, <2>3 DEF Init, TxTypes
<1>4. CopyControl
  BY DEF Init, CopyControl, Copying
<1>5. TxStream
  BY <1>1, <1>2 DEF Init, TxStream
<1>6. QED
  BY <1>3, <1>4, <1>5 DEF TxInv

LEMMA TxPut == TxInv /\ TxFifo_Put => TxInv'
<1> SUFFICES ASSUME TxInv, TxFifo_Put PROVE TxInv'
  OBVIOUS
<1>1. /\ pc = "ready" /\ pc' = "mask" /\ written < LENGTH
      /\ TxSize < FIFOSIZE
      /\ TxFifo' = [TxFifo EXCEPT ![TxPutI % FIFOSIZE] = written + 1]
      /\ TxPutI' = Plus(TxPutI, 1)
      /\ written' = written + 1
      /\ UNCHANGED <<TxGetI, txHW, TXIM, TXRIS, letter, index, sent>>
  BY TxNumbers, Bounds DEF TxFifo_Put, Full, TxInv
<1>2. TxTypes /\ CopyControl /\ TxStream
  BY DEF TxInv
<1>3. /\ TxPutI \in 0..INDEXES - 1 /\ TxGetI \in 0..INDEXES - 1
      /\ Size(TxPutI, TxGetI) < FIFOSIZE
  BY <1>1, <1>2 DEF TxTypes, TxSize
<1>4. /\ TxPutI' \in 0..INDEXES - 1
      /\ TxSize' = TxSize + 1
      /\ TxPutI % FIFOSIZE \in 0..FIFOSIZE - 1
  BY <1>1, <1>3, PutSlots DEF TxSize
<1>5. /\ \A k \in 1..TxSize :
           TxFifo'[(TxGetI + k - 1) % FIFOSIZE] = TxFifo[(TxGetI + k - 1) % FIFOSIZE]
      /\ TxFifo'[(TxGetI + TxSize) % FIFOSIZE] = written + 1
  <2>1. /\ TxPutI % FIFOSIZE = (TxGetI + TxSize) % FIFOSIZE
        /\ \A k \in 1..TxSize : /\ (TxGetI + k - 1) % FIFOSIZE \in 0..FIFOSIZE - 1
                                /\ (TxGetI + k - 1) % FIFOSIZE # TxPutI % FIFOSIZE
    BY <1>3, PutSlots DEF TxSize
  <2>2. TxFifo \in [0..FIFOSIZE - 1 -> 0..LENGTH]
    BY <1>2 DEF TxTypes
  <2>3. QED
    BY <1>1, <1>4, <2>1, <2>2
<1>6. Left' = Left /\ Left \in Nat /\ TxSize \in Nat /\ Left + TxSize = written
  BY <1>1, <1>2, TxNumbers, Bounds DEF Left, Passing, TxStream
<1>7. \A k \in 1..TxSize' : TxFifo'[(TxGetI' + k - 1) % FIFOSIZE] = Left' + k
  <2> TAKE k \in 1..TxSize'
  <2>1. CASE k = TxSize + 1
    <3>1. TxGetI + k - 1 = TxGetI + TxSize
      BY <1>3, <1>6, <2>1
    <3>2. QED
      BY <1>1, <1>5, <1>6, <2>1, <3>1
  <2>2. CASE k \in 1..TxSize
    BY <1>1, <1>2, <1>5, <1>6, <2>2 DEF TxStream
  <2>3. QED
    BY <1>4, <1>6, <2>1, <2>2
<1>8. TxTypes'
  BY <1>1, <1>2, <1>4, <1>6, Bounds DEF TxTypes
<1>9. CopyControl'
  BY <1>1 DEF CopyControl, Copying
<1>10. TxStream'
  BY <1>1, <1>2, <1>4, <1>6, <1>7 DEF TxStream
<1>11. QED
  BY <1>8, <1>9, <1>10 DEF TxInv

LEMMA TxMasks == TxInv /\ (Mask \/ Unmask) => TxInv'
<1> SUFFICES ASSUME TxInv, Mask \/ Unmask PROVE TxInv'
  OBVIOUS
<1>1. /\ (pc = "mask" /\ TXIM' = FALSE /\ pc' = "copy")
         \/ (pc = "unmask" /\ TXIM' = TRUE /\ pc' = "ready")
      /\ UNCHANGED <<TxPutI, TxGetI, TxFifo, txHW, TXRIS, letter, index, written, sent>>
  BY DEF Mask, Unmask, Enabled
<1>2. TxSize' = TxSize /\ Left' = Left
  BY <1>1 DEF TxSize, Left, Passing
<1>3. QED
  BY <1>1, <1>2 DEF TxInv, TxTypes, CopyControl, TxStream, Copying

LEMMA TxCopies == TxInv /\ Copy => TxInv'
<1> SUFFICES ASSUME TxInv, Copy PROVE TxInv'
  OBVIOUS
<1>1. UNCHANGED <<TxPutI, TxGetI, TxFifo, txHW, TXIM, TXRIS, written, sent>>
  BY DEF Copy, tx
<1>2. /\ pc \in {"copy", "read", "load"}
      /\ pc' \in {"read", "unmask", "load", "store"}
  BY DEF Copy
<1>3. TxSize' = TxSize /\ Left' = Left
  BY <1>1, <1>2 DEF TxSize, Left, Passing
<1>4. TxTypes /\ CopyControl /\ TxStream /\ ~TXIM
  BY <1>2 DEF TxInv, CopyControl, Copying
<1>5. TxStream'
  BY <1>1, <1>2, <1>3, <1>4 DEF TxStream
<1>6. CASE pc = "copy"
  <2>1. /\ pc' = "unmask" \/ (pc' = "read" /\ Len(txHW) < HWSIZE /\ TxSize > 0)
        /\ UNCHANGED <<letter, index>>
    BY <1>6 DEF Copy, CopyMore
  <2>2. QED
    BY <1>1, <1>3, <1>4, <1>5, <2>1 DEF TxInv, TxTypes, CopyControl, Copying
<1>7. CASE pc = "read"
  <2>1. pc' = "load" /\ letter' = TxFifo[TxGetI % FIFOSIZE] /\ UNCHANGED index
    BY <1>7 DEF Copy
  <2>2. TxGetI % FIFOSIZE \in 0..FIFOSIZE - 1
    BY <1>4, Division, Bounds DEF TxTypes
  <2>3. QED
    BY <1>1, <1>3, <1>4, <1>5, <1>7, <2>1, <2>2 DEF TxInv, TxTypes, CopyControl, Copying
<1>8. CASE pc = "load"
  <2>1. pc' = "store" /\ index' = Plus(TxGetI, 1) /\ UNCHANGED letter
    BY <1>8 DEF Copy
  <2>2. Plus(TxGetI, 1) \in 0..INDEXES - 1
    <3>1. 1 \in 0..FIFOSIZE /\ TxGetI \in 0..INDEXES - 1
      BY <1>4, Bounds DEF TxTypes
    <3>2. QED
      BY <3>1, IndexPlus
  <2>3. QED
    BY <1>1, <1>3, <1>4, <1>5, <1>8, <2>1, <2>2 DEF TxInv, TxTypes, CopyControl, Copying
<1>9. QED
  BY <1>2, <1>6, <1>7, <1>8

(* TxFifo_Get stores the index: the character passes into the foreground's hand. *)
LEMMA TxCopyStore == TxInv /\ CopyStore => TxInv'
<1> SUFFICES ASSUME TxInv, CopyStore PROVE TxInv'
  OBVIOUS
<1>1. /\ pc = "store" /\ pc' = "send" /\ TxGetI' = index
      /\ UNCHANGED <<TxPutI, TxFifo, txHW, TXIM, TXRIS, letter, index, written, sent>>
  BY DEF CopyStore
<1>2. TxTypes /\ CopyControl /\ TxStream
  BY DEF TxInv
<1>3. /\ index = Plus(TxGetI, 1) /\ letter = TxFifo[TxGetI % FIFOSIZE]
      /\ TxSize > 0 /\ Len(txHW) < HWSIZE /\ ~TXIM
  BY <1>1, <1>2 DEF CopyControl, Copying
<1>4. /\ TxPutI \in 0..INDEXES - 1 /\ TxGetI \in 0..INDEXES - 1
      /\ Size(TxPutI, TxGetI) <= FIFOSIZE
      /\ TxSize \in Nat
  BY <1>2, TxNumbers DEF TxTypes, TxSize
<1>5. 1 \in 0..Size(TxPutI, TxGetI)
  BY <1>3, <1>4 DEF TxSize
<1>6. /\ TxSize' = TxSize - 1
      /\ \A k \in 1..TxSize - 1 :
           (TxGetI' + k - 1) % FIFOSIZE = (TxGetI + (1 + k) - 1) % FIFOSIZE
  BY <1>1, <1>3, <1>4, <1>5, GetElements DEF TxSize
<1>7. Left' = Left + 1 /\ Left \in Nat
  BY <1>1, <1>2, TxNumbers DEF Left, Passing, TxTypes
<1>8. letter = Left + 1
  <2>1. 1 \in 1..TxSize /\ TxGetI + 1 - 1 = TxGetI
    BY <1>3, <1>4
  <2>2. TxFifo[(TxGetI + 1 - 1) % FIFOSIZE] = Left + 1
    BY <1>2, <2>1 DEF TxStream
  <2>3. QED
    BY <1>3, <2>1, <2>2
<1>9. \A k \in 1..TxSize' : TxFifo'[(TxGetI' + k - 1) % FIFOSIZE] = Left' + k
  <2> TAKE k \in 1..TxSize'
  <2>1. 1 + k \in 1..TxSize /\ k \in 1..TxSize - 1
    BY <1>4, <1>6
  <2>2. TxFifo[(TxGetI + (1 + k) - 1) % FIFOSIZE] = Left + (1 + k)
    BY <1>2, <2>1 DEF TxStream
  <2>3. QED
    BY <1>1, <1>6, <1>7, <2>1, <2>2
<1>10. TxTypes'
  <2>1. TxSize' <= FIFOSIZE
    BY <1>2, <1>4, <1>6, Bounds DEF TxTypes
  <2>2. QED
    BY <1>1, <1>2, <2>1 DEF TxTypes
<1>11. CopyControl'
  BY <1>1, <1>3 DEF CopyControl, Copying
<1>12. TxStream'
  <2>1. Left' + TxSize' = written'
    BY <1>1, <1>2, <1>4, <1>6, <1>7 DEF TxStream
  <2>2. QED
    BY <1>1, <1>2, <1>7, <1>8, <1>9, <2>1 DEF TxStream
<1>13. QED
  BY <1>10, <1>11, <1>12 DEF TxInv

LEMMA TxCopySend == TxInv /\ CopySend => TxInv'
<1> SUFFICES ASSUME TxInv, CopySend PROVE TxInv'
  OBVIOUS
<1>1. TxTypes /\ CopyControl /\ TxStream
  BY DEF TxInv
<1>2. /\ pc = "send" /\ pc' = "copy" /\ ~TXIM
      /\ Len(txHW) < HWSIZE /\ txHW' = Append(txHW, letter)
      /\ UNCHANGED <<TxPutI, TxGetI, TxFifo, TXIM, TXRIS, letter, index, written, sent>>
  BY <1>1 DEF CopySend, CopyControl, Copying
<1>3. /\ txHW \in Seq(1..LENGTH) /\ Len(txHW) \in Nat /\ Len(sent) \in Nat
      /\ written \in 0..LENGTH /\ TxSize \in Nat
  BY <1>1, TxNumbers, Bounds DEF TxTypes
<1>4. Left = Len(sent) + Len(txHW) + 1 /\ letter = Left /\ Left + TxSize = written
  BY <1>1, <1>2 DEF Left, Passing, TxStream
<1>5. letter \in 1..LENGTH
  BY <1>3, <1>4, Bounds
<1>6. /\ txHW' \in Seq(1..LENGTH) /\ Len(txHW') = Len(txHW) + 1
      /\ \A k \in 1..Len(txHW) + 1 :
           txHW'[k] = IF k = Len(txHW) + 1 THEN letter ELSE txHW[k]
  BY <1>2, <1>3, <1>5
<1>7. Left' = Left /\ TxSize' = TxSize
  BY <1>2, <1>3, <1>4, <1>6 DEF Left, Passing, TxSize
<1>8. \A k \in 1..Len(txHW') : txHW'[k] = Len(sent') + k
  <2> TAKE k \in 1..Len(txHW')
  <2>1. k \in 1..Len(txHW) + 1 /\ Len(sent') = Len(sent)
    BY <1>2, <1>6
  <2>2. CASE k = Len(txHW) + 1
    BY <1>3, <1>4, <1>6, <2>1, <2>2
  <2>3. CASE k # Len(txHW) + 1
    <3>1. k \in 1..Len(txHW)
      BY <1>3, <2>1, <2>3
    <3>2. txHW[k] = Len(sent) + k
      BY <1>1, <3>1 DEF TxStream
    <3>3. QED
      BY <1>6, <2>1, <2>3, <3>2
  <2>4. QED
    BY <2>2, <2>3
<1>9. TxTypes'
  <2>1. Len(txHW') <= HWSIZE
    BY <1>2, <1>3, <1>6, Bounds
  <2>2. QED
    BY <1>1, <1>2, <1>6, <1>7, <2>1 DEF TxTypes
<1>10. CopyControl'
  BY <1>2 DEF CopyControl, Copying
<1>11. TxStream'
  BY <1>1, <1>2, <1>7, <1>8 DEF TxStream
<1>12. QED
  BY <1>9, <1>10, <1>11 DEF TxInv

LEMMA TxTransmit ==
  ASSUME TxInv, Transmit
  PROVE  TxInv' /\ sent' = Append(sent, Len(sent) + 1)
<1>1. TxTypes /\ CopyControl /\ TxStream
  BY DEF TxInv
<1>2. /\ txHW # <<>> /\ txHW \in Seq(1..LENGTH) /\ sent \in Seq(1..LENGTH)
      /\ sent' = Append(sent, Head(txHW)) /\ txHW' = Tail(txHW)
      /\ TXRIS' \in BOOLEAN
      /\ UNCHANGED <<TxPutI, TxGetI, TxFifo, TXIM, pc, letter, index, written>>
  BY <1>1 DEF Transmit, TxTypes, fg
<1>3. /\ Len(txHW) \in 1..HWSIZE /\ Len(sent) \in Nat
      /\ Head(txHW) = txHW[1] /\ Head(txHW) \in 1..LENGTH
      /\ txHW' \in Seq(1..LENGTH) /\ Len(txHW') = Len(txHW) - 1
      /\ \A k \in 1..Len(txHW) - 1 : txHW'[k] = txHW[k + 1]
  BY <1>1, <1>2, TxNumbers, EmptySeq, HeadTailProperties, Bounds
<1>4. Head(txHW) = Len(sent) + 1
  BY <1>1, <1>3, Bounds DEF TxStream
<1>5. /\ sent' \in Seq(1..LENGTH) /\ Len(sent') = Len(sent) + 1
      /\ \A k \in 1..Len(sent) + 1 :
           sent'[k] = IF k = Len(sent) + 1 THEN Head(txHW) ELSE sent[k]
  BY <1>2, <1>3
<1>6. Left' = Left /\ TxSize' = TxSize
  BY <1>2, <1>3, <1>5, Bounds DEF Left, Passing, TxSize
<1>7. \A k \in 1..Len(sent') : sent'[k] = k
  <2> TAKE k \in 1..Len(sent')
  <2>1. k \in 1..Len(sent) + 1
    BY <1>5
  <2>2. CASE k = Len(sent) + 1
    BY <1>4, <1>5, <2>1, <2>2
  <2>3. CASE k # Len(sent) + 1
    <3>1. k \in 1..Len(sent)
      BY <1>3, <2>1, <2>3
    <3>2. sent[k] = k
      BY <1>1, <3>1 DEF TxStream
    <3>3. QED
      BY <1>5, <2>1, <2>3, <3>2
  <2>4. QED
    BY <2>2, <2>3
<1>8. \A k \in 1..Len(txHW') : txHW'[k] = Len(sent') + k
  <2> TAKE k \in 1..Len(txHW')
  <2>1. k + 1 \in 1..Len(txHW) /\ txHW'[k] = txHW[k + 1]
    BY <1>3, Bounds
  <2>2. txHW[k + 1] = Len(sent) + (k + 1)
    BY <1>1, <2>1 DEF TxStream
  <2>3. QED
    BY <1>3, <1>5, <2>1, <2>2
<1>9. TxTypes'
  <2>1. Len(txHW') <= HWSIZE /\ Len(txHW') < Len(txHW)
    BY <1>3, Bounds
  <2>2. QED
    BY <1>1, <1>2, <1>3, <1>5, <1>6, <2>1 DEF TxTypes
<1>10. CopyControl'
  <2>1. Len(txHW) < HWSIZE => Len(txHW') < HWSIZE
    BY <1>3, Bounds
  <2>2. QED
    BY <1>1, <1>2, <1>6, <2>1 DEF CopyControl, Copying
<1>11. TxStream'
  BY <1>1, <1>2, <1>6, <1>7, <1>8 DEF TxStream
<1>12. QED
  BY <1>2, <1>4, <1>9, <1>10, <1>11 DEF TxInv


(* The first n characters of TxFifo. *)
LEMMA TxElements ==
  ASSUME TxTypes, TxStream, NEW n \in 0..TxSize
  PROVE  LET e == Elements(TxFifo, TxGetI, n)
         IN  /\ e \in Seq(1..LENGTH)
             /\ Len(e) = n
             /\ \A k \in 1..n : e[k] = Left + k
<1>1. TxSize \in Nat /\ Left \in Nat /\ Left + TxSize \in 0..LENGTH
  <2>1. TxSize \in 0..FIFOSIZE /\ Left \in Nat
    BY TxNumbers
  <2>2. Left + TxSize = written /\ written \in 0..LENGTH
    BY DEF TxTypes, TxStream
  <2>3. QED
    BY <2>1, <2>2, Bounds
<1>2. \A k \in 1..n : /\ TxFifo[(TxGetI + k - 1) % FIFOSIZE] = Left + k
                      /\ Left + k \in 1..LENGTH
  <2> TAKE k \in 1..n
  <2>1. k \in 1..TxSize /\ Left + k \in 1..LENGTH
    BY <1>1, Bounds
  <2>2. QED
    BY <2>1 DEF TxStream
<1>3. Elements(TxFifo, TxGetI, n) = [k \in 1..n |-> Left + k]
  BY <1>2 DEF Elements
<1>4. n \in Nat
  BY <1>1
<1>5. /\ [k \in 1..n |-> Left + k] \in Seq(1..LENGTH)
      /\ Len([k \in 1..n |-> Left + k]) = n
  BY <1>2, <1>4
<1>6. QED
  BY <1>3, <1>5

(* The handler finds no foreground copying, unless a receive interrupt may collide. *)
LEMMA TxHandler ==
  ASSUME TxInv, UART0_Handler, ~Collide
  PROVE  TxInv'
<1>1. TxTypes /\ CopyControl /\ TxStream
  BY DEF TxInv
<1>2. UNCHANGED <<TxPutI, TxFifo, pc, letter, index, written, sent>>
  BY DEF UART0_Handler, fg
<1>3. CASE ~TXRIS
  <2>1. UNCHANGED <<TXRIS, txHW, TxGetI, TXIM>>
    BY <1>3 DEF UART0_Handler, HandlerTransmits
  <2>2. TxSize' = TxSize /\ Left' = Left
    BY <1>2, <2>1 DEF TxSize, Left, Passing
  <2>3. QED
    BY <1>1, <1>2, <2>1, <2>2 DEF TxInv, TxTypes, CopyControl, TxStream, Copying
<1>4. CASE TXRIS
  <2> DEFINE n == Min({HWSIZE - Len(txHW), TxSize})
             e == Elements(TxFifo, TxGetI, n)
  <2>1. ~Copying
    BY <1>1, <1>4 DEF UART0_Handler, Exposed, CopyControl
  <2>2. /\ TXRIS' = FALSE
        /\ txHW' = txHW \o e
        /\ TxGetI' = Plus(TxGetI, n)
        /\ TXIM' = (TXIM /\ n # TxSize)
    BY <1>4 DEF UART0_Handler, HandlerTransmits
  <2>3. /\ TxSize \in 0..FIFOSIZE /\ Len(txHW) \in 0..HWSIZE
        /\ Len(sent) \in Nat /\ Left = Len(sent) + Len(txHW)
        /\ n \in 0..TxSize /\ Len(txHW) + n <= HWSIZE
    <3>1. TxSize \in 0..FIFOSIZE /\ Len(txHW) \in 0..HWSIZE /\ Len(sent) \in Nat
      BY <1>1, TxNumbers
    <3>2. HWSIZE - Len(txHW) \in Nat /\ TxSize \in Nat
      BY <3>1, Bounds
    <3>3. n = IF HWSIZE - Len(txHW) <= TxSize THEN HWSIZE - Len(txHW) ELSE TxSize
      BY <3>2, Min2
    <3>4. Left = Len(sent) + Len(txHW)
      BY <2>1, <3>1 DEF Left, Passing, Copying
    <3>5. QED
      BY <3>1, <3>2, <3>3, <3>4, Bounds
  <2> HIDE DEF n
  <2>4. e \in Seq(1..LENGTH) /\ Len(e) = n /\ \A k \in 1..n : e[k] = Left + k
    BY <1>1, <2>3, TxElements
  <2> HIDE DEF e
  <2>5. /\ txHW' \in Seq(1..LENGTH) /\ Len(txHW') = Len(txHW) + n
        /\ \A k \in 1..Len(txHW) + n :
             txHW'[k] = IF k <= Len(txHW) THEN txHW[k] ELSE e[k - Len(txHW)]
    BY <1>1, <2>2, <2>4, ConcatProperties DEF TxTypes
  <2>6. /\ TxGetI' \in 0..INDEXES - 1
        /\ TxSize' = TxSize - n
        /\ \A k \in 1..TxSize - n :
             (TxGetI' + k - 1) % FIFOSIZE = (TxGetI + (n + k) - 1) % FIFOSIZE
    <3>1. /\ TxPutI \in 0..INDEXES - 1 /\ TxGetI \in 0..INDEXES - 1
          /\ Size(TxPutI, TxGetI) <= FIFOSIZE
          /\ n \in 0..Size(TxPutI, TxGetI)
      BY <1>1, <2>3 DEF TxTypes, TxSize
    <3>2. QED
      BY <1>2, <2>2, <3>1, GetElements DEF TxSize
  <2>7. Left' = Left + n
    BY <1>2, <2>1, <2>3, <2>5 DEF Left, Passing, Copying
  <2>8. \A k \in 1..Len(txHW') : txHW'[k] = Len(sent') + k
    <3> TAKE k \in 1..Len(txHW')
    <3>1. k \in 1..Len(txHW) + n /\ Len(sent') = Len(sent)
      BY <1>2, <2>5
    <3>2. CASE k <= Len(txHW)
      <4>1. k \in 1..Len(txHW)
        BY <2>3, <3>1, <3>2
      <4>2. txHW[k] = Len(sent) + k
        BY <1>1, <4>1 DEF TxStream
      <4>3. QED
        BY <2>5, <3>1, <3>2, <4>2
    <3>3. CASE k > Len(txHW)
      <4>1. k - Len(txHW) \in 1..n
        BY <2>3, <3>1, <3>3
      <4>2. e[k - Len(txHW)] = Left + (k - Len(txHW))
        BY <2>4, <4>1
      <4>3. txHW'[k] = e[k - Len(txHW)]
        BY <2>3, <2>5, <3>1, <3>3
      <4>4. QED
        BY <2>3, <3>1, <4>2, <4>3
    <3>4. QED
      BY <2>3, <3>1, <3>2, <3>3
  <2>9. \A k \in 1..TxSize' : TxFifo'[(TxGetI' + k - 1) % FIFOSIZE] = Left' + k
    <3> TAKE k \in 1..TxSize'
    <3>1. n + k \in 1..TxSize /\ k \in 1..TxSize - n
      BY <2>3, <2>6
    <3>2. TxFifo[(TxGetI + (n + k) - 1) % FIFOSIZE] = Left + (n + k)
      BY <1>1, <3>1 DEF TxStream
    <3>3. QED
      BY <1>2, <2>3, <2>6, <2>7, <3>1, <3>2
  <2>10. TxTypes'
    <3>1. Len(txHW') <= HWSIZE /\ TxSize' <= FIFOSIZE
      BY <2>3, <2>5, <2>6, Bounds
    <3>2. TXIM' \in BOOLEAN /\ TXRIS' \in BOOLEAN
      BY <2>2
    <3>3. QED
      BY <1>1, <1>2, <2>5, <2>6, <3>1, <3>2 DEF TxTypes
  <2>11. CopyControl'
    BY <1>1, <1>2, <2>1, <2>2 DEF CopyControl, Copying
  <2>12. TxStream'
    <3>1. Left' + TxSize' = written'
      BY <1>1, <1>2, <2>3, <2>6, <2>7 DEF TxStream
    <3>2. pc' # "send"
      BY <1>2, <2>1 DEF Copying
    <3>3. QED
      BY <1>1, <1>2, <2>8, <2>9, <3>1, <3>2 DEF TxStream
  <2>13. QED
    BY <2>10, <2>11, <2>12 DEF TxInv
<1>5. QED
  BY <1>3, <1>4

(* The other steps leave the transmitter alone. *)
TxUnchanged == UNCHANGED <<tx, fg, written, sent>>

LEMMA TxFrame == TxInv /\ TxUnchanged => TxInv'
<1> SUFFICES ASSUME TxInv, TxUnchanged PROVE TxInv'
  OBVIOUS
<1>1. UNCHANGED <<TxPutI, TxGetI, TxFifo, txHW, TXIM, TXRIS, pc, letter, index, written, sent>>
  BY DEF TxUnchanged, tx, fg
<1>2. TxSize' = TxSize /\ Left' = Left
  BY <1>1 DEF TxSize, Left, Passing
<1>3. QED
  BY <1>1, <1>2 DEF TxInv, TxTypes, CopyControl, TxStream, Copying

LEMMA TxNext == TxInv /\ [Next]_vars /\ ~Collide => TxInv'
<1> SUFFICES ASSUME TxInv, [Next]_vars, ~Collide PROVE TxInv'
  OBVIOUS
<1>1. CASE OutChar
  BY <1>1, TxPut, TxMasks, TxCopies, TxCopyStore, TxCopySend DEF OutChar
<1>2. CASE UART0_Handler
  BY <1>2, TxHandler
<1>3. CASE Transmit
  BY <1>3, TxTransmit
<1>4. CASE UART_InChar \/ Receive \/ ReceiveTimeout \/ UNCHANGED vars
  <2>1. TxUnchanged
    BY <1>4 DEF UART_InChar, Receive, ReceiveTimeout, vars, TxUnchanged
  <2>2. QED
    BY <2>1, TxFrame
<1>5. QED
  BY <1>1, <1>2, <1>3, <1>4 DEF Next

-----------------------------------------------------------------------------
(* The transmitter as a queue.                                             *)

Numbers(a, b) == [k \in 1..b - a |-> a + k]

LEMMA InFlightNumbers ==
  ASSUME TxInv
  PROVE  /\ InFlight = Numbers(Len(sent), written)
         /\ written - Len(sent) \in 0..FIFOSIZE + HWSIZE + 1
         /\ pc # "send" => written - Len(sent) <= FIFOSIZE + HWSIZE
<1> DEFINE hand == IF pc = "send" THEN <<letter>> ELSE <<>>
           e == Elements(TxFifo, TxGetI, TxSize)
<1>1. TxTypes /\ TxStream
  BY DEF TxInv
<1>2. /\ TxSize \in 0..FIFOSIZE /\ Len(sent) \in Nat /\ Len(txHW) \in 0..HWSIZE
      /\ Passing \in 0..1 /\ Left = Len(sent) + Len(txHW) + Passing
      /\ Left + TxSize = written /\ written \in 0..LENGTH
      /\ Passing = IF pc = "send" THEN 1 ELSE 0
      /\ txHW \in Seq(1..LENGTH)
  BY <1>1, TxNumbers DEF TxTypes, TxStream, Left, Passing
<1>3. hand \in Seq(1..LENGTH) /\ Len(hand) = Passing /\ \A k \in 1..Passing : hand[k] = Left
  <2>1. CASE pc = "send"
    <3>1. letter = Left /\ letter \in 1..LENGTH
      BY <1>1, <1>2, <2>1, Bounds DEF TxStream
    <3>2. QED
      BY <1>2, <2>1, <3>1
  <2>2. CASE pc # "send"
    BY <1>2, <2>2, EmptySeq
  <2>3. QED
    BY <2>1, <2>2
<1>4. e \in Seq(1..LENGTH) /\ Len(e) = TxSize /\ \A k \in 1..TxSize : e[k] = Left + k
  <2>1. TxSize \in 0..TxSize
    BY <1>2, Bounds
  <2>2. QED
    BY <1>1, <2>1, TxElements
<1>5. InFlight = (txHW \o hand) \o e
  BY DEF InFlight
<1> HIDE DEF hand, e
<1> DEFINE h == txHW \o hand
<1>6. /\ h \in Seq(1..LENGTH) /\ Len(h) = Len(txHW) + Len(hand)
      /\ \A k \in 1..Len(txHW) + Len(hand) :
           h[k] = IF k <= Len(txHW) THEN txHW[k] ELSE hand[k - Len(txHW)]
  <2>1. txHW \in Seq(1..LENGTH) /\ hand \in Seq(1..LENGTH)
    BY <1>2, <1>3
  <2>2. QED
    BY <2>1, ConcatProperties
<1> HIDE DEF h
<1>a. Len(h) = Len(txHW) + Passing /\ Len(h) \in Nat
  BY <1>2, <1>3, <1>6
<1>7. \A k \in 1..Len(h) : h[k] = Len(sent) + k
  <2> TAKE k \in 1..Len(h)
  <2>1. k \in Nat /\ k \in 1..Len(txHW) + Passing
    BY <1>2, <1>a
  <2>2. CASE k <= Len(txHW)
    <3>1. k \in 1..Len(txHW)
      BY <1>2, <2>1, <2>2
    <3>2. QED
      BY <1>1, <1>3, <1>6, <2>1, <2>2, <3>1 DEF TxStream
  <2>3. CASE k > Len(txHW)
    <3>1. k - Len(txHW) \in 1..Passing /\ k = Len(txHW) + Passing
      BY <1>2, <2>1, <2>3
    <3>2. h[k] = hand[k - Len(txHW)]
      BY <1>2, <1>3, <1>6, <2>1, <2>3
    <3>3. QED
      BY <1>2, <1>3, <3>1, <3>2
  <2>4. QED
    BY <1>2, <2>1, <2>2, <2>3
<1> DEFINE g == h \o e
<1>8. /\ g \in Seq(1..LENGTH) /\ Len(g) = Len(h) + Len(e)
      /\ \A k \in 1..Len(h) + Len(e) : g[k] = IF k <= Len(h) THEN h[k] ELSE e[k - Len(h)]
  <2>1. h \in Seq(1..LENGTH) /\ e \in Seq(1..LENGTH)
    BY <1>4, <1>6
  <2>2. QED
    BY <2>1, ConcatProperties
<1>b. InFlight = g
  BY <1>5 DEF h
<1> HIDE DEF g
<1>9. /\ Len(h) + TxSize = written - Len(sent) /\ Len(g) = written - Len(sent)
      /\ Len(h) \in Nat /\ Left = Len(sent) + Len(h) /\ Len(e) = TxSize
  <2>1. Len(h) + TxSize = written - Len(sent) /\ Left = Len(sent) + Len(h)
    <3>1. /\ TxSize \in Int /\ Len(sent) \in Int /\ Len(txHW) \in Int /\ Passing \in Int
          /\ Left = Len(sent) + Len(txHW) + Passing /\ Left + TxSize = written
      BY <1>2, Bounds
    <3>2. QED
      BY <1>a, <3>1
  <2>2. Len(e) = TxSize /\ Len(g) = Len(h) + TxSize
    BY <1>4, <1>8
  <2>3. QED
    BY <1>a, <2>1, <2>2
<1>10. \A k \in 1..written - Len(sent) : g[k] = Len(sent) + k
  <2> TAKE k \in 1..written - Len(sent)
  <2>1. CASE k <= Len(h)
    <3>1. k \in 1..Len(h) /\ k \in 1..Len(h) + Len(e)
      BY <1>2, <1>9, <2>1
    <3>2. QED
      BY <1>7, <1>8, <2>1, <3>1
  <2>2. CASE k > Len(h)
    <3>1. k - Len(h) \in 1..TxSize /\ k \in 1..Len(h) + Len(e) /\ ~(k <= Len(h))
      BY <1>2, <1>9, <2>2
    <3>2. g[k] = Left + (k - Len(h))
      BY <1>4, <1>8, <3>1
    <3>3. QED
      BY <1>2, <1>9, <3>1, <3>2
  <2>3. QED
    BY <1>9, <2>1, <2>2
<1>11. g = [k \in 1..written - Len(sent) |-> g[k]]
  <2>1. g \in [1..Len(g) -> 1..LENGTH]
    BY <1>8, LenProperties
  <2>2. QED
    BY <1>9, <2>1
<1>12. InFlight = Numbers(Len(sent), written)
  BY <1>b, <1>10, <1>11 DEF Numbers
<1>13. QED
  BY <1>2, <1>12, Bounds

LEMMA InFlightAfter ==
  (TxInv => /\ InFlight = Numbers(Len(sent), written)
            /\ written - Len(sent) \in Nat)'
<1>1. TxInv => /\ InFlight = Numbers(Len(sent), written)
               /\ written - Len(sent) \in Nat
  BY InFlightNumbers
<1>2. QED
  BY <1>1, PTL

LEMMA NumbersSeq ==
  ASSUME NEW a \in Nat, NEW b \in Nat, a <= b, b <= LENGTH
  PROVE  /\ Numbers(a, b) \in Seq(1..LENGTH)
         /\ Len(Numbers(a, b)) = b - a
         /\ \A k \in 1..b - a : Numbers(a, b)[k] = a + k
<1>1. b - a \in Nat /\ \A k \in 1..b - a : a + k \in 1..LENGTH
  BY Bounds
<1>2. QED
  BY <1>1 DEF Numbers

LEMMA ChannelInit == Init => Channel!Init
<1> SUFFICES ASSUME Init PROVE Channel!Init
  OBVIOUS
<1>1. TxInv /\ Len(sent) = 0 /\ written = 0 /\ sent = <<>>
  BY TxInit, EmptySeq DEF Init
<1>2. InFlight = Numbers(0, 0)
  BY <1>1, InFlightNumbers
<1>3. Numbers(0, 0) = <<>>
  BY DEF Numbers
<1>4. QED
  BY <1>1, <1>2, <1>3, Bounds DEF Channel!Init

LEMMA ChannelNext ==
  ASSUME TxInv, TxInv', [Next]_vars, ~Collide
  PROVE  [Channel!Next]_(Channel!vars)
<1>1. /\ InFlight = Numbers(Len(sent), written)
      /\ InFlight' = Numbers(Len(sent'), written')
      /\ written - Len(sent) \in Nat /\ written' - Len(sent') \in Nat
  <2>1. TxInv => /\ InFlight = Numbers(Len(sent), written)
                 /\ written - Len(sent) \in Nat
    BY InFlightNumbers
  <2>2. (TxInv => /\ InFlight = Numbers(Len(sent), written)
                  /\ written - Len(sent) \in Nat)'
    BY InFlightAfter
  <2>3. QED
    BY <2>1, <2>2 DEF Numbers
<1>2. /\ Len(sent) \in Nat /\ written \in Nat /\ written <= LENGTH
      /\ written' \in Nat /\ written' <= LENGTH
      /\ sent \in Seq(1..LENGTH) /\ sent' \in Seq(1..LENGTH) /\ Len(sent') \in Nat
  <2>1. /\ sent \in Seq(1..LENGTH) /\ sent' \in Seq(1..LENGTH)
        /\ written \in 0..LENGTH /\ written' \in 0..LENGTH
    BY DEF TxInv, TxTypes
  <2>2. QED
    BY <2>1, Bounds
<1>a. Len(sent) <= written /\ Len(sent') <= written'
  BY <1>1, <1>2
<1>c. /\ InFlight \in Seq(1..LENGTH) /\ Len(InFlight) = written - Len(sent)
      /\ \A k \in 1..written - Len(sent) : InFlight[k] = Len(sent) + k
  BY <1>1, <1>2, <1>a, NumbersSeq
<1>d. /\ InFlight' \in Seq(1..LENGTH) /\ Len(InFlight') = written' - Len(sent')
      /\ \A k \in 1..written' - Len(sent') : InFlight'[k] = Len(sent') + k
  BY <1>1, <1>2, <1>a, NumbersSeq
<1>3. CASE TxFifo_Put
  <2>1. /\ written' = written + 1 /\ sent' = sent /\ pc = "ready"
        /\ TxSize < FIFOSIZE
    BY <1>3, TxNumbers, Bounds DEF TxFifo_Put, Full, TxInv
  <2>2. written - Len(sent) < FIFOSIZE + HWSIZE
    <3>1. /\ Left = Len(sent) + Len(txHW) /\ Left + TxSize = written
          /\ Len(txHW) \in 0..HWSIZE /\ TxSize \in 0..FIFOSIZE
      BY <2>1, TxNumbers DEF TxInv, TxStream, Left, Passing
    <3>2. QED
      BY <1>2, <2>1, <3>1, Bounds
  <2>4. InFlight' = Append(InFlight, written')
    <3>2. written' \in 1..LENGTH
      BY <1>2, <2>1, Bounds
    <3>3. /\ Append(InFlight, written') \in Seq(1..LENGTH)
          /\ Len(Append(InFlight, written')) = Len(InFlight) + 1
          /\ \A k \in 1..Len(InFlight) : Append(InFlight, written')[k] = InFlight[k]
          /\ Append(InFlight, written')[Len(InFlight) + 1] = written'
      BY <1>c, <3>2, AppendProperties
    <3>4. \A k \in 1..Len(InFlight') : InFlight'[k] = Append(InFlight, written')[k]
      <4> TAKE k \in 1..Len(InFlight')
      <4>1. k \in 1..Len(InFlight) \/ (k = Len(InFlight) + 1 /\ Len(sent) + k = written')
        BY <1>2, <1>a, <1>c, <1>d, <2>1
      <4>2. InFlight'[k] = Len(sent) + k
        BY <1>d, <2>1
      <4>3. QED
        BY <1>c, <3>3, <4>1, <4>2
    <3>5. Len(InFlight') = Len(Append(InFlight, written'))
      BY <1>2, <1>a, <1>c, <1>d, <2>1, <3>3
    <3>6. QED
      BY <1>d, <3>3, <3>4, <3>5, SeqEqual
  <2>5. written' \in 1..LENGTH /\ Len(InFlight) < FIFOSIZE + HWSIZE
    BY <1>2, <1>c, <2>1, <2>2, Bounds
  <2>6. Channel!Save(written')
    BY <2>1, <2>4, <2>5 DEF Channel!Save
  <2>7. QED
    BY <2>5, <2>6 DEF Channel!Next
<1>4. CASE Transmit
  <2>1. sent' = Append(sent, Len(sent) + 1) /\ written' = written
    BY <1>4, TxTransmit DEF Transmit
  <2>2. Len(sent') = Len(sent) + 1 /\ sent' # <<>> /\ sent'[Len(sent')] = Len(sent) + 1
    BY <1>2, <2>1
  <2>6. Len(InFlight) > 0 /\ InFlight # <<>> /\ Head(InFlight) = Len(sent) + 1
    <3>1. Len(InFlight) > 0 /\ 1 \in 1..written - Len(sent)
      BY <1>2, <1>a, <1>c, <2>1, <2>2
    <3>2. QED
      BY <1>c, <3>1, EmptySeq
  <2>7. InFlight' = Tail(InFlight)
    <3>1. /\ Tail(InFlight) \in Seq(1..LENGTH) /\ Len(Tail(InFlight)) = Len(InFlight) - 1
          /\ \A k \in 1..Len(Tail(InFlight)) : Tail(InFlight)[k] = InFlight[k + 1]
      BY <1>c, <2>6, HeadTailProperties
    <3>2. Len(InFlight') = Len(Tail(InFlight))
      <4>1. Len(InFlight') = written - (Len(sent) + 1) /\ Len(InFlight) = written - Len(sent)
        BY <1>c, <1>d, <2>1, <2>2
      <4>2. QED
        BY <1>2, <3>1, <4>1
    <3>3. \A k \in 1..Len(InFlight') : InFlight'[k] = Tail(InFlight)[k]
      <4> TAKE k \in 1..Len(InFlight')
      <4>1. k + 1 \in 1..written - Len(sent) /\ Len(sent) + (k + 1) = Len(sent') + k
        BY <1>2, <1>a, <1>d, <2>1, <2>2
      <4>2. InFlight[k + 1] = Len(sent) + (k + 1) /\ InFlight'[k] = Len(sent') + k
        BY <1>c, <1>d, <4>1
      <4>3. QED
        BY <3>1, <3>2, <4>1, <4>2
    <3>4. QED
      BY <1>d, <3>1, <3>2, <3>3, SeqEqual
  <2>8. Channel!Deliver
    BY <2>2, <2>6, <2>7 DEF Channel!Deliver
  <2>9. QED
    BY <2>8 DEF Channel!Next
<1>5. CASE \/ Mask \/ Copy \/ CopyStore \/ CopySend \/ Unmask \/ UART_InChar
           \/ UART0_Handler \/ Receive \/ ReceiveTimeout \/ UNCHANGED vars
  <2>1. sent' = sent /\ written' = written
    BY <1>5 DEF Mask, Copy, CopyStore, CopySend, Unmask, UART_InChar, UART0_Handler, Receive,
       ReceiveTimeout, vars
  <2>2. InFlight' = InFlight
    BY <1>1, <2>1
  <2>3. QED
    BY <2>1, <2>2 DEF Channel!vars
<1>6. QED
  BY <1>3, <1>4, <1>5 DEF Next, OutChar

(* Without a collision the transmitter is a fifo of FIFOSIZE + HWSIZE characters: the
   interrupt handler and the foreground empty one queue between them. *)
THEOREM ChannelImplemented ==
  ASSUME ~Collide
  PROVE  Spec => ImplementsChannel
<1>1. Init => TxInv /\ Channel!Init
  BY TxInit, ChannelInit
<1>2. TxInv /\ [Next]_vars => TxInv'
  BY TxNext
<1>3. TxInv /\ TxInv' /\ [Next]_vars => [Channel!Next]_(Channel!vars)
  BY ChannelNext
<1>4. QED
  BY <1>1, <1>2, <1>3, PTL DEF Spec, ImplementsChannel, Channel!Spec

(* Without a collision every character leaves once, in the order of writing. *)
THEOREM LineInOrder ==
  ASSUME ~Collide
  PROVE  Spec => []SentInOrder
<1>1. Init => TxInv
  BY TxInit
<1>2. TxInv /\ [Next]_vars => TxInv'
  BY TxNext
<1>3. TxInv => SentInOrder
  <2> SUFFICES ASSUME TxInv PROVE SentInOrder
    OBVIOUS
  <2>1. sent \in Seq(1..LENGTH) /\ \A k \in 1..Len(sent) : sent[k] = k
    BY DEF TxInv, TxTypes, TxStream
  <2>2. QED
    BY <2>1 DEF SentInOrder
<1>4. QED
  BY <1>1, <1>2, <1>3, PTL DEF Spec

-----------------------------------------------------------------------------
(* The receiver.                                                           *)

RxTypes ==
  /\ RxPutI \in 0..INDEXES - 1
  /\ RxGetI \in 0..INDEXES - 1
  /\ RxFifo \in [0..FIFOSIZE - 1 -> 0..LENGTH]
  /\ rxHW \in Seq(1..LENGTH)
  /\ RXRIS \in BOOLEAN
  /\ arrived \in 0..LENGTH
  /\ kept \in Seq(1..LENGTH)
  /\ got \in Seq(1..LENGTH)
  /\ RxSize < FIFOSIZE

(* What was kept is, in order: read, in RxFifo, in the hardware. *)
RxStream ==
  /\ \A k \in 1..Len(got) : got[k] = kept[k]
  /\ \A k \in 1..RxSize : RxFifo[(RxGetI + k - 1) % FIFOSIZE] = kept[Len(got) + k]
  /\ \A k \in 1..Len(rxHW) : rxHW[k] = kept[Len(got) + RxSize + k]
  /\ Len(kept) = Len(got) + RxSize + Len(rxHW)

RxInv == RxTypes /\ RxStream

LEMMA RxNumbers ==
  ASSUME RxTypes
  PROVE  /\ RxSize \in 0..FIFOSIZE - 1
         /\ Len(got) \in Nat /\ Len(rxHW) \in Nat /\ Len(kept) \in Nat
<1>1. RxSize \in 0..FIFOSIZE - 1
  <2>1. RxPutI \in 0..INDEXES - 1 /\ RxGetI \in 0..INDEXES - 1 /\ RxSize < FIFOSIZE
    BY DEF RxTypes
  <2>2. RxSize \in 0..INDEXES - 1
    BY <2>1, IndexSize DEF RxSize
  <2>3. QED
    BY <2>1, <2>2, Bounds
<1>2. QED
  BY <1>1 DEF RxTypes

LEMMA RxInit == Init => RxInv
<1> SUFFICES ASSUME Init PROVE RxInv
  OBVIOUS
<1>1. RxSize = 0
  BY IndexSize, Bounds DEF Init, RxSize
<1>2. <<>> \in Seq(1..LENGTH) /\ Len(<<>>) = 0
  BY EmptySeq
<1>3. RxTypes
  <2>1. 0 \in 0..INDEXES - 1 /\ 0 \in 0..LENGTH /\ 0 < FIFOSIZE
    BY Bounds
  <2>2. RxFifo \in [0..FIFOSIZE - 1 -> 0..LENGTH]
    BY <2>1 DEF Init
  <2>3. QED
    BY <1>1, <1>2, <2>1, <2>2 DEF Init, RxTypes
<1>4. RxStream
  BY <1>1, <1>2 DEF Init, RxStream
<1>5. QED
  BY <1>3, <1>4 DEF RxInv

LEMMA RxGet == RxInv /\ UART_InChar => RxInv'
<1> SUFFICES ASSUME RxInv, UART_InChar PROVE RxInv'
  OBVIOUS
<1>1. RxTypes /\ RxStream
  BY DEF RxInv
<1>2. /\ RxPutI # RxGetI
      /\ got' = Append(got, RxFifo[RxGetI % FIFOSIZE])
      /\ RxGetI' = Plus(RxGetI, 1)
      /\ UNCHANGED <<RxPutI, RxFifo, rxHW, RXRIS, arrived, kept>>
  BY DEF UART_InChar
<1>3. /\ RxPutI \in 0..INDEXES - 1 /\ RxGetI \in 0..INDEXES - 1
      /\ Size(RxPutI, RxGetI) <= FIFOSIZE
      /\ RxSize \in 1..FIFOSIZE - 1
  <2>1. RxPutI \in 0..INDEXES - 1 /\ RxGetI \in 0..INDEXES - 1
    BY <1>1 DEF RxTypes
  <2>2. RxSize # 0
    <3>1. RxSize = IF RxPutI >= RxGetI THEN RxPutI - RxGetI ELSE RxPutI - RxGetI + INDEXES
      BY <2>1, IndexSize DEF RxSize
    <3>2. QED
      BY <1>2, <2>1, <3>1, Bounds
  <2>3. RxSize \in 0..FIFOSIZE - 1
    BY <1>1, RxNumbers
  <2>4. RxSize \in 1..FIFOSIZE - 1
    BY <2>2, <2>3, Bounds
  <2>5. QED
    BY <2>1, <2>4, Bounds DEF RxSize
<1>4. 1 \in 0..Size(RxPutI, RxGetI)
  BY <1>3, Bounds DEF RxSize
<1>5. /\ RxGetI' \in 0..INDEXES - 1
      /\ RxSize' = RxSize - 1
      /\ \A k \in 1..RxSize - 1 :
           (RxGetI' + k - 1) % FIFOSIZE = (RxGetI + (1 + k) - 1) % FIFOSIZE
  BY <1>2, <1>3, <1>4, GetElements DEF RxSize
<1>6. RxFifo[RxGetI % FIFOSIZE] = kept[Len(got) + 1]
  <2>1. 1 \in 1..RxSize /\ RxGetI + 1 - 1 = RxGetI
    BY <1>3, Bounds
  <2>2. RxFifo[(RxGetI + 1 - 1) % FIFOSIZE] = kept[Len(got) + 1]
    BY <1>1, <2>1 DEF RxStream
  <2>3. QED
    BY <2>1, <2>2
<1>7. Len(got) \in Nat /\ Len(rxHW) \in Nat /\ Len(kept) = Len(got) + RxSize + Len(rxHW)
  BY <1>1, RxNumbers DEF RxStream
<1>8. kept[Len(got) + 1] \in 1..LENGTH
  <2>1. Len(got) + 1 \in 1..Len(kept)
    BY <1>3, <1>7
  <2>2. QED
    BY <1>1, <2>1, ElementOfSeq DEF RxTypes
<1>9. /\ got' \in Seq(1..LENGTH) /\ Len(got') = Len(got) + 1
      /\ \A k \in 1..Len(got) : got'[k] = got[k]
      /\ got'[Len(got) + 1] = kept[Len(got) + 1]
  BY <1>1, <1>2, <1>6, <1>8, AppendProperties DEF RxTypes
<1>10. \A k \in 1..Len(got') : got'[k] = kept'[k]
  <2> TAKE k \in 1..Len(got')
  <2>1. k \in 1..Len(got) \/ k = Len(got) + 1
    BY <1>7, <1>9
  <2>2. QED
    BY <1>1, <1>2, <1>9, <2>1 DEF RxStream
<1>11. \A k \in 1..RxSize' : RxFifo'[(RxGetI' + k - 1) % FIFOSIZE] = kept'[Len(got') + k]
  <2> TAKE k \in 1..RxSize'
  <2>1. 1 + k \in 1..RxSize /\ k \in 1..RxSize - 1 /\ Len(got) + (1 + k) = Len(got') + k
    BY <1>3, <1>5, <1>7, <1>9
  <2>2. RxFifo[(RxGetI + (1 + k) - 1) % FIFOSIZE] = kept[Len(got) + (1 + k)]
    BY <1>1, <2>1 DEF RxStream
  <2>3. QED
    BY <1>2, <1>5, <2>1, <2>2
<1>12. Len(got') + RxSize' = Len(got) + RxSize
  BY <1>3, <1>5, <1>7, <1>9
<1>13. RxTypes'
  <2>1. RxSize' < FIFOSIZE
    BY <1>3, <1>5, Bounds
  <2>2. QED
    BY <1>1, <1>2, <1>5, <1>9, <2>1 DEF RxTypes
<1>14. RxStream'
  BY <1>1, <1>2, <1>10, <1>11, <1>12 DEF RxStream
<1>15. QED
  BY <1>13, <1>14 DEF RxInv

LEMMA RxReceive == RxInv /\ Receive => RxInv'
<1> SUFFICES ASSUME RxInv, Receive PROVE RxInv'
  OBVIOUS
<1>1. RxTypes /\ RxStream
  BY DEF RxInv
<1>2. /\ arrived < LENGTH /\ arrived' = arrived + 1
      /\ UNCHANGED <<RxPutI, RxGetI, RxFifo, got>>
  BY DEF Receive
<1>3. RxSize' = RxSize
  BY <1>2 DEF RxSize
<1>4. arrived' \in 1..LENGTH
  BY <1>1, <1>2, Bounds DEF RxTypes
<1>5. CASE Len(rxHW) < HWSIZE
  <2>1. /\ rxHW' = Append(rxHW, arrived') /\ kept' = Append(kept, arrived')
        /\ RXRIS' = (RXRIS \/ Len(rxHW') = LEVEL)
    BY <1>5 DEF Receive
  <2>2. /\ rxHW' \in Seq(1..LENGTH) /\ Len(rxHW') = Len(rxHW) + 1
        /\ \A k \in 1..Len(rxHW) : rxHW'[k] = rxHW[k]
        /\ rxHW'[Len(rxHW) + 1] = arrived'
        /\ kept' \in Seq(1..LENGTH) /\ Len(kept') = Len(kept) + 1
        /\ \A k \in 1..Len(kept) : kept'[k] = kept[k]
        /\ kept'[Len(kept) + 1] = arrived'
    BY <1>1, <1>4, <2>1, AppendProperties DEF RxTypes
  <2>3. /\ Len(got) \in Nat /\ Len(rxHW) \in Nat /\ RxSize \in Nat
        /\ Len(kept) = Len(got) + RxSize + Len(rxHW)
    BY <1>1, RxNumbers, Bounds DEF RxStream
  <2>4. \A k \in 1..Len(got) : got'[k] = kept'[k]
    <3> TAKE k \in 1..Len(got)
    <3>1. k \in 1..Len(kept)
      BY <2>3
    <3>2. QED
      BY <1>1, <1>2, <2>2, <3>1 DEF RxStream
  <2>5. \A k \in 1..RxSize : RxFifo[(RxGetI + k - 1) % FIFOSIZE] = kept'[Len(got) + k]
    <3> TAKE k \in 1..RxSize
    <3>1. Len(got) + k \in 1..Len(kept)
      BY <2>3
    <3>2. QED
      BY <1>1, <2>2, <3>1 DEF RxStream
  <2>6. \A k \in 1..Len(rxHW') : rxHW'[k] = kept'[Len(got) + RxSize + k]
    <3> TAKE k \in 1..Len(rxHW')
    <3>1. CASE k = Len(rxHW) + 1
      <4>1. Len(got) + RxSize + k = Len(kept) + 1
        BY <2>3, <3>1
      <4>2. QED
        BY <2>2, <3>1, <4>1
    <3>2. CASE k # Len(rxHW) + 1
      <4>1. k \in 1..Len(rxHW) /\ Len(got) + RxSize + k \in 1..Len(kept)
        BY <2>2, <2>3, <3>2
      <4>2. QED
        BY <1>1, <2>2, <4>1 DEF RxStream
    <3>3. QED
      BY <3>1, <3>2
  <2>7. RxTypes'
    BY <1>1, <1>2, <1>3, <1>4, <2>1, <2>2 DEF RxTypes
  <2>8. Len(kept') = Len(got) + RxSize + Len(rxHW')
    BY <2>2, <2>3
  <2>9. RxStream'
    BY <1>2, <1>3, <2>4, <2>5, <2>6, <2>8 DEF RxStream
  <2>10. QED
    BY <2>7, <2>9 DEF RxInv
<1>6. CASE Len(rxHW) >= HWSIZE
  <2>1. UNCHANGED <<rxHW, kept, RXRIS>>
    BY <1>1, <1>6, RxNumbers, Bounds DEF Receive
  <2>2. QED
    BY <1>1, <1>2, <1>3, <1>4, <2>1 DEF RxInv, RxTypes, RxStream
<1>7. QED
  BY <1>1, <1>5, <1>6, RxNumbers, Bounds

LEMMA RxHandler == RxInv /\ UART0_Handler => RxInv'
<1> SUFFICES ASSUME RxInv, UART0_Handler PROVE RxInv'
  OBVIOUS
<1>1. RxTypes /\ RxStream
  BY DEF RxInv
<1>2. UNCHANGED <<RxGetI, arrived, kept, got>>
  BY DEF UART0_Handler
<1>3. CASE ~RXRIS
  <2>1. UNCHANGED <<RXRIS, RxFifo, RxPutI, rxHW>>
    BY <1>3 DEF UART0_Handler, HandlerReceives
  <2>2. RxSize' = RxSize
    BY <1>2, <2>1 DEF RxSize
  <2>3. QED
    BY <1>1, <1>2, <2>1, <2>2 DEF RxInv, RxTypes, RxStream
<1>4. CASE RXRIS
  <2> DEFINE n == Min({Len(rxHW), RxRoom})
  <2>1. /\ RXRIS' = FALSE
        /\ RxFifo' = [i \in DOMAIN RxFifo |->
                        LET k == 1 + ((i - RxPutI) % FIFOSIZE)
                        IN  IF k <= n THEN rxHW[k] ELSE RxFifo[i]]
        /\ RxPutI' = Plus(RxPutI, n)
        /\ rxHW' = SubSeq(rxHW, n + 1, Len(rxHW))
    BY <1>4 DEF UART0_Handler, HandlerReceives
  <2>2. /\ Len(got) \in Nat /\ Len(rxHW) \in Nat /\ RxSize \in 0..FIFOSIZE - 1
        /\ Len(kept) = Len(got) + RxSize + Len(rxHW)
    BY <1>1, RxNumbers DEF RxStream
  <2>3. n \in 0..FIFOSIZE - 1 - RxSize /\ n <= Len(rxHW) /\ n \in Nat
    <3>1. RxRoom \in Nat /\ RxRoom = FIFOSIZE - 1 - RxSize
      BY <2>2, Bounds DEF RxRoom
    <3>2. n = IF Len(rxHW) <= RxRoom THEN Len(rxHW) ELSE RxRoom
      BY <2>2, <3>1, Min2
    <3>3. QED
      BY <2>2, <3>1, <3>2, Bounds
  <2> HIDE DEF n
  <2>4. /\ RxPutI \in 0..INDEXES - 1 /\ RxGetI \in 0..INDEXES - 1
        /\ Size(RxPutI, RxGetI) < FIFOSIZE
        /\ n \in 0..FIFOSIZE - 1 - Size(RxPutI, RxGetI)
        /\ RxFifo \in [0..FIFOSIZE - 1 -> 0..LENGTH]
    BY <1>1, <2>3 DEF RxTypes, RxSize
  <2>5. RxPutI' \in 0..INDEXES - 1 /\ RxSize' = RxSize + n
    BY <1>2, <2>1, <2>4, ManySlots DEF RxSize
  <2>6. /\ \A k \in 1..RxSize :
             RxFifo'[(RxGetI + k - 1) % FIFOSIZE] = RxFifo[(RxGetI + k - 1) % FIFOSIZE]
        /\ \A k \in 1..n : RxFifo'[(RxGetI + (RxSize + k) - 1) % FIFOSIZE] = rxHW[k]
    <3>1. \A i \in 0..FIFOSIZE - 1 :
            RxFifo'[i] = IF 1 + ((i - RxPutI) % FIFOSIZE) <= n
                         THEN rxHW[1 + ((i - RxPutI) % FIFOSIZE)] ELSE RxFifo[i]
      BY <2>1, <2>4
    <3>2. /\ \A k \in 1..RxSize :
                /\ (RxGetI + k - 1) % FIFOSIZE \in 0..FIFOSIZE - 1
                /\ ~(1 + ((((RxGetI + k - 1) % FIFOSIZE) - RxPutI) % FIFOSIZE) <= n)
          /\ \A k \in 1..n :
                /\ (RxGetI + (RxSize + k) - 1) % FIFOSIZE \in 0..FIFOSIZE - 1
                /\ 1 + ((((RxGetI + (RxSize + k) - 1) % FIFOSIZE) - RxPutI) % FIFOSIZE) = k
      BY <2>4, ManySlots DEF RxSize
    <3>3. \A k \in 1..n : k <= n
      BY <2>3
    <3>4. QED
      BY <3>1, <3>2, <3>3
  <2>7. /\ rxHW' \in Seq(1..LENGTH)
        /\ Len(rxHW') = Len(rxHW) - n
        /\ \A k \in 1..Len(rxHW) - n : rxHW'[k] = rxHW[n + k]
    <3>1. n + 1 \in Int /\ Len(rxHW) \in Int
      BY <2>2, <2>3
    <3>2. \A i \in n + 1..Len(rxHW) : rxHW[i] \in 1..LENGTH
      <4> TAKE i \in n + 1..Len(rxHW)
      <4>1. i \in 1..Len(rxHW)
        BY <2>2, <2>3
      <4>2. QED
        BY <1>1, <4>1, ElementOfSeq DEF RxTypes
    <3>3. /\ rxHW' \in Seq(1..LENGTH)
          /\ Len(rxHW') = IF n + 1 <= Len(rxHW) THEN Len(rxHW) - (n + 1) + 1 ELSE 0
          /\ \A i \in 1..Len(rxHW) - (n + 1) + 1 : rxHW'[i] = rxHW[n + 1 + i - 1]
      BY <2>1, <3>1, <3>2, SubSeqProperties
    <3>4. Len(rxHW') = Len(rxHW) - n
      BY <2>2, <2>3, <3>3
    <3>5. \A k \in 1..Len(rxHW) - n : rxHW'[k] = rxHW[n + k]
      <4> TAKE k \in 1..Len(rxHW) - n
      <4>1. k \in 1..Len(rxHW) - (n + 1) + 1 /\ n + 1 + k - 1 = n + k
        BY <2>2, <2>3
      <4>2. QED
        BY <3>3, <4>1
    <3>6. QED
      BY <3>3, <3>4, <3>5
  <2>8. RxFifo' \in [0..FIFOSIZE - 1 -> 0..LENGTH]
    <3>1. ASSUME NEW i \in 0..FIFOSIZE - 1, NEW k, k = 1 + ((i - RxPutI) % FIFOSIZE), k <= n
          PROVE  rxHW[k] \in 0..LENGTH
      <4>1. k \in 1..Len(rxHW)
        <5>1. i - RxPutI \in Int
          BY <2>4, Bounds
        <5>2. (i - RxPutI) % FIFOSIZE \in Nat
          BY <5>1, Bounds
        <5>3. QED
          BY <2>2, <2>3, <3>1, <5>2
      <4>2. rxHW[k] \in 1..LENGTH
        BY <1>1, <4>1, ElementOfSeq DEF RxTypes
      <4>3. QED
        BY <4>2, Bounds
    <3>2. \A i \in 0..FIFOSIZE - 1 :
            (LET k == 1 + ((i - RxPutI) % FIFOSIZE)
             IN  IF k <= n THEN rxHW[k] ELSE RxFifo[i]) \in 0..LENGTH
      BY <2>4, <3>1
    <3>3. QED
      BY <2>1, <2>4, <3>2
  <2>9. \A k \in 1..RxSize' : RxFifo'[(RxGetI' + k - 1) % FIFOSIZE] = kept'[Len(got') + k]
    <3> TAKE k \in 1..RxSize'
    <3>1. CASE k <= RxSize
      <4>1. k \in 1..RxSize
        BY <2>2, <2>3, <2>5, <3>1
      <4>2. QED
        BY <1>1, <1>2, <2>6, <4>1 DEF RxStream
    <3>2. CASE k > RxSize
      <4> DEFINE j == k - RxSize
      <4>1. j \in 1..n /\ j \in 1..Len(rxHW) /\ k = RxSize + j
        BY <2>2, <2>3, <2>5, <3>2
      <4> HIDE DEF j
      <4>2. RxFifo'[(RxGetI + (RxSize + j) - 1) % FIFOSIZE] = kept[Len(got) + RxSize + j]
        BY <1>1, <2>6, <4>1 DEF RxStream
      <4>3. Len(got) + RxSize + j = Len(got) + k
        BY <2>2, <4>1
      <4>4. QED
        BY <1>2, <4>1, <4>2, <4>3
    <3>3. QED
      BY <2>2, <2>3, <2>5, <3>1, <3>2
  <2>10. \A k \in 1..Len(rxHW') : rxHW'[k] = kept'[Len(got') + RxSize' + k]
    <3> TAKE k \in 1..Len(rxHW')
    <3>1. /\ k \in 1..Len(rxHW) - n /\ n + k \in 1..Len(rxHW)
          /\ Len(got) + RxSize + (n + k) = Len(got) + RxSize' + k
      BY <2>2, <2>3, <2>5, <2>7
    <3>2. rxHW[n + k] = kept[Len(got) + RxSize + (n + k)]
      BY <1>1, <3>1 DEF RxStream
    <3>3. QED
      BY <1>2, <2>7, <3>1, <3>2
  <2>11. Len(kept') = Len(got') + RxSize' + Len(rxHW')
    BY <1>2, <2>2, <2>3, <2>5, <2>7
  <2>12. RxTypes'
    <3>1. RxSize' < FIFOSIZE
      BY <2>2, <2>3, <2>5, Bounds
    <3>2. QED
      BY <1>1, <1>2, <2>1, <2>5, <2>7, <2>8, <3>1 DEF RxTypes
  <2>13. RxStream'
    BY <1>1, <1>2, <2>9, <2>10, <2>11 DEF RxStream
  <2>14. QED
    BY <2>12, <2>13 DEF RxInv
<1>5. QED
  BY <1>3, <1>4

LEMMA RxNext == RxInv /\ [Next]_vars => RxInv'
<1> SUFFICES ASSUME RxInv, [Next]_vars PROVE RxInv'
  OBVIOUS
<1>1. CASE UART_InChar
  BY <1>1, RxGet
<1>2. CASE UART0_Handler
  BY <1>2, RxHandler
<1>3. CASE Receive
  BY <1>3, RxReceive
<1>4. CASE OutChar \/ Transmit \/ ReceiveTimeout \/ UNCHANGED vars
  <2>1. /\ UNCHANGED <<RxPutI, RxGetI, RxFifo, rxHW, arrived, kept, got>>
        /\ RXRIS' = RXRIS \/ RXRIS' = TRUE
    BY <1>4 DEF OutChar, TxFifo_Put, Mask, Copy, CopyStore, CopySend, Unmask, Transmit,
       ReceiveTimeout, vars, rx
  <2>2. RxSize' = RxSize
    BY <2>1 DEF RxSize
  <2>3. QED
    BY <2>1, <2>2 DEF RxInv, RxTypes, RxStream
<1>5. QED
  BY <1>1, <1>2, <1>3, <1>4 DEF Next

(* The software loses no received character, whatever the transmitter does: a full
   fifo leaves the characters in the hardware. *)
THEOREM NothingLost == Spec => []NothingDropped
<1>1. Init => RxInv
  BY RxInit
<1>2. RxInv /\ [Next]_vars => RxInv'
  BY RxNext
<1>3. RxInv => NothingDropped
  <2> SUFFICES ASSUME RxInv PROVE NothingDropped
    OBVIOUS
  <2> DEFINE e == Elements(RxFifo, RxGetI, RxSize)
             a == got \o e
             b == a \o rxHW
  <2>1. RxTypes /\ RxStream
    BY DEF RxInv
  <2>2. /\ Len(got) \in Nat /\ Len(rxHW) \in Nat /\ RxSize \in Nat
        /\ Len(kept) = Len(got) + RxSize + Len(rxHW)
    BY <2>1, RxNumbers, Bounds DEF RxStream
  <2>3. kept \in Seq(1..LENGTH) /\ got \in Seq(1..LENGTH) /\ rxHW \in Seq(1..LENGTH)
    BY <2>1 DEF RxTypes
  <2>4. \A k \in 1..RxSize : /\ RxFifo[(RxGetI + k - 1) % FIFOSIZE] = kept[Len(got) + k]
                             /\ kept[Len(got) + k] \in 1..LENGTH
    <3> TAKE k \in 1..RxSize
    <3>1. Len(got) + k \in 1..Len(kept)
      BY <2>2
    <3>2. QED
      BY <2>1, <2>3, <3>1, ElementOfSeq DEF RxStream
  <2>5. /\ e \in Seq(1..LENGTH) /\ Len(e) = RxSize
        /\ \A k \in 1..RxSize : e[k] = kept[Len(got) + k]
    <3>1. e = [k \in 1..RxSize |-> kept[Len(got) + k]]
      BY <2>4 DEF Elements
    <3> HIDE DEF e
    <3>2. /\ [k \in 1..RxSize |-> kept[Len(got) + k]] \in Seq(1..LENGTH)
          /\ Len([k \in 1..RxSize |-> kept[Len(got) + k]]) = RxSize
      <4>1. RxSize \in Nat /\ \A k \in 1..RxSize : kept[Len(got) + k] \in 1..LENGTH
        BY <2>2, <2>4
      <4>2. QED
        BY <4>1
    <3>3. QED
      BY <3>1, <3>2
  <2> HIDE DEF e
  <2>6. /\ a \in Seq(1..LENGTH) /\ Len(a) = Len(got) + Len(e)
        /\ \A k \in 1..Len(got) + Len(e) : a[k] = IF k <= Len(got) THEN got[k] ELSE e[k - Len(got)]
    BY <2>3, <2>5, ConcatProperties
  <2> HIDE DEF a
  <2>7. /\ b \in Seq(1..LENGTH) /\ Len(b) = Len(a) + Len(rxHW)
        /\ \A k \in 1..Len(a) + Len(rxHW) : b[k] = IF k <= Len(a) THEN a[k] ELSE rxHW[k - Len(a)]
    <3>1. a \in Seq(1..LENGTH) /\ rxHW \in Seq(1..LENGTH)
      BY <2>3, <2>6
    <3>2. QED
      BY <3>1, ConcatProperties
  <2> HIDE DEF b
  <2>8. Len(a) = Len(got) + RxSize /\ Len(b) = Len(kept)
    BY <2>2, <2>5, <2>6, <2>7
  <2>9. \A k \in 1..Len(kept) : kept[k] = b[k]
    <3> TAKE k \in 1..Len(kept)
    <3>1. CASE k <= Len(got)
      <4>1. /\ k \in 1..Len(got) /\ k <= Len(a) /\ k \in 1..Len(got) + Len(e)
            /\ k \in 1..Len(a) + Len(rxHW)
        BY <2>2, <2>5, <2>8, <3>1
      <4>2. QED
        BY <2>1, <2>6, <2>7, <4>1 DEF RxStream
    <3>2. CASE k > Len(got) /\ k <= Len(got) + RxSize
      <4>1. /\ ~(k <= Len(got)) /\ k <= Len(a) /\ k \in 1..Len(got) + Len(e)
            /\ k \in 1..Len(a) + Len(rxHW) /\ k - Len(got) \in 1..RxSize
            /\ Len(got) + (k - Len(got)) = k
        BY <2>2, <2>5, <2>8, <3>2
      <4>2. b[k] = e[k - Len(got)]
        BY <2>6, <2>7, <4>1
      <4>3. QED
        BY <2>5, <4>1, <4>2
    <3>3. CASE k > Len(got) + RxSize
      <4>1. /\ ~(k <= Len(a)) /\ k \in 1..Len(a) + Len(rxHW) /\ k - Len(a) \in 1..Len(rxHW)
            /\ Len(got) + RxSize + (k - Len(a)) = k
        BY <2>2, <2>8, <3>3
      <4>2. b[k] = rxHW[k - Len(a)]
        BY <2>7, <4>1
      <4>3. QED
        BY <2>1, <4>1, <4>2 DEF RxStream
    <3>4. QED
      BY <2>2, <3>1, <3>2, <3>3
  <2>10. kept = b
    BY <2>3, <2>7, <2>8, <2>9, SeqEqual
  <2>11. QED
    BY <2>10 DEF NothingDropped, a, b, e
<1>4. QED
  BY <1>1, <1>2, <1>3, PTL DEF Spec

(* Indexes stay within their width, and what travels is always a character. *)
THEOREM TypesCorrect ==
  ASSUME ~Collide
  PROVE  Spec => []TypeOK
<1>1. Init => TxInv /\ RxInv
  BY TxInit, RxInit
<1>2. TxInv /\ RxInv /\ [Next]_vars => (TxInv /\ RxInv)'
  BY TxNext, RxNext
<1>3. TxInv /\ RxInv => TypeOK
  BY DEF TxInv, RxInv, TxTypes, RxTypes, TypeOK
<1>4. QED
  BY <1>1, <1>2, <1>3, PTL DEF Spec
=============================================================================
