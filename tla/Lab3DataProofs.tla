---------------------------- MODULE Lab3DataProofs ----------------------------
(***************************************************************************)
(* Theorems about Lab3Data, for any size of the fifo, of a batch and of    *)
(* the run.  The fifo is a queue, the mailbox is a slot and the batches    *)
(* are consecutive as long as no sample comes in the window of the         *)
(* overrun (Overrun = FALSE).                                              *)
(***************************************************************************)
EXTENDS Lab3Data, SequenceTheorems, TLAPS

(* The fifo as OS_Fifo_Get has left it: unread elements, from slot First on. *)
Size  == units["CurrentSize"]
Count == Size + IF F!PastWait THEN 1 ELSE 0
First == IF getting = "advance" THEN F!After(GetI) ELSE GetI

Elements == Samples \cup {NoData}

FifoTypes ==
  /\ NumSamples \in 0..RUNLENGTH
  /\ DataLost \in 0..NumSamples
  /\ PutI \in 0..FIFOSIZE - 1
  /\ GetI \in 0..FIFOSIZE - 1
  /\ Fifo \in [0..FIFOSIZE - 1 -> Elements]
  /\ LostData = DataLost
  /\ getting \in {"no", "read", "advance"}
  /\ got \in Elements
  /\ Size <= FIFOSIZE

SemaphoreTypes ==
  /\ units \in [Semaphores -> Nat]
  /\ waiting \in [Semaphores -> SUBSET Threads]

BoxTypes ==
  /\ call \in [Threads -> {"none", "store", "valid", "read", "free"}]
  /\ arg \in [Threads -> Seq(Elements)]
  /\ received \in [Threads -> Seq(Elements)]
  /\ Mail \in Seq(Elements)

ThreadTypes ==
  /\ consumer \in {"start", "started", "loop", "collect", "send", "dead"}
  /\ x \in Seq(Elements)
  /\ Len(x) <= BATCH
  /\ display \in {"unborn", "loop", "recv", "final", "dead"}

(* The LCD is free or one thread is inside ST7735_Message and does not wait. *)
LCDToken ==
  /\ messages \in [Drawers -> 0..4]
  /\ drawing \subseteq Drawers
  /\ LCDFree \in [{"LCD"} -> 0..1]
  /\ LCDwaiting \in [{"LCD"} -> SUBSET Drawers]
  /\ LCDwaiting["LCD"] \subseteq drawing
  /\ \A t \in drawing : messages[t] > 0
  /\ LCDFree["LCD"] = 1 => drawing = {}
  /\ \A t, u \in drawing \ LCDwaiting["LCD"] : t = u

(* Only Consumer takes from the fifo, while it collects a batch, and only it
   sends. *)
Control ==
  /\ waiting["CurrentSize"] \subseteq {"Consumer"}
  /\ "Consumer" \in waiting["CurrentSize"] => getting = "read" /\ Size = 0
  /\ getting # "no" => consumer = "collect" /\ Len(x) < BATCH
  /\ call["Consumer"] \in {"none", "store", "valid"}
  /\ call["Consumer"] # "none" => consumer = "send"

TypesInv == FifoTypes /\ SemaphoreTypes /\ BoxTypes /\ ThreadTypes /\ Control

-----------------------------------------------------------------------------
(* PutI is where the unread elements end.  This needs Overrun = FALSE. *)
Indexes ==
  /\ F!PastWait => Size < FIFOSIZE
  /\ PutI = (First + Count) % FIFOSIZE

Bases   == {k * BATCH : k \in 0..RUNLENGTH \div BATCH}
Batches == {[i \in 1..BATCH |-> k * BATCH + i] : k \in 0..RUNLENGTH \div BATCH - 1}

(* Samples in complete batches and in x. *)
Consumed == NumSamples - Count - IF getting = "advance" THEN 1 ELSE 0

(* Without a refused sample, the samples so far are the batches, x, the element
   just read and what is unread, in this order. *)
Stream ==
  /\ \A k \in 1..Count : F!Unread[k] = NumSamples - Count + k
  /\ getting = "advance" => got = NumSamples - Count
  /\ consumer # "collect" => Consumed \in Bases
  /\ consumer = "collect" =>
       \E b \in Bases : Consumed = b + Len(x) /\ x = [i \in 1..Len(x) |-> b + i]
  /\ {arg["Consumer"], Mail, received["Display"]} \subseteq Batches \cup {NoMail}

StreamInv == Indexes /\ (DataLost = 0 => Stream)

-----------------------------------------------------------------------------
(* Numbers and indexes.                                                    *)

LEMMA Sizes == /\ FIFOSIZE \in Nat /\ FIFOSIZE > 0
               /\ BATCH \in Nat /\ BATCH > FIFOSIZE
               /\ RUNLENGTH \in Nat
  BY Lab3Assumption DEF Lab3Assumption

(* An index wraps once at most. *)
LEMMA Wrap ==
  ASSUME NEW i \in 0..2 * FIFOSIZE - 1
  PROVE  i % FIFOSIZE = IF i < FIFOSIZE THEN i ELSE i - FIFOSIZE
<1>1. CASE i < FIFOSIZE
  BY <1>1, Sizes
<1>2. CASE i >= FIFOSIZE
  <2>1. i \in FIFOSIZE..2 * FIFOSIZE - 1
    BY <1>2, Sizes
  <2>2. i % FIFOSIZE = i - FIFOSIZE
    BY <2>1, Sizes
  <2>3. QED
    BY <1>2, <2>2, Sizes
<1>3. QED
  BY <1>1, <1>2, Sizes

LEMMA AfterIndex ==
  ASSUME NEW i \in 0..FIFOSIZE - 1
  PROVE  F!After(i) = IF i = FIFOSIZE - 1 THEN 0 ELSE i + 1
<1>1. i + 1 \in 0..2 * FIFOSIZE - 1
  BY Sizes
<1>2. QED
  BY <1>1, Wrap, Sizes DEF F!After

(* The run is a number of batches. *)
LEMMA WholeBatches == /\ RUNLENGTH \div BATCH \in Nat
                      /\ RUNLENGTH = (RUNLENGTH \div BATCH) * BATCH
<1>1. BATCH \in Nat \ {0} /\ RUNLENGTH \in Nat /\ RUNLENGTH % BATCH = 0
  BY Lab3Assumption DEF Lab3Assumption
<1>2. QED
  BY <1>1

LEMMA NextBase ==
  ASSUME NEW b \in Bases, b + BATCH <= RUNLENGTH
  PROVE  /\ b + BATCH \in Bases
         /\ [i \in 1..BATCH |-> b + i] \in Batches
<1>1. PICK k \in 0..RUNLENGTH \div BATCH : b = k * BATCH
  BY DEF Bases
<1>2. k \in Nat /\ RUNLENGTH \div BATCH \in Nat
  BY WholeBatches
<1> DEFINE q == RUNLENGTH \div BATCH
<1>3. RUNLENGTH = q * BATCH
  BY WholeBatches
<1>4. q \in Nat
  BY WholeBatches
<1> HIDE DEF q
<1>5. k + 1 <= q
  <2>1. SUFFICES ASSUME k >= q PROVE FALSE
    BY <1>2, <1>4
  <2>2. k * BATCH >= q * BATCH
    BY <1>2, <1>4, <2>1, Sizes
  <2>3. QED
    BY <1>1, <1>2, <1>3, <1>4, <2>2, Sizes
<1>6. b + BATCH = (k + 1) * BATCH
  BY <1>1, <1>2, Sizes
<1>7. QED
  BY <1>1, <1>2, <1>4, <1>5, <1>6 DEF q, Bases, Batches

LEMMA ZeroIsBase == 0 \in Bases
  BY WholeBatches, Sizes DEF Bases

-----------------------------------------------------------------------------
(* The semaphores: what a wait and a signal do.                            *)

WaitEffect(t, s) ==
  \/ /\ units[s] > 0
     /\ units' = [units EXCEPT ![s] = @ - 1]
     /\ waiting' = waiting
  \/ /\ units[s] = 0
     /\ waiting' = [waiting EXCEPT ![s] = @ \cup {t}]
     /\ units' = units

SignalEffect(s) ==
  \/ /\ waiting[s] = {}
     /\ units' = [units EXCEPT ![s] = @ + 1]
     /\ waiting' = waiting
  \/ \E t \in Threads :
       /\ t \in waiting[s]
       /\ waiting' = [waiting EXCEPT ![s] = @ \ {t}]
       /\ units' = units

LEMMA FifoSemaphore ==
  /\ F!OS_Wait("Consumer", "CurrentSize") => WaitEffect("Consumer", "CurrentSize")
  /\ F!OS_Signal("CurrentSize") => SignalEffect("CurrentSize")
  BY DEF F!OS_Wait, F!OS_Signal, F!Semaphore!Take, F!Semaphore!Join, F!Semaphore!Release,
         F!Semaphore!HandOver, WaitEffect, SignalEffect

LEMMA BoxSemaphores ==
  ASSUME NEW s \in {"BoxFree", "BoxDataValid"}
  PROVE  /\ \A t \in Threads : M!OS_Wait(t, s) => WaitEffect(t, s)
         /\ M!OS_Signal(s) => SignalEffect(s)
  BY DEF M!OS_Wait, M!OS_Signal, M!Semaphore!Take, M!Semaphore!Join, M!Semaphore!Release,
         M!Semaphore!HandOver, WaitEffect, SignalEffect

(* The semaphores of the mailbox are not that of the fifo. *)
LEMMA BoxEffect ==
  ASSUME SemaphoreTypes, NEW s \in {"BoxFree", "BoxDataValid"},
         SignalEffect(s) \/ \E t \in Threads : WaitEffect(t, s)
  PROVE  /\ SemaphoreTypes'
         /\ units'["CurrentSize"] = units["CurrentSize"]
         /\ waiting'["CurrentSize"] = waiting["CurrentSize"]
<1>1. /\ {s, "CurrentSize"} \subseteq Semaphores
      /\ s # "CurrentSize"
  BY DEF Semaphores
<1>2. CASE SignalEffect(s)
  BY <1>1, <1>2 DEF SignalEffect, SemaphoreTypes
<1>3. ASSUME NEW t \in Threads, WaitEffect(t, s)
      PROVE  /\ SemaphoreTypes'
             /\ units'["CurrentSize"] = units["CurrentSize"]
             /\ waiting'["CurrentSize"] = waiting["CurrentSize"]
  BY <1>1, <1>3 DEF WaitEffect, SemaphoreTypes
<1>4. QED
  BY <1>2, <1>3

(* A step of the mailbox leaves the fifo and its semaphore alone. *)
BoxStep ==
  \/ M!Send("Consumer", x) \/ M!SendStore("Consumer") \/ M!SendSignal("Consumer")
  \/ M!Recv("Display") \/ M!RecvRead("Display") \/ M!RecvSignal("Display")

LEMMA BoxSteps ==
  ASSUME SemaphoreTypes, BoxTypes, x \in Seq(Elements), BoxStep
  PROVE  /\ SemaphoreTypes' /\ BoxTypes'
         /\ units'["CurrentSize"] = units["CurrentSize"]
         /\ waiting'["CurrentSize"] = waiting["CurrentSize"]
<1> DEFINE Kept == /\ SemaphoreTypes'
                   /\ units'["CurrentSize"] = units["CurrentSize"]
                   /\ waiting'["CurrentSize"] = waiting["CurrentSize"]
<1>1. {"Consumer", "Display"} \subseteq Threads
  BY DEF Threads
<1>2. CASE M!Send("Consumer", x)
  <2>1. Kept
    BY <1>1, <1>2, BoxSemaphores, BoxEffect DEF M!Send
  <2>2. BoxTypes'
    BY <1>2 DEF M!Send, BoxTypes
  <2>3. QED
    BY <2>1, <2>2
<1>3. CASE M!SendStore("Consumer")
  BY <1>1, <1>3 DEF M!SendStore, SemaphoreTypes, BoxTypes
<1>4. CASE M!SendSignal("Consumer")
  <2>1. Kept
    BY <1>4, BoxSemaphores, BoxEffect DEF M!SendSignal
  <2>2. BoxTypes'
    BY <1>4 DEF M!SendSignal, BoxTypes
  <2>3. QED
    BY <2>1, <2>2
<1>5. CASE M!Recv("Display")
  <2>1. Kept
    BY <1>1, <1>5, BoxSemaphores, BoxEffect DEF M!Recv
  <2>2. BoxTypes'
    BY <1>5 DEF M!Recv, BoxTypes
  <2>3. QED
    BY <2>1, <2>2
<1>6. CASE M!RecvRead("Display")
  BY <1>6 DEF M!RecvRead, SemaphoreTypes, BoxTypes
<1>7. CASE M!RecvSignal("Display")
  <2>1. Kept
    BY <1>7, BoxSemaphores, BoxEffect DEF M!RecvSignal
  <2>2. BoxTypes'
    BY <1>7 DEF M!RecvSignal, BoxTypes
  <2>3. QED
    BY <2>1, <2>2
<1>8. QED
  BY <1>2, <1>3, <1>4, <1>5, <1>6, <1>7 DEF BoxStep

-----------------------------------------------------------------------------
(* The LCD.                                                                *)

LEMMA LCDInit == Init => LCDToken
<1> SUFFICES ASSUME Init PROVE LCDToken
  OBVIOUS
<1>1. LCDFree = [s \in {"LCD"} |-> 1] /\ LCDwaiting = [s \in {"LCD"} |-> {}]
  BY DEF Init, L!Init
<1>2. QED
  BY <1>1 DEF Init, LCDToken

LEMMA MessageWaitsStep ==
  ASSUME LCDToken, NEW t \in Drawers, MessageWaits(t)
  PROVE  LCDToken'
<1>1. /\ messages[t] > 0 /\ t \notin drawing
      /\ drawing' = drawing \cup {t} /\ messages' = messages
  BY DEF MessageWaits
<1>2. CASE L!Take("LCD")
  <2>1. /\ LCDFree["LCD"] > 0
        /\ LCDFree' = [LCDFree EXCEPT !["LCD"] = @ - 1]
        /\ LCDwaiting' = LCDwaiting
    BY <1>2 DEF L!Take
  <2>2. LCDFree["LCD"] = 1 /\ drawing = {}
    BY <2>1 DEF LCDToken
  <2>3. QED
    BY <1>1, <2>1, <2>2 DEF LCDToken
<1>3. CASE L!Join("LCD", t)
  <2>1. /\ LCDFree["LCD"] = 0 /\ LCDFree' = LCDFree
        /\ LCDwaiting' = [LCDwaiting EXCEPT !["LCD"] = @ \cup {t}]
    BY <1>3 DEF L!Join
  <2>2. drawing' \ LCDwaiting'["LCD"] = drawing \ LCDwaiting["LCD"]
    BY <1>1, <2>1 DEF LCDToken
  <2>3. QED
    BY <1>1, <2>1, <2>2 DEF LCDToken
<1>4. QED
  BY <1>2, <1>3 DEF MessageWaits

LEMMA MessageSignalsStep ==
  ASSUME LCDToken, NEW t \in Drawers, MessageSignals(t)
  PROVE  LCDToken'
<1>1. /\ t \in drawing /\ t \notin LCDwaiting["LCD"]
      /\ drawing' = drawing \ {t}
      /\ messages' = [messages EXCEPT ![t] = messages[t] - 1]
  BY DEF MessageSignals, Prints
<1>2. LCDFree["LCD"] = 0
  BY <1>1 DEF LCDToken
<1>3. /\ messages' \in [Drawers -> 0..4]
      /\ \A u \in drawing' : messages'[u] > 0
  BY <1>1 DEF LCDToken
<1>4. CASE L!Release("LCD")
  <2>1. /\ LCDwaiting["LCD"] = {} /\ LCDwaiting' = LCDwaiting
        /\ LCDFree' = [LCDFree EXCEPT !["LCD"] = @ + 1]
    BY <1>4 DEF L!Release
  <2>2. drawing' = {}
    BY <1>1, <2>1 DEF LCDToken
  <2>3. QED
    BY <1>1, <1>2, <1>3, <2>1, <2>2 DEF LCDToken
<1>5. ASSUME NEW u \in Drawers, L!HandOver("LCD", u)
      PROVE  LCDToken'
  <2>1. /\ u \in LCDwaiting["LCD"] /\ LCDFree' = LCDFree
        /\ LCDwaiting' = [LCDwaiting EXCEPT !["LCD"] = @ \ {u}]
    BY <1>5 DEF L!HandOver
  <2>2. \A v \in drawing' \ LCDwaiting'["LCD"] : v = u
    BY <1>1, <2>1 DEF LCDToken
  <2>3. LCDwaiting'["LCD"] \subseteq drawing'
    BY <1>1, <2>1 DEF LCDToken
  <2>4. QED
    BY <1>1, <1>2, <1>3, <2>1, <2>2, <2>3 DEF LCDToken
<1>6. QED
  BY <1>4, <1>5 DEF MessageSignals, SignalLCD

(* Before it draws, a thread plans at least one message. *)
LEMMA PrintsStep ==
  ASSUME LCDToken, NEW t \in Drawers, NEW n \in 1..4, Prints(t, n),
         UNCHANGED <<drawing, LCDFree, LCDwaiting>>
  PROVE  LCDToken'
  BY DEF LCDToken, Prints

LEMMA LCDNext == LCDToken /\ [Next]_vars => LCDToken'
<1> SUFFICES ASSUME LCDToken, [Next]_vars PROVE LCDToken'
  OBVIOUS
<1>1. /\ {"Display", "ButtonWork"} \subseteq Drawers
      /\ 1 \in 1..4 /\ 3 \in 1..4 /\ 4 \in 1..4
  BY DEF Drawers
<1>2. CASE UNCHANGED lcd
  BY <1>2 DEF lcd, LCDToken
<1>3. CASE Producer
  BY <1>2, <1>3 DEF Producer
<1>4. CASE ConsumerStarts
  BY <1>1, <1>2, <1>4, PrintsStep DEF ConsumerStarts, lcd
<1>5. CASE ConsumerChecks \/ ConsumerCollects \/ ConsumerSends
  BY <1>2, <1>5 DEF ConsumerChecks, ConsumerCollects, ConsumerSends
<1>6. CASE DisplayChecks
  BY <1>1, <1>2, <1>6, PrintsStep DEF DisplayChecks, lcd
<1>7. CASE DisplayReceives
  BY <1>1, <1>2, <1>7, PrintsStep DEF DisplayReceives, lcd
<1>8. CASE DisplayDies
  BY <1>2, <1>8 DEF DisplayDies
<1>9. CASE \E t \in Drawers : MessageWaits(t) \/ MessageSignals(t)
  BY <1>9, MessageWaitsStep, MessageSignalsStep
<1>10. CASE ButtonPushed
  BY <1>1, <1>10, PrintsStep DEF ButtonPushed
<1>11. CASE UNCHANGED vars
  BY <1>2, <1>11 DEF vars
<1>12. QED
  BY <1>3, <1>4, <1>5, <1>6, <1>7, <1>8, <1>9, <1>10, <1>11 DEF Next

-----------------------------------------------------------------------------
(* Types and control, with and without overruns.                           *)

LEMMA TypesInit == Init => TypesInv
<1> SUFFICES ASSUME Init PROVE TypesInv
  OBVIOUS
<1>1. /\ units = [s \in Semaphores |-> IF s = "BoxFree" THEN 1 ELSE 0]
      /\ waiting = [s \in Semaphores |-> {}]
      /\ "CurrentSize" \in Semaphores
  BY DEF Init, M!OS_MailBox_Init, M!Semaphore!Init, M!InitialValue, Semaphores
<1>2. SemaphoreTypes
  BY <1>1 DEF SemaphoreTypes
<1>3. FifoTypes
  BY <1>1, Sizes DEF Init, F!OS_Fifo_Init, FifoTypes, Elements, Size
<1>4. ThreadTypes
  BY Sizes DEF Init, ThreadTypes
<1>5. BoxTypes
  BY DEF Init, M!OS_MailBox_Init, BoxTypes, NoMail
<1>6. Control
  BY <1>1 DEF Init, F!OS_Fifo_Init, M!OS_MailBox_Init, Control, Threads
<1>7. QED
  BY <1>2, <1>3, <1>4, <1>5, <1>6 DEF TypesInv

LEMMA ProducerTypes == TypesInv /\ Producer => TypesInv'
<1> SUFFICES ASSUME TypesInv, Producer PROVE TypesInv'
  OBVIOUS
<1>1. /\ NumSamples < RUNLENGTH
      /\ NumSamples' = NumSamples + 1
      /\ UNCHANGED <<box, consumer, x, display>>
  BY DEF Producer
<1>2. NumSamples + 1 \in Samples
  BY <1>1, Sizes DEF TypesInv, FifoTypes, Samples
<1>3. BoxTypes' /\ ThreadTypes'
  BY <1>1 DEF TypesInv, BoxTypes, ThreadTypes, box
<1>4. CASE F!PutRefused /\ DataLost' = DataLost + 1
  <2>1. FifoTypes'
    BY <1>1, <1>4, Sizes DEF TypesInv, FifoTypes, F!PutRefused, Size
  <2>2. SemaphoreTypes' /\ Control'
    BY <1>1, <1>4 DEF TypesInv, SemaphoreTypes, Control, F!PutRefused, Size, box
  <2>3. QED
    BY <1>3, <2>1, <2>2 DEF TypesInv
<1>5. CASE F!PutSaved(NumSamples + 1) /\ UNCHANGED DataLost
  <2>1. /\ Size # FIFOSIZE
        /\ Fifo' = [Fifo EXCEPT ![PutI] = NumSamples + 1]
        /\ PutI' = F!After(PutI)
        /\ SignalEffect("CurrentSize")
        /\ UNCHANGED <<GetI, LostData, getting, got>>
    BY <1>5, FifoSemaphore DEF F!PutSaved, F!Full, Size
  <2>2. "CurrentSize" \in Semaphores
    BY DEF Semaphores
  <2>3. SemaphoreTypes' /\ Size' <= FIFOSIZE
    <3>1. Size \in Nat /\ Size <= FIFOSIZE
      BY <2>2 DEF TypesInv, SemaphoreTypes, FifoTypes, Size
    <3>2. CASE /\ units' = [units EXCEPT !["CurrentSize"] = @ + 1]
               /\ waiting' = waiting
      <4>1. Size' = Size + 1
        BY <2>2, <3>2 DEF TypesInv, SemaphoreTypes, Size
      <4>2. SemaphoreTypes'
        BY <2>2, <3>2 DEF TypesInv, SemaphoreTypes
      <4>3. QED
        BY <2>1, <3>1, <4>1, <4>2, Sizes
    <3>3. ASSUME NEW t \in Threads, units' = units,
                 waiting' = [waiting EXCEPT !["CurrentSize"] = @ \ {t}]
          PROVE  SemaphoreTypes' /\ Size' <= FIFOSIZE
      BY <3>1, <3>3 DEF TypesInv, SemaphoreTypes, Size
    <3>4. QED
      BY <2>1, <3>2, <3>3 DEF SignalEffect
  <2>4. PutI' \in 0..FIFOSIZE - 1
    BY <2>1, AfterIndex, Sizes DEF TypesInv, FifoTypes
  <2>5. FifoTypes'
    BY <1>1, <1>2, <1>5, <2>1, <2>3, <2>4, Sizes DEF TypesInv, FifoTypes, Elements
  <2>6. Control'
    BY <1>1, <2>1, <2>2 DEF SignalEffect, TypesInv, SemaphoreTypes, Control, Size, box
  <2>7. QED
    BY <1>3, <2>3, <2>5, <2>6 DEF TypesInv
<1>6. QED
  BY <1>4, <1>5 DEF Producer

LEMMA CollectsTypes == TypesInv /\ ConsumerCollects => TypesInv'
<1> SUFFICES ASSUME TypesInv, ConsumerCollects PROVE TypesInv'
  OBVIOUS
<1>1. /\ consumer = "collect" /\ Len(x) < BATCH
      /\ UNCHANGED <<NumSamples, DataLost, box, consumer, display>>
  BY DEF ConsumerCollects
<1>2. BoxTypes'
  BY <1>1 DEF TypesInv, BoxTypes, box
<1>3. "CurrentSize" \in Semaphores /\ "Consumer" \in Threads
  BY DEF Semaphores, Threads
<1>4. CASE F!GetWait /\ UNCHANGED x
  <2>1. /\ getting = "no" /\ getting' = "read"
        /\ WaitEffect("Consumer", "CurrentSize")
        /\ UNCHANGED <<PutI, GetI, Fifo, LostData, got>>
    BY <1>4, FifoSemaphore DEF F!GetWait
  <2>2. SemaphoreTypes' /\ Size' <= FIFOSIZE
    BY <1>3, <2>1, Sizes DEF WaitEffect, TypesInv, SemaphoreTypes, FifoTypes, Size
  <2>3. FifoTypes' /\ ThreadTypes'
    BY <1>1, <1>4, <2>1, <2>2 DEF TypesInv, FifoTypes, ThreadTypes
  <2>4. Control'
    BY <1>1, <1>3, <1>4, <2>1 DEF WaitEffect, TypesInv, SemaphoreTypes, Control, Size, box
  <2>5. QED
    BY <1>2, <2>2, <2>3, <2>4 DEF TypesInv
<1>5. CASE F!GetRead /\ UNCHANGED x
  <2>1. /\ "Consumer" \notin waiting["CurrentSize"] /\ got' = Fifo[GetI] /\ getting' = "advance"
        /\ UNCHANGED <<PutI, GetI, Fifo, LostData, units, waiting>>
    BY <1>5 DEF F!GetRead, F!PastWait
  <2>2. got' \in Elements
    BY <2>1 DEF TypesInv, FifoTypes
  <2>3. FifoTypes' /\ ThreadTypes' /\ SemaphoreTypes'
    BY <1>1, <1>5, <2>1, <2>2 DEF TypesInv, FifoTypes, ThreadTypes, SemaphoreTypes, Size
  <2>4. Control'
    BY <1>1, <1>5, <2>1 DEF TypesInv, Control, Size, box
  <2>5. QED
    BY <1>2, <2>3, <2>4 DEF TypesInv
<1>6. CASE F!GetAdvance /\ x' = Append(x, got)
  <2>1. /\ getting' = "no" /\ GetI' = F!After(GetI) /\ getting = "advance"
        /\ UNCHANGED <<PutI, Fifo, LostData, got, units, waiting>>
    BY <1>6 DEF F!GetAdvance, F!NextSlot
  <2>2. GetI' \in 0..FIFOSIZE - 1
    BY <2>1, AfterIndex, Sizes DEF TypesInv, FifoTypes
  <2>3. x' \in Seq(Elements) /\ Len(x') = Len(x) + 1
    BY <1>6 DEF TypesInv, FifoTypes, ThreadTypes
  <2>4. ThreadTypes'
    BY <1>1, <2>3, Sizes DEF TypesInv, ThreadTypes
  <2>5. FifoTypes' /\ SemaphoreTypes'
    BY <1>1, <2>1, <2>2 DEF TypesInv, FifoTypes, SemaphoreTypes, Size
  <2>6. Control'
    BY <1>1, <2>1 DEF TypesInv, Control, Size, box
  <2>7. QED
    BY <1>2, <2>4, <2>5, <2>6 DEF TypesInv
<1>7. QED
  BY <1>4, <1>5, <1>6 DEF ConsumerCollects

(* Every other step leaves the fifo alone. *)
Others ==
  \/ ConsumerStarts \/ ConsumerChecks \/ ConsumerSends
  \/ DisplayChecks \/ DisplayReceives \/ DisplayDies
  \/ (\E t \in Drawers : MessageWaits(t) \/ MessageSignals(t))
  \/ ButtonPushed
  \/ UNCHANGED vars

LEMMA OthersTypes ==
  ASSUME TypesInv, Others
  PROVE  /\ SemaphoreTypes' /\ BoxTypes' /\ ThreadTypes'
         /\ UNCHANGED <<NumSamples, DataLost, fifo>>
         /\ units'["CurrentSize"] = units["CurrentSize"]
         /\ waiting'["CurrentSize"] = waiting["CurrentSize"]
<1> DEFINE Kept == /\ UNCHANGED <<NumSamples, DataLost, fifo>>
                   /\ units'["CurrentSize"] = units["CurrentSize"]
                   /\ waiting'["CurrentSize"] = waiting["CurrentSize"]
<1>1. CASE UNCHANGED <<NumSamples, DataLost, fifo, box, semas>>
  <2>1. SemaphoreTypes' /\ BoxTypes' /\ Kept
    BY <1>1 DEF TypesInv, SemaphoreTypes, BoxTypes, box, semas
  <2>2. ThreadTypes'
    <3>1. CASE UNCHANGED <<consumer, x, display>>
      BY <3>1 DEF TypesInv, ThreadTypes
    <3>2. CASE ConsumerStarts
      BY <3>2 DEF ConsumerStarts, TypesInv, ThreadTypes
    <3>3. CASE ConsumerChecks
      BY <3>3, Sizes DEF ConsumerChecks, TypesInv, ThreadTypes
    <3>4. CASE DisplayChecks \/ DisplayDies
      BY <3>4 DEF DisplayChecks, DisplayDies, TypesInv, ThreadTypes
    <3>5. CASE ConsumerSends
      BY <3>5 DEF ConsumerSends, TypesInv, ThreadTypes
    <3>6. CASE DisplayReceives
      BY <3>6 DEF DisplayReceives, TypesInv, ThreadTypes
    <3>7. QED
      BY <3>1, <3>2, <3>3, <3>4, <3>5, <3>6
         DEF Others, MessageWaits, MessageSignals, ButtonPushed, vars
  <2>3. QED
    BY <2>1, <2>2
<1>2. CASE ConsumerSends
  <2>1. BoxStep /\ UNCHANGED <<NumSamples, DataLost, fifo, x, display>>
    BY <1>2 DEF ConsumerSends, BoxStep
  <2>2. consumer' \in {consumer, "send", "loop"}
    BY <1>2 DEF ConsumerSends
  <2>3. ThreadTypes'
    BY <2>1, <2>2 DEF TypesInv, ThreadTypes
  <2>4. QED
    BY <2>1, <2>3, BoxSteps DEF TypesInv, ThreadTypes
<1>3. CASE DisplayReceives
  <2>1. BoxStep /\ UNCHANGED <<NumSamples, DataLost, fifo, consumer, x>>
    BY <1>3 DEF DisplayReceives, BoxStep
  <2>2. display' \in {display, "loop"}
    BY <1>3 DEF DisplayReceives
  <2>3. ThreadTypes'
    BY <2>1, <2>2 DEF TypesInv, ThreadTypes
  <2>4. QED
    BY <2>1, <2>3, BoxSteps DEF TypesInv, ThreadTypes
<1>4. QED
  BY <1>1, <1>2, <1>3 DEF Others, ConsumerStarts, ConsumerChecks, DisplayChecks, DisplayDies,
     MessageWaits, MessageSignals, ButtonPushed, vars

LEMMA OthersControl == TypesInv /\ Others => Control'
<1> SUFFICES ASSUME TypesInv, Others PROVE Control'
  OBVIOUS
<1>1. /\ getting' = getting /\ Size' = Size
      /\ waiting'["CurrentSize"] = waiting["CurrentSize"]
  BY OthersTypes DEF fifo, Size
<1>2. CASE /\ call'["Consumer"] = call["Consumer"] /\ UNCHANGED x
           /\ consumer' = consumer \/ (consumer # "collect" /\ consumer # "send")
  BY <1>1, <1>2 DEF TypesInv, Control
<1>3. CASE ConsumerChecks
  BY <1>1, <1>3, Sizes DEF ConsumerChecks, TypesInv, Control, box
<1>4. CASE ConsumerSends
  <2>1. CASE /\ consumer = "collect" /\ Len(x) = BATCH
             /\ M!Send("Consumer", x) /\ consumer' = "send"
    <3>1. call' = [call EXCEPT !["Consumer"] = "store"]
      BY <2>1 DEF M!Send
    <3>2. getting = "no"
      BY <2>1, Sizes DEF TypesInv, Control, FifoTypes
    <3>3. QED
      BY <1>1, <2>1, <3>1, <3>2 DEF TypesInv, BoxTypes, Control, Threads
  <2>2. CASE M!SendStore("Consumer") /\ UNCHANGED consumer
    <3>1. call["Consumer"] = "store" /\ call' = [call EXCEPT !["Consumer"] = "valid"]
      BY <2>2 DEF M!SendStore
    <3>2. UNCHANGED x
      BY <1>4 DEF ConsumerSends
    <3>3. QED
      BY <1>1, <2>2, <3>1, <3>2 DEF TypesInv, BoxTypes, Control, Threads
  <2>3. CASE M!SendSignal("Consumer") /\ consumer' = "loop"
    <3>1. call["Consumer"] = "valid" /\ call' = [call EXCEPT !["Consumer"] = "none"]
      BY <2>3 DEF M!SendSignal
    <3>2. getting = "no"
      BY <3>1 DEF TypesInv, Control
    <3>3. QED
      BY <1>1, <2>3, <3>1, <3>2 DEF TypesInv, BoxTypes, Control, Threads
  <2>4. QED
    BY <1>4, <2>1, <2>2, <2>3 DEF ConsumerSends
<1>5. CASE DisplayReceives
  <2>1. call'["Consumer"] = call["Consumer"]
    BY <1>5 DEF DisplayReceives, M!Recv, M!RecvRead, M!RecvSignal, TypesInv, BoxTypes, Threads
  <2>2. QED
    BY <1>2, <1>5, <2>1 DEF DisplayReceives
<1>6. CASE ConsumerStarts
  BY <1>2, <1>6 DEF ConsumerStarts, box
<1>7. QED
  BY <1>2, <1>3, <1>4, <1>5, <1>6 DEF Others, DisplayChecks, DisplayDies, MessageWaits,
     MessageSignals, ButtonPushed, vars, box

LEMMA TypesNext == TypesInv /\ [Next]_vars => TypesInv'
<1> SUFFICES ASSUME TypesInv, [Next]_vars PROVE TypesInv'
  OBVIOUS
<1>1. CASE Producer \/ ConsumerCollects
  BY <1>1, ProducerTypes, CollectsTypes
<1>2. CASE Others
  <2>1. FifoTypes'
    BY <1>2, OthersTypes DEF TypesInv, FifoTypes, Size, fifo
  <2>2. QED
    BY <1>2, <2>1, OthersTypes, OthersControl DEF TypesInv
<1>3. QED
  BY <1>1, <1>2 DEF Next, Others

LEMMA Invariance == Spec => [](TypesInv /\ LCDToken)
<1>1. Init => TypesInv /\ LCDToken
  BY TypesInit, LCDInit
<1>2. TypesInv /\ LCDToken /\ [Next]_vars => (TypesInv /\ LCDToken)'
  BY TypesNext, LCDNext
<1>3. QED
  BY <1>1, <1>2, PTL DEF Spec

(* The variables of the data path keep their types, with and without overruns:
   in particular CurrentSize never passes FIFOSIZE, a batch never passes BATCH,
   LCDFree never passes 1, and LostData is what Producer counted. *)
THEOREM TypesCorrect == Spec => []TypeOK
<1>1. TypesInv /\ LCDToken => TypeOK
  BY DEF TypesInv, FifoTypes, SemaphoreTypes, ThreadTypes, LCDToken, TypeOK, Size, Elements,
     Semaphores
<1>2. QED
  BY <1>1, Invariance, PTL

-----------------------------------------------------------------------------
(* The fifo without overruns.                                              *)

LEMMA View ==
  ASSUME TypesInv, Indexes
  PROVE  /\ Count \in 0..FIFOSIZE
         /\ First \in 0..FIFOSIZE - 1
         /\ F!Unread = [k \in 1..Count |-> Fifo[(First + k - 1) % FIFOSIZE]]
         /\ F!PastWait => getting = "read"
<1>1. Size \in Nat /\ Size <= FIFOSIZE
  BY DEF TypesInv, SemaphoreTypes, FifoTypes, Size, Semaphores
<1>2. Count \in 0..FIFOSIZE
  BY <1>1, Sizes DEF Indexes, Count
<1>3. First \in 0..FIFOSIZE - 1
  BY AfterIndex, Sizes DEF TypesInv, FifoTypes, First
<1>4. QED
  BY <1>2, <1>3 DEF F!Unread, Count, First, Size, F!PastWait

LEMMA UnreadSeq ==
  TypesInv /\ Indexes => F!Unread \in Seq(Elements) /\ Len(F!Unread) = Count
<1> SUFFICES ASSUME TypesInv, Indexes
             PROVE  F!Unread \in Seq(Elements) /\ Len(F!Unread) = Count
  OBVIOUS
<1>1. \A k \in 1..Count : (First + k - 1) % FIFOSIZE \in 0..FIFOSIZE - 1
  BY View, Wrap, Sizes
<1>2. F!Unread \in [1..Count -> Elements]
  BY <1>1, View DEF TypesInv, FifoTypes
<1>3. Count \in Nat
  BY View, Sizes
<1>4. QED
  BY <1>2, <1>3

(* The element behind the last is PutI, and no unread element is there as long
   as the fifo is not full. *)
LEMMA SlotNumbers ==
  ASSUME NEW i \in 0..FIFOSIZE - 1, NEW n \in 0..FIFOSIZE - 1
  PROVE  /\ (i + n) % FIFOSIZE \in 0..FIFOSIZE - 1
         /\ F!After((i + n) % FIFOSIZE) = (i + n + 1) % FIFOSIZE
         /\ \A k \in 1..n : (i + k - 1) % FIFOSIZE # (i + n) % FIFOSIZE
         /\ \A k \in 1..n + 1 : (F!After(i) + k - 1) % FIFOSIZE = (i + k) % FIFOSIZE
<1>1. i + n \in 0..2 * FIFOSIZE - 1 /\ i + n + 1 \in 0..2 * FIFOSIZE - 1
  BY Sizes
<1>2. (i + n) % FIFOSIZE = IF i + n < FIFOSIZE THEN i + n ELSE i + n - FIFOSIZE
  BY <1>1, Wrap, Sizes
<1>3. (i + n + 1) % FIFOSIZE = IF i + n + 1 < FIFOSIZE THEN i + n + 1 ELSE i + n + 1 - FIFOSIZE
  BY <1>1, Wrap, Sizes
<1>4. (i + n) % FIFOSIZE \in 0..FIFOSIZE - 1
  BY <1>2, Sizes
<1>5. F!After((i + n) % FIFOSIZE) = (i + n + 1) % FIFOSIZE
  BY <1>2, <1>3, <1>4, AfterIndex, Sizes
<1>6. \A k \in 1..n : (i + k - 1) % FIFOSIZE # (i + n) % FIFOSIZE
  <2> TAKE k \in 1..n
  <2>1. i + k - 1 \in 0..2 * FIFOSIZE - 1
    BY Sizes
  <2>2. QED
    BY <1>2, <2>1, Wrap, Sizes
<1>7. \A k \in 1..n + 1 : (F!After(i) + k - 1) % FIFOSIZE = (i + k) % FIFOSIZE
  <2> TAKE k \in 1..n + 1
  <2>1. i + k \in 0..2 * FIFOSIZE - 1
    BY Sizes
  <2>2. F!After(i) = IF i = FIFOSIZE - 1 THEN 0 ELSE i + 1
    BY AfterIndex
  <2>3. F!After(i) + k - 1 \in 0..2 * FIFOSIZE - 1
    BY <2>2, Sizes
  <2>4. QED
    BY <2>1, <2>2, <2>3, Wrap, Sizes
<1>8. QED
  BY <1>4, <1>5, <1>6, <1>7

(* OS_Fifo_Put adds an element at the end. *)
LEMMA PutEffect ==
  ASSUME ~Overrun, TypesInv, Indexes, Producer, F!PutSaved(NumSamples + 1)
  PROVE  /\ Count < FIFOSIZE
         /\ Count' = Count + 1
         /\ UNCHANGED <<getting, got, LostData>>
         /\ Indexes'
         /\ \A k \in 1..Count : F!Unread'[k] = F!Unread[k]
         /\ F!Unread'[Count + 1] = NumSamples + 1
<1>1. /\ Size # FIFOSIZE
      /\ Fifo' = [Fifo EXCEPT ![PutI] = NumSamples + 1]
      /\ PutI' = F!After(PutI)
      /\ SignalEffect("CurrentSize")
      /\ UNCHANGED <<GetI, LostData, getting, got>>
  BY FifoSemaphore DEF F!PutSaved, F!Full, Size
<1>2. ~(F!PastWait /\ Size = FIFOSIZE - 1)
  BY DEF Producer, F!Exposed, Size
<1>3. /\ Size \in Nat /\ Size <= FIFOSIZE
      /\ PutI \in 0..FIFOSIZE - 1
      /\ Fifo \in [0..FIFOSIZE - 1 -> Elements]
      /\ units \in [Semaphores -> Nat]
      /\ waiting \in [Semaphores -> SUBSET Threads]
      /\ "CurrentSize" \in Semaphores
      /\ Control
  BY DEF TypesInv, SemaphoreTypes, FifoTypes, Size, Semaphores
<1>4. Count < FIFOSIZE
  BY <1>1, <1>2, <1>3, Sizes DEF Count
<1>5. Count' = Count + 1 /\ (F!PastWait' => Size' < FIFOSIZE)
  <2>1. CASE /\ units' = [units EXCEPT !["CurrentSize"] = @ + 1]
             /\ waiting' = waiting
    <3>1. Size' = Size + 1
      BY <1>3, <2>1 DEF Size
    <3>2. F!PastWait' = F!PastWait
      BY <1>1, <2>1 DEF F!PastWait
    <3>3. QED
      BY <1>1, <1>2, <1>3, <3>1, <3>2, Sizes DEF Count
  <2>2. ASSUME NEW t \in Threads, t \in waiting["CurrentSize"], units' = units,
               waiting' = [waiting EXCEPT !["CurrentSize"] = @ \ {t}]
        PROVE  Count' = Count + 1 /\ (F!PastWait' => Size' < FIFOSIZE)
    <3>1. t = "Consumer" /\ getting = "read" /\ Size = 0 /\ Size' = Size
      BY <1>3, <2>2 DEF Control, Size
    <3>2. ~F!PastWait
      BY <2>2, <3>1 DEF F!PastWait
    <3>3. F!PastWait'
      BY <1>1, <1>3, <2>2, <3>1 DEF F!PastWait
    <3>4. QED
      BY <3>1, <3>2, <3>3, Sizes DEF Count
  <2>3. QED
    BY <1>1, <2>1, <2>2 DEF SignalEffect
<1>6. First' = First /\ First \in 0..FIFOSIZE - 1 /\ Count \in 0..FIFOSIZE - 1
  BY <1>1, <1>4, View, Sizes DEF First, F!After
<1>7. PutI' = (First' + Count') % FIFOSIZE
  BY <1>1, <1>5, <1>6, SlotNumbers DEF Indexes
<1>8. Indexes'
  BY <1>5, <1>7 DEF Indexes
<1>9. TypesInv'
  BY ProducerTypes
<1>10. F!Unread' = [k \in 1..Count' |-> Fifo'[(First' + k - 1) % FIFOSIZE]]
  BY <1>5, <1>6, <1>1 DEF F!Unread, Count, First, Size, F!PastWait
<1>11. \A k \in 1..Count : F!Unread'[k] = F!Unread[k]
  <2> TAKE k \in 1..Count
  <2>0. k \in 1..Count'
    BY <1>5, <1>6
  <2>1. F!Unread'[k] = Fifo'[(First + k - 1) % FIFOSIZE]
    BY <1>6, <1>10, <2>0
  <2>2. (First + k - 1) % FIFOSIZE # PutI
    <3>1. \A j \in 1..Count : (First + j - 1) % FIFOSIZE # (First + Count) % FIFOSIZE
      BY <1>6, SlotNumbers
    <3>2. PutI = (First + Count) % FIFOSIZE
      BY <1>1 DEF Indexes
    <3>3. QED
      BY <3>1, <3>2
  <2>3. (First + k - 1) % FIFOSIZE \in 0..FIFOSIZE - 1
    BY <1>6, Wrap, Sizes
  <2>4. QED
    BY <1>1, <1>3, <2>1, <2>2, <2>3, View
<1>12. F!Unread'[Count + 1] = NumSamples + 1
  <2>1. F!Unread'[Count + 1] = Fifo'[(First + Count) % FIFOSIZE]
    BY <1>5, <1>6, <1>10
  <2>2. QED
    BY <1>1, <1>3, <2>1 DEF Indexes
<1>13. QED
  BY <1>1, <1>4, <1>5, <1>8, <1>11, <1>12

QueueKept == /\ Count' = Count
             /\ F!Unread' = F!Unread
             /\ UNCHANGED <<got, LostData>>
             /\ Indexes'

(* OS_Wait takes the unit of the first element; that element stays the first. *)
LEMMA GetWaitEffect == TypesInv /\ Indexes /\ F!GetWait => QueueKept
<1> SUFFICES ASSUME TypesInv, Indexes, F!GetWait PROVE QueueKept
  OBVIOUS
<1>1. /\ getting = "no" /\ getting' = "read"
      /\ WaitEffect("Consumer", "CurrentSize")
      /\ UNCHANGED <<PutI, GetI, Fifo, LostData, got>>
  BY FifoSemaphore DEF F!GetWait
<1>2. /\ Size \in Nat /\ Size <= FIFOSIZE
      /\ units \in [Semaphores -> Nat]
      /\ waiting \in [Semaphores -> SUBSET Threads]
      /\ "CurrentSize" \in Semaphores
      /\ "Consumer" \notin waiting["CurrentSize"]
  BY <1>1 DEF TypesInv, SemaphoreTypes, FifoTypes, Control, Size, Semaphores
<1>3. ~F!PastWait
  BY <1>1 DEF F!PastWait
<1>4. Count' = Count /\ (F!PastWait' => Size' < FIFOSIZE)
  <2>1. CASE /\ units["CurrentSize"] > 0
             /\ units' = [units EXCEPT !["CurrentSize"] = @ - 1]
             /\ waiting' = waiting
    <3>1. Size' = Size - 1
      BY <1>2, <2>1 DEF Size
    <3>2. F!PastWait'
      BY <1>1, <1>2, <2>1 DEF F!PastWait
    <3>3. QED
      BY <1>2, <1>3, <3>1, <3>2, Sizes DEF Count
  <2>2. CASE /\ units' = units
             /\ waiting' = [waiting EXCEPT !["CurrentSize"] = @ \cup {"Consumer"}]
    <3>1. Size' = Size /\ ~F!PastWait'
      BY <1>2, <2>2 DEF Size, F!PastWait
    <3>2. QED
      BY <1>3, <3>1 DEF Count
  <2>3. QED
    BY <1>1, <2>1, <2>2 DEF WaitEffect
<1>5. First' = First
  BY <1>1 DEF First
<1>6. F!Unread = [k \in 1..Count |-> Fifo[(First + k - 1) % FIFOSIZE]]
  BY View
<1>7. F!Unread' = [k \in 1..Count' |-> Fifo'[(First' + k - 1) % FIFOSIZE]]
  BY DEF F!Unread, Count, First, Size, F!PastWait
<1>8. QED
  BY <1>1, <1>4, <1>5, <1>6, <1>7 DEF QueueKept, Indexes

(* Reading Fifo[GetI] takes the first element. *)
LEMMA GetReadEffect ==
  ASSUME TypesInv, Indexes, F!GetRead
  PROVE  /\ Count \in 1..FIFOSIZE /\ Count' = Count - 1
         /\ got' = F!Unread[1] /\ UNCHANGED LostData
         /\ \A k \in 1..Count' : F!Unread'[k] = F!Unread[k + 1]
         /\ Indexes'
<1>1. /\ F!PastWait /\ getting = "read" /\ getting' = "advance" /\ got' = Fifo[GetI]
      /\ UNCHANGED <<PutI, GetI, Fifo, LostData, units, waiting>>
  BY DEF F!GetRead, F!PastWait
<1>2. Size \in Nat /\ Size < FIFOSIZE /\ Size' = Size
  BY <1>1 DEF TypesInv, SemaphoreTypes, FifoTypes, Indexes, Size, Semaphores
<1>3. ~F!PastWait'
  BY <1>1 DEF F!PastWait
<1>4. Count = Size + 1 /\ Count' = Size /\ Count' \in 0..FIFOSIZE - 1
  BY <1>1, <1>2, <1>3, Sizes DEF Count
<1>5. First = GetI /\ First' = F!After(GetI) /\ GetI \in 0..FIFOSIZE - 1
  BY <1>1 DEF First, F!After, TypesInv, FifoTypes
<1>6. \A k \in 1..Count : (F!After(GetI) + k - 1) % FIFOSIZE = (GetI + k) % FIFOSIZE
  BY <1>2, <1>4, <1>5, SlotNumbers, Sizes
<1>7. PutI' = (First' + Count') % FIFOSIZE
  <2>1. PutI = (GetI + Count) % FIFOSIZE
    BY <1>5 DEF Indexes
  <2>2. (F!After(GetI) + Count - 1) % FIFOSIZE = (GetI + Count) % FIFOSIZE
    BY <1>2, <1>4, <1>6
  <2>3. F!After(GetI) \in 0..FIFOSIZE - 1
    BY <1>5, AfterIndex, Sizes
  <2>4. First' + Count' = F!After(GetI) + Count - 1
    BY <1>2, <1>4, <1>5, <2>3, Sizes
  <2>5. QED
    BY <1>1, <2>1, <2>2, <2>4
<1>8. F!Unread = [k \in 1..Count |-> Fifo[(First + k - 1) % FIFOSIZE]]
  BY View
<1>9. F!Unread' = [k \in 1..Count' |-> Fifo'[(First' + k - 1) % FIFOSIZE]]
  BY DEF F!Unread, Count, First, Size, F!PastWait
<1>10. F!Unread[1] = Fifo[GetI]
  <2>1. F!Unread[1] = Fifo[(GetI + 1 - 1) % FIFOSIZE]
    BY <1>2, <1>4, <1>5, <1>8
  <2>2. GetI + 1 - 1 = GetI /\ GetI % FIFOSIZE = GetI
    BY <1>5, Wrap, Sizes
  <2>3. QED
    BY <2>1, <2>2
<1>11. ASSUME NEW k \in 1..Count' PROVE F!Unread'[k] = F!Unread[k + 1]
  <2>1. k \in 1..Count /\ k + 1 \in 1..Count /\ GetI + (k + 1) - 1 = GetI + k
    BY <1>2, <1>4, <1>5, Sizes
  <2>2. F!Unread'[k] = Fifo[(F!After(GetI) + k - 1) % FIFOSIZE]
    BY <1>1, <1>5, <1>9
  <2>3. F!Unread[k + 1] = Fifo[(GetI + k) % FIFOSIZE]
    BY <1>5, <1>8, <2>1
  <2>4. QED
    BY <1>6, <2>1, <2>2, <2>3
<1>12. QED
  BY <1>1, <1>2, <1>3, <1>4, <1>7, <1>10, <1>11, Sizes DEF Indexes

LEMMA GetAdvanceEffect == TypesInv /\ Indexes /\ F!GetAdvance => QueueKept
<1> SUFFICES ASSUME TypesInv, Indexes, F!GetAdvance PROVE QueueKept
  OBVIOUS
<1>1. /\ getting = "advance" /\ getting' = "no" /\ GetI' = F!After(GetI)
      /\ UNCHANGED <<PutI, Fifo, LostData, got, units, waiting>>
  BY DEF F!GetAdvance, F!NextSlot
<1>2. ~F!PastWait /\ ~F!PastWait'
  BY <1>1 DEF F!PastWait
<1>3. Count' = Count /\ First' = First
  BY <1>1, <1>2 DEF Count, First, Size
<1>4. F!Unread = [k \in 1..Count |-> Fifo[(First + k - 1) % FIFOSIZE]]
  BY View
<1>5. F!Unread' = [k \in 1..Count' |-> Fifo'[(First' + k - 1) % FIFOSIZE]]
  BY DEF F!Unread, Count, First, Size, F!PastWait
<1>6. QED
  BY <1>1, <1>2, <1>3, <1>4, <1>5 DEF QueueKept, Indexes

LEMMA OthersEffect == TypesInv /\ Indexes /\ Others => QueueKept
<1> SUFFICES ASSUME TypesInv, Indexes, Others PROVE QueueKept
  OBVIOUS
<1>1. /\ UNCHANGED <<PutI, GetI, Fifo, LostData, getting, got>>
      /\ Size' = Size
      /\ waiting'["CurrentSize"] = waiting["CurrentSize"]
  BY OthersTypes DEF fifo, Size
<1>2. F!PastWait' = F!PastWait
  BY <1>1 DEF F!PastWait
<1>3. Count' = Count /\ First' = First
  BY <1>1, <1>2 DEF Count, First, F!After
<1>4. F!Unread = [k \in 1..Count |-> Fifo[(First + k - 1) % FIFOSIZE]]
  BY View
<1>5. F!Unread' = [k \in 1..Count' |-> Fifo'[(First' + k - 1) % FIFOSIZE]]
  BY DEF F!Unread, Count, First, Size, F!PastWait
<1>6. QED
  BY <1>1, <1>2, <1>3, <1>4, <1>5 DEF QueueKept, Indexes

(* OS_Fifo_Put refuses only when the queue is full. *)
LEMMA PutRefusedEffect ==
  TypesInv /\ Indexes /\ F!PutRefused => Count = FIFOSIZE /\ Indexes' /\ F!Unread' = F!Unread
<1> SUFFICES ASSUME TypesInv, Indexes, F!PutRefused
             PROVE  Count = FIFOSIZE /\ Indexes' /\ F!Unread' = F!Unread
  OBVIOUS
<1>1. Size = FIFOSIZE /\ UNCHANGED <<PutI, GetI, Fifo, getting, got, units, waiting>>
  BY DEF F!PutRefused, F!Full, Size
<1>2. Count = FIFOSIZE
  BY <1>1, Sizes DEF Count, Indexes
<1>3. Indexes' /\ F!Unread' = F!Unread
  BY <1>1 DEF Indexes, First, Count, Size, F!PastWait, F!Unread
<1>4. QED
  BY <1>2, <1>3


(* What the steps of Consumer do to the queue. *)
LEMMA CollectsEffect ==
  ASSUME TypesInv, Indexes, ConsumerCollects
  PROVE  \/ QueueKept /\ (F!GetWait \/ F!GetAdvance)
         \/ F!GetRead
  BY GetWaitEffect, GetAdvanceEffect DEF ConsumerCollects

LEMMA IndexesInit == Init => Indexes
<1> SUFFICES ASSUME Init PROVE Indexes
  OBVIOUS
<1>1. PutI = 0 /\ GetI = 0 /\ getting = "no" /\ Size = 0
  BY DEF Init, F!OS_Fifo_Init, M!OS_MailBox_Init, M!Semaphore!Init, M!InitialValue,
     Semaphores, Size
<1>2. ~F!PastWait
  BY <1>1 DEF F!PastWait
<1>3. First = 0 /\ Count = 0
  BY <1>1, <1>2 DEF First, Count
<1>4. 0 % FIFOSIZE = 0
  BY Wrap, Sizes
<1>5. QED
  BY <1>1, <1>2, <1>3, <1>4 DEF Indexes

LEMMA IndexesNext ==
  ASSUME ~Overrun, TypesInv, Indexes, [Next]_vars
  PROVE  Indexes'
<1>1. CASE Producer
  <2>1. CASE F!PutRefused
    BY <2>1, PutRefusedEffect
  <2>2. CASE F!PutSaved(NumSamples + 1)
    BY <1>1, <2>2, PutEffect
  <2>3. QED
    BY <1>1, <2>1, <2>2 DEF Producer
<1>2. CASE ConsumerCollects
  BY <1>2, CollectsEffect, GetReadEffect DEF QueueKept
<1>3. CASE Others
  BY <1>3, OthersEffect DEF QueueKept
<1>4. QED
  BY <1>1, <1>2, <1>3 DEF Next, Others

-----------------------------------------------------------------------------
(* The fifo implements the queue.                                          *)

LEMMA QueueInit == TypesInv /\ Init => Queue!Init
<1> SUFFICES ASSUME TypesInv, Init PROVE Queue!Init
  OBVIOUS
<1>1. LostData = 0 /\ got = NoData /\ getting = "no" /\ Size = 0
  BY DEF Init, F!OS_Fifo_Init, M!OS_MailBox_Init, M!Semaphore!Init, M!InitialValue,
     Semaphores, Size
<1>2. ~F!PastWait
  BY <1>1 DEF F!PastWait
<1>3. Count = 0
  BY <1>1, <1>2 DEF Count
<1>4. F!Unread = <<>>
  BY <1>3, IndexesInit, UnreadSeq, EmptySeq
<1>5. NoData \notin Samples
  BY Sizes DEF NoData, Samples
<1>6. QED
  BY <1>1, <1>4, <1>5 DEF Queue!Init

LEMMA QueueSave ==
  ASSUME ~Overrun, TypesInv, Indexes, Producer, F!PutSaved(NumSamples + 1)
  PROVE  Queue!Save(NumSamples + 1) /\ NumSamples + 1 \in Samples
<1> DEFINE q == F!Unread
           d == NumSamples + 1
<1>1. d \in Samples
  BY Sizes DEF Producer, TypesInv, FifoTypes, Samples
<1>2. q \in Seq(Elements) /\ Len(q) = Count /\ Count \in Nat
  BY UnreadSeq, View, Sizes
<1>3. q' \in Seq(Elements) /\ Len(q') = Count + 1
  <2>1. TypesInv' /\ Indexes' /\ Count' = Count + 1
    BY ProducerTypes, PutEffect
  <2>2. (F!Unread \in Seq(Elements) /\ Len(F!Unread) = Count)'
    BY <2>1, UnreadSeq, PTL
  <2>3. QED
    BY <2>1, <2>2
<1>4. (\A k \in 1..Count : q'[k] = q[k]) /\ q'[Count + 1] = d
  BY PutEffect
<1>5. q' = Append(q, d)
  <2> HIDE DEF q, d
  <2>1. d \in Elements
    BY <1>1 DEF Elements
  <2>2. Append(q, d) \in Seq(Elements) /\ Len(Append(q, d)) = Count + 1
    BY <1>2, <2>1
  <2>3. \A k \in 1..Count + 1 : Append(q, d)[k] = IF k = Count + 1 THEN d ELSE q[k]
    BY <1>2, <2>1
  <2>4. \A k \in 1..Len(q') : q'[k] = Append(q, d)[k]
    BY <1>2, <1>3, <1>4, <2>3
  <2>5. QED
    BY <1>3, <2>2, <2>4, SeqEqual
<1>6. Count < FIFOSIZE /\ UNCHANGED <<LostData, got>>
  BY PutEffect
<1>7. QED
  BY <1>1, <1>2, <1>5, <1>6 DEF Queue!Save

LEMMA QueueDeliver ==
  ASSUME TypesInv, Indexes, TypesInv', F!GetRead
  PROVE  Queue!Deliver
<1> DEFINE q == F!Unread
<1>1. q \in Seq(Elements) /\ Len(q) = Count /\ Count \in 1..FIFOSIZE
  BY UnreadSeq, GetReadEffect
<1>2. q' \in Seq(Elements) /\ Len(q') = Count - 1
  <2>1. Indexes' /\ Count' = Count - 1
    BY GetReadEffect
  <2>2. (F!Unread \in Seq(Elements) /\ Len(F!Unread) = Count)'
    BY <2>1, UnreadSeq, PTL
  <2>3. QED
    BY <2>1, <2>2
<1>3. /\ got' = q[1] /\ UNCHANGED LostData
      /\ \A k \in 1..Count - 1 : q'[k] = q[k + 1]
  BY GetReadEffect
<1> HIDE DEF q
<1>4. q # <<>> /\ Head(q) = q[1]
  BY <1>1, Sizes, EmptySeq
<1>5. q' = Tail(q)
  <2>1. /\ Tail(q) \in Seq(Elements)
        /\ Len(Tail(q)) = Count - 1
        /\ \A k \in 1..Count - 1 : Tail(q)[k] = q[k + 1]
    BY <1>1, <1>4, HeadTailProperties
  <2>2. QED
    BY <1>2, <1>3, <2>1, SeqEqual
<1>6. QED
  BY <1>3, <1>4, <1>5 DEF Queue!Deliver, q

LEMMA QueueStep ==
  ASSUME ~Overrun, TypesInv, Indexes, [Next]_vars
  PROVE  [Queue!Next]_(Queue!vars)
<1>1. CASE Producer
  <2>1. CASE F!PutRefused
    <3>1. Count = FIFOSIZE /\ F!Unread' = F!Unread
      BY <2>1, PutRefusedEffect
    <3>2. Len(F!Unread) = FIFOSIZE
      BY <3>1, UnreadSeq
    <3>3. QED
      BY <2>1, <3>1, <3>2 DEF F!PutRefused, Queue!Refuse, Queue!Next
  <2>2. CASE F!PutSaved(NumSamples + 1)
    BY <1>1, <2>2, QueueSave DEF Queue!Next
  <2>3. QED
    BY <1>1, <2>1, <2>2 DEF Producer
<1>2. CASE ConsumerCollects
  BY <1>2, CollectsEffect, CollectsTypes, QueueDeliver DEF QueueKept, Queue!Next, Queue!vars
<1>3. CASE Others
  BY <1>3, OthersEffect DEF QueueKept, Queue!vars
<1>4. QED
  BY <1>1, <1>2, <1>3 DEF Next, Others

(* OS_Fifo_Put and OS_Fifo_Get are a bounded first-in first-out queue that counts
   what it refuses, at whatever point of OS_Fifo_Get the interrupt comes, as long
   as it does not come in the window of the overrun. *)
THEOREM QueueImplemented ==
  ASSUME ~Overrun
  PROVE  Spec => ImplementsQueue
<1>1. Init => TypesInv /\ Indexes /\ Queue!Init
  BY TypesInit, IndexesInit, QueueInit
<1>2. TypesInv /\ Indexes /\ [Next]_vars => (TypesInv /\ Indexes)'
  BY TypesNext, IndexesNext
<1>3. TypesInv /\ Indexes /\ [Next]_vars => [Queue!Next]_(Queue!vars)
  BY QueueStep
<1>4. QED
  BY <1>1, <1>2, <1>3, PTL DEF Spec, ImplementsQueue, Queue!Spec

-----------------------------------------------------------------------------
(* Batches are consecutive.                                                *)

(* Types in the form the arithmetic below needs. *)
LEMMA DataTypes ==
  ASSUME TypesInv, Indexes
  PROVE  /\ NumSamples \in Nat /\ NumSamples <= RUNLENGTH
         /\ DataLost \in Nat
         /\ Count \in Nat
         /\ x \in Seq(Elements) /\ Len(x) \in Nat
         /\ \A b \in Bases : b \in Nat
<1>1. \A b \in Bases : b \in Nat
  BY WholeBatches, Sizes DEF Bases
<1>2. QED
  BY <1>1, View, Sizes DEF TypesInv, FifoTypes, ThreadTypes

LEMMA StreamInit == Init => Stream
<1> SUFFICES ASSUME Init PROVE Stream
  OBVIOUS
<1>1. /\ Size = 0 /\ getting = "no" /\ NumSamples = 0 /\ consumer = "start"
      /\ Mail = NoMail /\ arg["Consumer"] = NoMail /\ received["Display"] = NoMail
  BY DEF Init, F!OS_Fifo_Init, M!OS_MailBox_Init, M!Semaphore!Init, M!InitialValue,
     Semaphores, Threads, Size
<1>2. Count = 0
  BY <1>1 DEF Count, F!PastWait
<1>3. Consumed = 0
  BY <1>1, <1>2 DEF Consumed
<1>4. QED
  BY <1>1, <1>2, <1>3, ZeroIsBase DEF Stream

LEMMA StreamProducer ==
  ASSUME ~Overrun, TypesInv, Indexes, Stream, Producer, DataLost' = DataLost
  PROVE  Stream'
<1>1. F!PutSaved(NumSamples + 1)
  BY DataTypes DEF Producer
<1>2. /\ NumSamples' = NumSamples + 1
      /\ UNCHANGED <<Mail, arg, received, consumer, x>>
  BY DEF Producer, box
<1>3. /\ Count' = Count + 1
      /\ UNCHANGED <<getting, got>>
      /\ \A k \in 1..Count : F!Unread'[k] = F!Unread[k]
      /\ F!Unread'[Count + 1] = NumSamples + 1
  BY <1>1, PutEffect
<1>4. \A k \in 1..Count' : F!Unread'[k] = NumSamples' - Count' + k
  <2> TAKE k \in 1..Count'
  <2>1. CASE k = Count + 1
    BY <1>2, <1>3, <2>1, DataTypes
  <2>2. CASE k \in 1..Count
    BY <1>2, <1>3, <2>2, DataTypes DEF Stream
  <2>3. QED
    BY <1>3, <2>1, <2>2, DataTypes
<1>5. NumSamples' - Count' = NumSamples - Count /\ Consumed' = Consumed
  BY <1>2, <1>3, DataTypes DEF Consumed
<1>6. QED
  BY <1>2, <1>3, <1>4, <1>5 DEF Stream

LEMMA StreamGetRead ==
  ASSUME TypesInv, Indexes, Stream, F!GetRead,
         UNCHANGED <<NumSamples, Mail, arg, received, consumer, x>>
  PROVE  Stream'
<1>1. getting = "read" /\ getting' = "advance"
  BY DEF F!GetRead, F!PastWait
<1>2. /\ Count \in 1..FIFOSIZE /\ Count' = Count - 1
      /\ got' = F!Unread[1]
      /\ \A k \in 1..Count' : F!Unread'[k] = F!Unread[k + 1]
  BY GetReadEffect
<1>3. got' = NumSamples' - Count'
  BY <1>2, DataTypes DEF Stream
<1>4. \A k \in 1..Count' : F!Unread'[k] = NumSamples' - Count' + k
  <2> TAKE k \in 1..Count'
  <2>1. k + 1 \in 1..Count
    BY <1>2, DataTypes
  <2>2. F!Unread[k + 1] = NumSamples - Count + (k + 1)
    BY <2>1 DEF Stream
  <2>3. QED
    BY <1>2, <2>2, DataTypes
<1>5. Consumed' = Consumed
  BY <1>1, <1>2, DataTypes DEF Consumed
<1>6. QED
  BY <1>3, <1>4, <1>5 DEF Stream

LEMMA StreamGetAdvance ==
  ASSUME TypesInv, Indexes, Stream, F!GetAdvance, consumer = "collect",
         x' = Append(x, got),
         UNCHANGED <<NumSamples, Mail, arg, received, consumer>>
  PROVE  Stream'
<1>1. getting = "advance" /\ getting' = "no"
  BY DEF F!GetAdvance
<1>2. Count' = Count /\ F!Unread' = F!Unread
  BY GetAdvanceEffect DEF QueueKept
<1>3. Consumed' = Consumed + 1 /\ got = Consumed + 1 /\ Consumed \in Int
  BY <1>1, <1>2, DataTypes DEF Consumed, Stream
<1>4. PICK b \in Bases : Consumed = b + Len(x) /\ x = [i \in 1..Len(x) |-> b + i]
  BY DEF Stream
<1>5. Len(x') = Len(x) + 1 /\ Consumed' = b + Len(x')
  BY <1>3, <1>4, DataTypes
<1>6. x' = [i \in 1..Len(x') |-> b + i]
  <2>1. got \in Elements
    BY DEF TypesInv, FifoTypes
  <2>2. x' \in Seq(Elements)
    BY <2>1, DataTypes
  <2>3. x' = [i \in 1..Len(x') |-> x'[i]]
    <3>1. x' \in [1..Len(x') -> Elements]
      BY <2>2, LenProperties
    <3>2. QED
      BY <3>1
  <2>4. \A i \in 1..Len(x) + 1 : x'[i] = IF i = Len(x) + 1 THEN got ELSE x[i]
    BY <2>1, DataTypes
  <2>5. \A i \in 1..Len(x) + 1 : x'[i] = b + i
    <3> TAKE i \in 1..Len(x) + 1
    <3>1. CASE i = Len(x) + 1
      BY <1>3, <1>4, <2>4, <3>1, DataTypes
    <3>2. CASE i \in 1..Len(x)
      <4>1. x'[i] = x[i]
        BY <2>4, <3>2, DataTypes
      <4>2. x[i] = b + i
        BY <1>4, <3>2
      <4>3. QED
        BY <4>1, <4>2
    <3>3. QED
      BY <3>1, <3>2, DataTypes
  <2>6. QED
    BY <1>5, <2>3, <2>5
<1>7. QED
  BY <1>1, <1>2, <1>5, <1>6 DEF Stream

(* The steps that take nothing from the fifo. *)
StreamKept == /\ \A k \in 1..Count : F!Unread[k] = NumSamples - Count + k
              /\ getting = "advance" => got = NumSamples - Count

LEMMA OthersStream ==
  ASSUME TypesInv, Indexes, Stream, Others
  PROVE  StreamKept' /\ Consumed' = Consumed
<1>1. UNCHANGED <<NumSamples, getting, got>>
  BY OthersTypes DEF fifo
<1>2. Count' = Count /\ F!Unread' = F!Unread
  BY OthersEffect DEF QueueKept
<1>3. QED
  BY <1>1, <1>2 DEF Stream, StreamKept, Consumed

LEMMA StreamMoves ==
  ASSUME TypesInv, Indexes, Stream, Others,
         UNCHANGED x,
         consumer' = consumer \/ (consumer # "collect" /\ consumer' # "collect"),
         {arg'["Consumer"], Mail', received'["Display"]} \subseteq Batches \cup {NoMail}
  PROVE  Stream'
  BY OthersStream DEF Stream, StreamKept

LEMMA StreamSend ==
  ASSUME TypesInv, Indexes, Stream, Others,
         consumer = "collect", consumer' = "send", Len(x) = BATCH,
         arg' = [arg EXCEPT !["Consumer"] = x],
         UNCHANGED <<x, Mail, received>>
  PROVE  Stream'
<1>1. PICK b \in Bases : Consumed = b + Len(x) /\ x = [i \in 1..Len(x) |-> b + i]
  BY DEF Stream
<1>2. Consumed <= RUNLENGTH
  BY DataTypes, Sizes DEF Consumed
<1>3. b + BATCH \in Bases /\ x \in Batches
  BY <1>1, <1>2, NextBase
<1>4. arg'["Consumer"] = x
  BY DEF TypesInv, BoxTypes, Threads
<1>5. QED
  BY <1>1, <1>3, <1>4, OthersStream DEF Stream, StreamKept

LEMMA StreamOthers ==
  ASSUME TypesInv, Indexes, Stream, Others
  PROVE  Stream'
<1> DEFINE Boxes == {arg["Consumer"], Mail, received["Display"]}
<1>1. Boxes \subseteq Batches \cup {NoMail}
  BY DEF Stream
<1>2. CASE UNCHANGED <<box, x>> /\ (consumer' = consumer
                                    \/ (consumer # "collect" /\ consumer' # "collect"))
  BY <1>1, <1>2, StreamMoves DEF box
<1>3. CASE ConsumerChecks
  <2>1. /\ consumer = "loop" /\ x' = <<>> /\ UNCHANGED box
    BY <1>3 DEF ConsumerChecks
  <2>2. Consumed \in Bases /\ Len(x') = 0
    BY <2>1 DEF Stream
  <2>3. Consumed = Consumed + Len(x') /\ x' = [i \in 1..Len(x') |-> Consumed + i]
    BY <2>1, <2>2, DataTypes
  <2>4. QED
    BY <1>1, <2>1, <2>2, <2>3, OthersStream DEF Stream, StreamKept, box
<1>4. CASE ConsumerSends
  <2>1. UNCHANGED x
    BY <1>4 DEF ConsumerSends
  <2>2. CASE /\ consumer = "collect" /\ Len(x) = BATCH
             /\ M!Send("Consumer", x) /\ consumer' = "send"
    BY <2>1, <2>2, StreamSend DEF M!Send
  <2>3. CASE M!SendStore("Consumer") /\ UNCHANGED consumer
    <3>1. Mail' = arg["Consumer"] /\ UNCHANGED <<arg, received>>
      BY <2>3 DEF M!SendStore
    <3>2. QED
      BY <1>1, <2>1, <2>3, <3>1, StreamMoves
  <2>4. CASE M!SendSignal("Consumer") /\ consumer' = "loop"
    <3>1. call["Consumer"] = "valid" /\ UNCHANGED <<Mail, arg, received>>
      BY <2>4 DEF M!SendSignal
    <3>2. consumer = "send"
      BY <3>1 DEF TypesInv, Control
    <3>3. QED
      BY <1>1, <2>1, <2>4, <3>1, <3>2, StreamMoves
  <2>5. QED
    BY <1>4, <2>2, <2>3, <2>4 DEF ConsumerSends
<1>5. CASE DisplayReceives
  <2>1. UNCHANGED <<arg, consumer, x>>
    BY <1>5 DEF DisplayReceives, M!Recv, M!RecvRead, M!RecvSignal
  <2>2. Mail' = Mail /\ received'["Display"] \in {received["Display"], Mail}
    BY <1>5 DEF DisplayReceives, M!Recv, M!RecvRead, M!RecvSignal, TypesInv, BoxTypes, Threads
  <2>3. QED
    BY <1>1, <2>1, <2>2, StreamMoves
<1>6. CASE ConsumerStarts
  <2>1. UNCHANGED <<box, x>> /\ consumer # "collect" /\ consumer' # "collect"
    BY <1>6 DEF ConsumerStarts
  <2>2. QED
    BY <1>2, <2>1
<1>7. QED
  BY <1>2, <1>3, <1>4, <1>5, <1>6 DEF Others, DisplayChecks, DisplayDies, MessageWaits,
     MessageSignals, ButtonPushed, vars

LEMMA StreamNext ==
  ASSUME ~Overrun, TypesInv, StreamInv, [Next]_vars
  PROVE  StreamInv'
<1>1. Indexes /\ Indexes'
  BY IndexesNext DEF StreamInv
<1>2. DataLost' = 0 => DataLost = 0
  <2>1. CASE Producer
    BY <1>1, <2>1, DataTypes DEF Producer
  <2>2. CASE ConsumerCollects
    BY <2>2 DEF ConsumerCollects
  <2>3. CASE Others
    BY <2>3, OthersTypes
  <2>4. QED
    BY <2>1, <2>2, <2>3 DEF Next, Others
<1>3. SUFFICES ASSUME DataLost' = 0, Stream PROVE Stream'
  BY <1>1, <1>2 DEF StreamInv
<1>4. CASE Producer
  BY <1>1, <1>2, <1>3, <1>4, StreamProducer
<1>5. CASE ConsumerCollects
  <2>1. /\ consumer = "collect"
        /\ UNCHANGED <<NumSamples, Mail, arg, received, consumer>>
    BY <1>5 DEF ConsumerCollects, box
  <2>2. CASE F!GetWait /\ UNCHANGED x
    <3>1. Count' = Count /\ F!Unread' = F!Unread /\ got' = got
      BY <1>1, <2>2, GetWaitEffect DEF QueueKept
    <3>2. getting = "no" /\ getting' = "read"
      BY <2>2 DEF F!GetWait
    <3>3. Consumed' = Consumed
      BY <2>1, <3>1, <3>2 DEF Consumed
    <3>4. QED
      BY <1>3, <2>1, <2>2, <3>1, <3>2, <3>3 DEF Stream
  <2>3. CASE F!GetRead /\ UNCHANGED x
    BY <1>1, <1>3, <2>1, <2>3, StreamGetRead
  <2>4. CASE F!GetAdvance /\ x' = Append(x, got)
    BY <1>1, <1>3, <2>1, <2>4, StreamGetAdvance
  <2>5. QED
    BY <1>5, <2>2, <2>3, <2>4 DEF ConsumerCollects
<1>6. CASE Others
  BY <1>1, <1>3, <1>6, StreamOthers
<1>7. QED
  BY <1>4, <1>5, <1>6 DEF Next, Others

(* Display gets consecutive batches, none missing and none twice, as long as
   OS_Fifo_Put has reported no lost sample and no sample came in the window of
   the overrun. *)
THEOREM BatchesConsecutive ==
  ASSUME ~Overrun
  PROVE  Spec => []BatchesInOrder
<1>1. Init => TypesInv /\ StreamInv
  BY TypesInit, IndexesInit, StreamInit DEF StreamInv
<1>2. TypesInv /\ StreamInv /\ [Next]_vars => (TypesInv /\ StreamInv)'
  BY TypesNext, StreamNext
<1>3. StreamInv => BatchesInOrder
  BY DEF StreamInv, Stream, BatchesInOrder, Batches
<1>4. QED
  BY <1>1, <1>2, <1>3, PTL DEF Spec

-----------------------------------------------------------------------------
(* The mailbox.  OSMailBoxProofs proves it for any callers; here its       *)
(* threads also use the fifo, with another semaphore.                      *)

P == INSTANCE OSMailBoxProofs

LEMMA MailBoxes == /\ NoMail \notin Mails
                   /\ {"BoxFree", "BoxDataValid"} \subseteq Semaphores
                   /\ {"Consumer", "Display"} \subseteq Threads
<1>1. NoMail \notin Mails
  <2>1. SUFFICES ASSUME <<>> \in [1..BATCH -> Samples] PROVE FALSE
    BY DEF NoMail, Mails
  <2>2. DOMAIN <<>> = {} /\ 1 \in 1..BATCH
    BY Sizes
  <2>3. QED
    BY <2>1, <2>2
<1>2. QED
  BY <1>1 DEF Semaphores, Threads

(* A step that leaves the two semaphores and the mailbox alone. *)
LEMMA BoxFrame ==
  ASSUME P!IInv, SemaphoreTypes', UNCHANGED box,
         \A s \in {"BoxFree", "BoxDataValid"} : units'[s] = units[s] /\ waiting'[s] = waiting[s]
  PROVE  P!IInv' /\ UNCHANGED M!Box!vars
<1>1. P!Occupied' = P!Occupied /\ P!Inside' = P!Inside
  BY DEF box, P!Occupied, P!Inside, P!PastWait
<1>2. P!TypeOK'
  BY DEF P!IInv, P!TypeOK, SemaphoreTypes, box
<1>3. P!WaitersCall' /\ P!OneUser' /\ P!MailIsMail'
  BY <1>1 DEF P!IInv, P!WaitersCall, P!OneUser, P!MailIsMail, box
<1>4. UNCHANGED M!Box!vars
  BY DEF M!Box!vars, M!Occupied, M!PastWait, box
<1>5. QED
  BY <1>2, <1>3, <1>4 DEF P!IInv

LEMMA BoxSend ==
  ASSUME P!IInv,
         \/ x \in Mails /\ M!Send("Consumer", x)
         \/ M!SendStore("Consumer") \/ M!SendSignal("Consumer")
  PROVE  P!IInv' /\ [M!Box!Next]_(M!Box!vars)
<1>1. \/ \E m \in Mails : P!Send("Consumer", m)
      \/ P!SendStore("Consumer") \/ P!SendSignal("Consumer")
  BY DEF M!Send, P!Send, M!SendStore, P!SendStore, M!SendSignal, P!SendSignal, M!MayStore,
     P!MayStore, M!OS_Wait, P!OS_Wait, M!OS_Signal, P!OS_Signal,
     M!Semaphore!Take, M!Semaphore!Join, M!Semaphore!Release, M!Semaphore!HandOver,
     P!Semaphore!Take, P!Semaphore!Join, P!Semaphore!Release, P!Semaphore!HandOver
<1>2. P!IInv' /\ [P!Box!Next]_(P!Box!vars)
  BY <1>1, MailBoxes, P!SendSteps
<1>3. QED
  BY <1>2 DEF P!Box!Next, P!Box!vars, P!Box!Deposit, P!Box!Collect, P!Occupied, P!PastWait,
     M!Box!Next, M!Box!vars, M!Box!Deposit, M!Box!Collect, M!Occupied, M!PastWait

LEMMA BoxRecv ==
  ASSUME P!IInv, M!Recv("Display") \/ M!RecvRead("Display") \/ M!RecvSignal("Display")
  PROVE  P!IInv' /\ [M!Box!Next]_(M!Box!vars)
<1>1. P!Recv("Display") \/ P!RecvRead("Display") \/ P!RecvSignal("Display")
  BY DEF M!Recv, P!Recv, M!RecvRead, P!RecvRead, M!RecvSignal, P!RecvSignal, M!PastWait,
     P!PastWait, M!OS_Wait, P!OS_Wait, M!OS_Signal, P!OS_Signal,
     M!Semaphore!Take, M!Semaphore!Join, M!Semaphore!Release, M!Semaphore!HandOver,
     P!Semaphore!Take, P!Semaphore!Join, P!Semaphore!Release, P!Semaphore!HandOver
<1>2. P!IInv' /\ [P!Box!Next]_(P!Box!vars)
  BY <1>1, MailBoxes, P!RecvSteps
<1>3. QED
  BY <1>2 DEF P!Box!Next, P!Box!vars, P!Box!Deposit, P!Box!Collect, P!Occupied, P!PastWait,
     M!Box!Next, M!Box!vars, M!Box!Deposit, M!Box!Collect, M!Occupied, M!PastWait

(* What Consumer collects are samples: it reads no slot that was not written. *)
SamplesOnly ==
  /\ \A k \in 1..Count : F!Unread[k] \in Samples
  /\ getting = "advance" => got \in Samples
  /\ x \in Seq(Samples)

LEMMA SamplesInit == Init => SamplesOnly
<1> SUFFICES ASSUME Init PROVE SamplesOnly
  OBVIOUS
<1>1. Size = 0 /\ getting = "no" /\ x = <<>>
  BY DEF Init, F!OS_Fifo_Init, M!OS_MailBox_Init, M!Semaphore!Init, M!InitialValue,
     Semaphores, Size
<1>2. Count = 0
  BY <1>1 DEF Count, F!PastWait
<1>3. QED
  BY <1>1, <1>2 DEF SamplesOnly

LEMMA SamplesNext ==
  ASSUME ~Overrun, TypesInv, Indexes, SamplesOnly, [Next]_vars
  PROVE  SamplesOnly'
<1>1. CASE Producer
  <2>1. UNCHANGED <<getting, got, x>>
    BY <1>1 DEF Producer, F!PutRefused, F!PutSaved
  <2>2. CASE F!PutRefused
    <3>1. Count' = Count /\ F!Unread' = F!Unread
      BY <2>2, PutRefusedEffect DEF F!PutRefused, Count, Size, F!PastWait
    <3>2. QED
      BY <2>1, <3>1 DEF SamplesOnly
  <2>3. CASE F!PutSaved(NumSamples + 1)
    <3>1. /\ Count' = Count + 1 /\ Count \in Nat
          /\ \A k \in 1..Count : F!Unread'[k] = F!Unread[k]
          /\ F!Unread'[Count + 1] = NumSamples + 1
      BY <1>1, <2>3, PutEffect, DataTypes
    <3>2. NumSamples + 1 \in Samples
      BY <1>1, DataTypes, Sizes DEF Producer, Samples
    <3>3. \A k \in 1..Count' : F!Unread'[k] \in Samples
      <4> TAKE k \in 1..Count'
      <4>1. k \in 1..Count \/ k = Count + 1
        BY <3>1
      <4>2. QED
        BY <3>1, <3>2, <4>1 DEF SamplesOnly
    <3>4. QED
      BY <2>1, <3>3 DEF SamplesOnly
  <2>4. QED
    BY <1>1, <2>2, <2>3 DEF Producer
<1>2. CASE ConsumerCollects
  <2>1. CASE F!GetWait /\ UNCHANGED x
    <3>1. Count' = Count /\ F!Unread' = F!Unread /\ getting' = "read"
      BY <2>1, GetWaitEffect DEF QueueKept, F!GetWait
    <3>2. QED
      BY <2>1, <3>1 DEF SamplesOnly
  <2>2. CASE F!GetRead /\ UNCHANGED x
    <3>1. /\ Count \in 1..FIFOSIZE /\ Count' = Count - 1
          /\ got' = F!Unread[1]
          /\ \A k \in 1..Count' : F!Unread'[k] = F!Unread[k + 1]
      BY <2>2, GetReadEffect
    <3>2. 1 \in 1..Count /\ \A k \in 1..Count' : k + 1 \in 1..Count
      BY <3>1, Sizes
    <3>3. QED
      BY <2>2, <3>1, <3>2 DEF SamplesOnly
  <2>3. CASE F!GetAdvance /\ x' = Append(x, got)
    <3>1. /\ Count' = Count /\ F!Unread' = F!Unread
          /\ getting = "advance" /\ getting' = "no"
      BY <2>3, GetAdvanceEffect DEF QueueKept, F!GetAdvance
    <3>2. x' \in Seq(Samples)
      BY <2>3, <3>1 DEF SamplesOnly
    <3>3. QED
      BY <3>1, <3>2 DEF SamplesOnly
  <2>4. QED
    BY <1>2, <2>1, <2>2, <2>3 DEF ConsumerCollects
<1>3. CASE Others
  <2>1. Count' = Count /\ F!Unread' = F!Unread /\ UNCHANGED <<getting, got>>
    BY <1>3, OthersEffect, OthersTypes DEF QueueKept, fifo
  <2>2. x' = x \/ x' = <<>>
    BY <1>3 DEF Others, ConsumerStarts, ConsumerChecks, ConsumerSends, DisplayChecks,
       DisplayReceives, DisplayDies, MessageWaits, MessageSignals, ButtonPushed, vars
  <2>3. x' \in Seq(Samples)
    BY <2>2, EmptySeq DEF SamplesOnly
  <2>4. QED
    BY <2>1, <2>3 DEF SamplesOnly
<1>4. QED
  BY <1>1, <1>2, <1>3 DEF Next, Others

LEMMA BoxInit == Init => P!IInv /\ M!Box!Init
<1> SUFFICES ASSUME Init PROVE P!IInv /\ M!Box!Init
  OBVIOUS
<1>1. P!OS_MailBox_Init
  BY DEF Init, M!OS_MailBox_Init, P!OS_MailBox_Init, M!Semaphore!Init, P!Semaphore!Init,
     M!InitialValue, P!InitialValue
<1>2. P!IInv
  BY <1>1, MailBoxes, P!InitInv
<1>3. M!Box!Init
  BY DEF Init, M!OS_MailBox_Init, M!Box!Init
<1>4. QED
  BY <1>2, <1>3

(* The fifo's semaphore is not one of the mailbox. *)
LEMMA FifoKeepsBox ==
  ASSUME TypesInv, TypesInv', UNCHANGED box,
         semas' = semas \/ WaitEffect("Consumer", "CurrentSize") \/ SignalEffect("CurrentSize")
  PROVE  \A s \in {"BoxFree", "BoxDataValid"} : units'[s] = units[s] /\ waiting'[s] = waiting[s]
<1>1. /\ units \in [Semaphores -> Nat] /\ waiting \in [Semaphores -> SUBSET Threads]
      /\ {"BoxFree", "BoxDataValid", "CurrentSize"} \subseteq Semaphores
      /\ "BoxFree" # "CurrentSize" /\ "BoxDataValid" # "CurrentSize"
  BY DEF TypesInv, SemaphoreTypes, Semaphores
<1>2. QED
  BY <1>1 DEF WaitEffect, SignalEffect, semas

(* Steps of the data path keep the invariant of the mailbox. *)
LEMMA BoxNext ==
  ASSUME TypesInv, SamplesOnly, P!IInv, [Next]_vars
  PROVE  P!IInv' /\ [M!Box!Next]_(M!Box!vars)
<1>1. TypesInv'
  BY TypesNext
<1>2. CASE Producer \/ ConsumerCollects
  <2>1. UNCHANGED box
    BY <1>2 DEF Producer, ConsumerCollects
  <2>2. semas' = semas \/ WaitEffect("Consumer", "CurrentSize") \/ SignalEffect("CurrentSize")
    BY <1>2, FifoSemaphore DEF Producer, ConsumerCollects, F!PutRefused, F!PutSaved, F!GetWait,
       F!GetRead, F!GetAdvance, semas
  <2>3. QED
    BY <1>1, <2>1, <2>2, FifoKeepsBox, BoxFrame DEF TypesInv
<1>3. CASE ConsumerSends
  <2>1. CASE /\ Len(x) = BATCH
             /\ M!Send("Consumer", x)
    <3>1. x \in Mails
      BY <2>1 DEF SamplesOnly, Mails
    <3>2. QED
      BY <2>1, <3>1, BoxSend
  <2>2. CASE M!SendStore("Consumer") \/ M!SendSignal("Consumer")
    BY <2>2, BoxSend
  <2>3. QED
    BY <1>3, <2>1, <2>2 DEF ConsumerSends
<1>4. CASE DisplayReceives
  BY <1>4, BoxRecv DEF DisplayReceives
<1>5. CASE UNCHANGED <<box, semas>>
  BY <1>1, <1>5, BoxFrame DEF TypesInv, semas
<1>6. QED
  BY <1>2, <1>3, <1>4, <1>5 DEF Next, ConsumerStarts, ConsumerChecks, DisplayChecks,
     DisplayDies, MessageWaits, MessageSignals, ButtonPushed, vars

(* The mailbox stays one slot when its semaphores live beside that of the fifo
   and its threads also collect and draw. *)
THEOREM BoxImplemented ==
  ASSUME ~Overrun
  PROVE  Spec => ImplementsBox
<1>1. Init => TypesInv /\ Indexes /\ SamplesOnly /\ P!IInv /\ M!Box!Init
  BY TypesInit, IndexesInit, SamplesInit, BoxInit
<1>2. TypesInv /\ Indexes /\ SamplesOnly /\ P!IInv /\ [Next]_vars
        => (TypesInv /\ Indexes /\ SamplesOnly /\ P!IInv)'
  BY TypesNext, IndexesNext, SamplesNext, BoxNext
<1>3. TypesInv /\ SamplesOnly /\ P!IInv /\ [Next]_vars => [M!Box!Next]_(M!Box!vars)
  BY BoxNext
<1>4. QED
  BY <1>1, <1>2, <1>3, PTL DEF Spec, ImplementsBox, M!ImplementsBox, M!Box!Spec
=============================================================================
