------------------------------- MODULE UART0int -------------------------------
(***************************************************************************)
(* UART0int.c with the index fifos of inc/FIFO.h: the foreground writes    *)
(* and reads characters, UART0_Handler moves them between the fifos in     *)
(* memory and those of the hardware.  A handler is one step.  The          *)
(* foreground masks the transmit interrupt while it moves characters       *)
(* itself, step by step; a receive interrupt enters the handler all the    *)
(* same, and the handler looks at the raw status.                          *)
(*                                                                         *)
(* A character is its number in the order of writing or of arrival.        *)
(***************************************************************************)
EXTENDS Integers, Sequences, FiniteSetsExt

CONSTANTS
  FIFOSIZE,       (* of the fifos in memory                                  *)
  INDEXES,        (* values of an index, 2^32 in the code                    *)
  HWSIZE,         (* of the hardware fifos                                   *)
  LEVEL,          (* at or below it the transmitter asks for characters, at  *)
                  (* it the receiver offers them                             *)
  LENGTH,         (* characters written in a run, and received               *)
  Collide         (* may a receive interrupt come when it is Exposed?        *)

ASSUME UARTAssumption ==
  /\ {FIFOSIZE, INDEXES, HWSIZE, LEVEL, LENGTH} \subseteq Nat \ {0}
  /\ LEVEL < HWSIZE
  /\ INDEXES > FIFOSIZE /\ INDEXES % FIFOSIZE = 0
  /\ Collide \in BOOLEAN

VARIABLES
  TxPutI, TxGetI, TxFifo, txHW, TXIM, TXRIS, (* transmitter: indexes, memory,*)
                                             (* hardware, mask, raw status   *)
  RxPutI, RxGetI, RxFifo, rxHW, RXRIS,       (* receiver; RXRIS or RTRIS     *)
  pc, letter, index,   (* the foreground: next step, its locals              *)
  written, sent,       (* number of characters put, characters on the line   *)
  arrived, kept, got   (* number arrived, kept by the hardware, read         *)

tx == <<TxPutI, TxGetI, TxFifo, txHW, TXIM, TXRIS>>
rx == <<RxPutI, RxGetI, RxFifo, rxHW, RXRIS>>
fg == <<pc, letter, index>>
vars == <<tx, rx, fg, written, sent, arrived, kept, got>>

(* UART_Init. *)
Init ==
  /\ TxPutI = 0 /\ TxGetI = 0
  /\ RxPutI = 0 /\ RxGetI = 0
  /\ TxFifo = [i \in 0..FIFOSIZE - 1 |-> 0]
  /\ RxFifo = [i \in 0..FIFOSIZE - 1 |-> 0]
  /\ txHW = <<>> /\ rxHW = <<>>
  /\ TXIM = TRUE /\ TXRIS = FALSE /\ RXRIS = FALSE
  /\ pc = "ready" /\ letter = 0 /\ index = 0
  /\ written = 0 /\ sent = <<>>
  /\ arrived = 0 /\ kept = <<>> /\ got = <<>>

PlusUnwrapped(i, k) == i + k

Plus(i, k) == (i + k) % INDEXES

(* Fifo_Size: free running indexes, so the difference wraps. *)
Size(put, get) == (put - get) % INDEXES
TxSize == Size(TxPutI, TxGetI)
RxSize == Size(RxPutI, RxGetI)

(* n elements from index get on. *)
Elements(fifo, get, n) == [k \in 1..n |-> fifo[(get + k - 1) % FIFOSIZE]]

-----------------------------------------------------------------------------
(* UART_OutChar waits while the fifo is full; UART_OutCharNonBlock drops the
   character then, and is the same otherwise. *)
OverFull == TxSize > FIFOSIZE

Full == TxSize >= FIFOSIZE

TxFifo_Put ==
  /\ pc = "ready"
  /\ written < LENGTH
  /\ ~Full
  /\ TxFifo' = [TxFifo EXCEPT ![TxPutI % FIFOSIZE] = written + 1]
  /\ TxPutI' = Plus(TxPutI, 1)
  /\ written' = written + 1
  /\ pc' = "mask"
  /\ UNCHANGED <<TxGetI, txHW, TXIM, TXRIS, rx, letter, index, sent, arrived, kept, got>>

Mask ==
  /\ pc = "mask"
  /\ TXIM' = FALSE
  /\ pc' = "copy"
  /\ UNCHANGED <<TxPutI, TxGetI, TxFifo, txHW, TXRIS, rx, letter, index, written, sent,
                 arrived, kept, got>>

(* copySoftwareToHardware, and TxFifo_Get in it: the test, the letter, the
   index loaded and stored, the letter handed to the hardware. *)
CopyMore == Len(txHW) < HWSIZE /\ TxSize > 0

Copy ==
  /\ \/ pc = "copy" /\ pc' = (IF CopyMore THEN "read" ELSE "unmask") /\ UNCHANGED <<letter, index>>
     \/ pc = "read" /\ pc' = "load" /\ letter' = TxFifo[TxGetI % FIFOSIZE] /\ UNCHANGED index
     \/ pc = "load" /\ pc' = "store" /\ index' = Plus(TxGetI, 1) /\ UNCHANGED letter
  /\ UNCHANGED <<tx, rx, written, sent, arrived, kept, got>>

CopyStore ==
  /\ pc = "store"
  /\ TxGetI' = index
  /\ pc' = "send"
  /\ UNCHANGED <<TxPutI, TxFifo, txHW, TXIM, TXRIS, rx, letter, index, written, sent,
                 arrived, kept, got>>

(* The hardware ignores a character for which it has no room. *)
CopySend ==
  /\ pc = "send"
  /\ txHW' = IF Len(txHW) < HWSIZE THEN Append(txHW, letter) ELSE txHW
  /\ pc' = "copy"
  /\ UNCHANGED <<TxPutI, TxGetI, TxFifo, TXIM, TXRIS, rx, letter, index, written, sent,
                 arrived, kept, got>>

StayMasked == FALSE

Enabled == TRUE

Unmask ==
  /\ pc = "unmask"
  /\ TXIM' = Enabled
  /\ pc' = "ready"
  /\ UNCHANGED <<TxPutI, TxGetI, TxFifo, txHW, TXRIS, rx, letter, index, written, sent,
                 arrived, kept, got>>

(* UART_InChar waits for a character; UART_InCharNonBlock returns 0 instead. *)
UART_InChar ==
  /\ pc = "ready"
  /\ RxPutI # RxGetI
  /\ got' = Append(got, RxFifo[RxGetI % FIFOSIZE])
  /\ RxGetI' = Plus(RxGetI, 1)
  /\ UNCHANGED <<tx, RxPutI, RxFifo, rxHW, RXRIS, fg, written, sent, arrived, kept>>

-----------------------------------------------------------------------------
(* The two copy loops of the handler. *)
HandlerTransmits ==
  LET n == Min({HWSIZE - Len(txHW), TxSize})
  IN  IF TXRIS
      THEN /\ TXRIS' = FALSE
           /\ txHW' = txHW \o Elements(TxFifo, TxGetI, n)
           /\ TxGetI' = Plus(TxGetI, n)
           /\ TXIM' = (TXIM /\ n # TxSize)
      ELSE UNCHANGED <<TXRIS, txHW, TxGetI, TXIM>>

RxRoomTooMuch == FIFOSIZE + 1 - RxSize

RxRoom == FIFOSIZE - 1 - RxSize

HandlerReceives ==
  LET n == Min({Len(rxHW), RxRoom})
  IN  IF RXRIS
      THEN /\ RXRIS' = FALSE
           /\ RxFifo' = [i \in DOMAIN RxFifo |->
                           LET k == 1 + ((i - RxPutI) % FIFOSIZE)
                           IN  IF k <= n THEN rxHW[k] ELSE RxFifo[i]]
           /\ RxPutI' = Plus(RxPutI, n)
           /\ rxHW' = SubSeq(rxHW, n + 1, Len(rxHW))
      ELSE UNCHANGED <<RXRIS, RxFifo, RxPutI, rxHW>>

(* Handler and foreground would both take characters from TxFifo. *)
Copying == pc \in {"copy", "read", "load", "store", "send"}
Exposed == Copying /\ TXRIS

UART0_Handler ==
  /\ \/ TXIM /\ TXRIS
     \/ RXRIS /\ (Collide \/ ~Exposed)
  /\ HandlerTransmits
  /\ HandlerReceives
  /\ UNCHANGED <<TxPutI, TxFifo, RxGetI, fg, written, sent, arrived, kept, got>>

-----------------------------------------------------------------------------
(* The hardware. *)
Transmit ==
  /\ txHW # <<>>
  /\ sent' = Append(sent, Head(txHW))
  /\ txHW' = Tail(txHW)
  /\ TXRIS' = (TXRIS \/ Len(txHW) = LEVEL + 1)
  /\ UNCHANGED <<TxPutI, TxGetI, TxFifo, TXIM, rx, fg, written, arrived, kept, got>>

Receive ==
  /\ arrived < LENGTH
  /\ arrived' = arrived + 1
  /\ IF Len(rxHW) < HWSIZE
     THEN /\ rxHW' = Append(rxHW, arrived')
          /\ kept' = Append(kept, arrived')
          /\ RXRIS' = (RXRIS \/ Len(rxHW') = LEVEL)
     ELSE UNCHANGED <<rxHW, kept, RXRIS>>
  /\ UNCHANGED <<tx, RxPutI, RxGetI, RxFifo, fg, written, sent, got>>

ReceiveTimeout ==
  /\ rxHW # <<>>
  /\ RXRIS' = TRUE
  /\ UNCHANGED <<tx, RxPutI, RxGetI, RxFifo, rxHW, fg, written, sent, arrived, kept, got>>

OutChar == TxFifo_Put \/ Mask \/ Copy \/ CopyStore \/ CopySend \/ Unmask

Next == OutChar \/ UART_InChar \/ UART0_Handler \/ Transmit \/ Receive \/ ReceiveTimeout

(* The caller runs on, pending interrupts are taken, the line runs. *)
Fairness == WF_vars(OutChar) /\ WF_vars(UART0_Handler) /\ WF_vars(Transmit)

Spec == Init /\ [][Next]_vars /\ Fairness

-----------------------------------------------------------------------------
TypeOK ==
  /\ {TxPutI, TxGetI, RxPutI, RxGetI, index} \subseteq 0..INDEXES - 1
  /\ {TxFifo, RxFifo} \subseteq [0..FIFOSIZE - 1 -> 0..LENGTH]
  /\ {txHW, rxHW, sent, kept, got} \subseteq Seq(1..LENGTH)
  /\ {TXIM, TXRIS, RXRIS} \subseteq BOOLEAN
  /\ pc \in {"ready", "mask", "copy", "read", "load", "store", "send", "unmask"}
  /\ {letter, written, arrived} \subseteq 0..LENGTH

(* Characters leave in the order they were written in, each once. *)
SentInOrder == \A k \in DOMAIN sent : sent[k] = k

(* What the hardware kept is read, or waits in the two fifos, in order: the
   software loses no character, also when its fifo is full. *)
NothingDropped == kept = got \o Elements(RxFifo, RxGetI, RxSize) \o rxHW

(* The characters written and not yet on the line. *)
InFlight ==
  txHW \o (IF pc = "send" THEN <<letter>> ELSE <<>>) \o Elements(TxFifo, TxGetI, TxSize)

Channel == INSTANCE LossyQueue WITH
  Data <- 1..LENGTH, Capacity <- FIFOSIZE + HWSIZE,
  queue <- InFlight, lost <- 0, got <- IF sent = <<>> THEN 0 ELSE sent[Len(sent)]

(* The transmitter is a queue. *)
ImplementsChannel == Channel!Spec

(* The transmit interrupt is never left off with characters to send: all of
   them reach the line. *)
AllSent == \A k \in 1..LENGTH : (written = k) ~> (Len(sent) >= k)
=============================================================================
