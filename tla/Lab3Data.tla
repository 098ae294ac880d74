------------------------------- MODULE Lab3Data -------------------------------
(***************************************************************************)
(* Task 3 of RTOS_Lab3_RTOSpriority/Lab3.c: the ADC interrupt puts samples *)
(* into the OS fifo, the Consumer thread takes BATCH of them, transforms   *)
(* them and mails the result to the Display thread, which draws it on the  *)
(* LCD that it shares with the ButtonWork threads of task 2.  Composes     *)
(* OSFifo and OSMailBox on the semaphores of CountingSemaphore; the LCD    *)
(* has one of its own.                                                     *)
(*                                                                         *)
(* The threads interleave freely, which includes every order the priority  *)
(* scheduler produces.  A sample is its number, the mail is the batch it   *)
(* was computed from.                                                      *)
(***************************************************************************)
EXTENDS Integers, Sequences

CONSTANTS
  FIFOSIZE,
  BATCH,      (* samples of one FFT, 64 in the code                          *)
  RUNLENGTH,  (* samples of the run                                          *)
  Overrun     (* may a sample come while the getter is Exposed (OSFifo)?     *)

ASSUME Lab3Assumption ==
  /\ {FIFOSIZE, BATCH, RUNLENGTH} \subseteq Nat \ {0}
  /\ FIFOSIZE < BATCH
  /\ RUNLENGTH % BATCH = 0
  /\ Overrun \in BOOLEAN

VARIABLES
  NumSamples, DataLost,
  PutI, GetI, Fifo, LostData, getting, got,   (* OSFifo                      *)
  Mail, call, arg, received,                  (* OSMailBox                   *)
  units, waiting,                             (* the semaphores of both      *)
  consumer,   (* "start", "started" (ADC runs), "loop" (at the while),       *)
              (* "collect", "send" or "dead"                                 *)
  x,          (* the batch that Consumer collects                            *)
  display,    (* "unborn", "loop", "recv", "final" or "dead"                 *)
  messages,   (* calls of ST7735_Message that a thread makes before it goes  *)
              (* on                                                          *)
  drawing,    (* threads inside ST7735_Message                               *)
  LCDFree, LCDwaiting  (* the semaphore of the LCD                           *)

fifo  == <<PutI, GetI, Fifo, LostData, getting, got>>
box   == <<Mail, call, arg, received>>
semas == <<units, waiting>>
lcd   == <<messages, drawing, LCDFree, LCDwaiting>>
vars  == <<NumSamples, DataLost, fifo, box, semas, consumer, x, display, lcd>>

Threads    == {"Consumer", "Display"}
Semaphores == {"CurrentSize", "BoxFree", "BoxDataValid"}
Samples    == 1..RUNLENGTH
NoData     == 0
NoMail     == <<>>
Mails      == [1..BATCH -> Samples]

Drawers == {"Display", "ButtonWork"}

F == INSTANCE OSFifo WITH Data <- Samples, Getter <- "Consumer"
M == INSTANCE OSMailBox
L == INSTANCE CountingSemaphore WITH
  Threads <- Drawers, Semaphores <- {"LCD"}, InitialValue <- [s \in {"LCD"} |-> 1],
  units <- LCDFree, waiting <- LCDwaiting

Init ==
  /\ NumSamples = 0
  /\ DataLost = 0
  /\ F!OS_Fifo_Init
  /\ M!OS_MailBox_Init
  /\ consumer = "start"
  /\ x = <<>>
  /\ display = "unborn"
  /\ messages = [t \in Drawers |-> 0]
  /\ drawing = {}
  /\ L!Init

(* The ADC interrupt. *)
Producer ==
  /\ consumer # "start"
  /\ NumSamples < RUNLENGTH
  /\ Overrun \/ ~F!Exposed
  /\ NumSamples' = NumSamples + 1
  /\ \/ F!PutRefused /\ DataLost' = DataLost + 1
     \/ F!PutSaved(NumSamples + 1) /\ UNCHANGED DataLost
  /\ UNCHANGED <<box, consumer, x, display, lcd>>

-----------------------------------------------------------------------------
(* The next calls of the thread are n calls of ST7735_Message. *)
Prints(t, n) == messages' = [messages EXCEPT ![t] = n]

(* Consumer starts the ADC, adds Display and loops. *)
ConsumerStarts ==
  /\ \/ consumer = "start" /\ consumer' = "started" /\ UNCHANGED <<display, messages>>
     \/ /\ consumer = "started" /\ consumer' = "loop"
        /\ display' = "loop"
        /\ Prints("Display", 1)
  /\ UNCHANGED <<NumSamples, DataLost, fifo, box, semas, x, drawing, LCDFree, LCDwaiting>>

ConsumerChecks ==
  /\ consumer = "loop"
  /\ consumer' = IF NumSamples < RUNLENGTH THEN "collect" ELSE "dead"
  /\ x' = <<>>
  /\ UNCHANGED <<NumSamples, DataLost, fifo, box, semas, display, lcd>>

ConsumerCollects ==
  /\ consumer = "collect"
  /\ Len(x) < BATCH
  /\ \/ (F!GetWait \/ F!GetRead) /\ UNCHANGED x
     \/ F!GetAdvance /\ x' = Append(x, got)
  /\ UNCHANGED <<NumSamples, DataLost, box, consumer, display, lcd>>

ConsumerSends ==
  /\ \/ /\ consumer = "collect"
        /\ Len(x) = BATCH
        /\ M!Send("Consumer", x)
        /\ consumer' = "send"
     \/ M!SendStore("Consumer") /\ UNCHANGED consumer
     \/ M!SendSignal("Consumer") /\ consumer' = "loop"
  /\ UNCHANGED <<NumSamples, DataLost, fifo, x, display, lcd>>

-----------------------------------------------------------------------------
DisplayChecks ==
  /\ display = "loop"
  /\ messages["Display"] = 0
  /\ IF NumSamples < RUNLENGTH
     THEN display' = "recv" /\ UNCHANGED messages
     ELSE display' = "final" /\ Prints("Display", 1)
  /\ UNCHANGED <<NumSamples, DataLost, fifo, box, semas, consumer, x, drawing,
                 LCDFree, LCDwaiting>>

(* What is received is drawn with three messages. *)
DisplayReceives ==
  /\ display = "recv"
  /\ \/ (M!Recv("Display") \/ M!RecvRead("Display")) /\ UNCHANGED <<display, messages>>
     \/ M!RecvSignal("Display") /\ display' = "loop" /\ Prints("Display", 3)
  /\ UNCHANGED <<NumSamples, DataLost, fifo, consumer, x, drawing, LCDFree, LCDwaiting>>

DisplayDies ==
  /\ display = "final"
  /\ messages["Display"] = 0
  /\ display' = "dead"
  /\ UNCHANGED <<NumSamples, DataLost, fifo, box, semas, consumer, x, lcd>>

-----------------------------------------------------------------------------
(* ST7735_Message with a value other than -1. *)
MessageWaits(t) ==
  /\ messages[t] > 0
  /\ t \notin drawing
  /\ L!Take("LCD") \/ L!Join("LCD", t)
  /\ drawing' = drawing \cup {t}
  /\ UNCHANGED <<NumSamples, DataLost, fifo, box, semas, consumer, x, display, messages>>

SignalForgotten == UNCHANGED <<LCDFree, LCDwaiting>>

SignalLCD == L!Release("LCD") \/ \E t \in Drawers : L!HandOver("LCD", t)

MessageSignals(t) ==
  /\ t \in drawing
  /\ t \notin LCDwaiting["LCD"]
  /\ SignalLCD
  /\ drawing' = drawing \ {t}
  /\ Prints(t, messages[t] - 1)
  /\ UNCHANGED <<NumSamples, DataLost, fifo, box, semas, consumer, x, display>>

(* A button is pushed: ButtonWork draws a message, sleeps and draws four. *)
ButtonPushed ==
  /\ messages["ButtonWork"] = 0
  /\ \E n \in {1, 4} : Prints("ButtonWork", n)
  /\ UNCHANGED <<NumSamples, DataLost, fifo, box, semas, consumer, x, display, drawing,
                 LCDFree, LCDwaiting>>

-----------------------------------------------------------------------------
Next ==
  \/ Producer
  \/ ConsumerStarts
  \/ ConsumerChecks
  \/ ConsumerCollects
  \/ ConsumerSends
  \/ DisplayChecks
  \/ DisplayReceives
  \/ DisplayDies
  \/ \E t \in Drawers : MessageWaits(t) \/ MessageSignals(t)
  \/ ButtonPushed

(* The timer triggers the ADC, and both threads are above the others of Lab 3
   in priority (OSKernel shows that the highest ALIVE threads run).  ButtonWork,
   of the next priority, gets on while both wait for the next samples.  Buttons
   need not be pushed. *)
Fairness ==
  /\ WF_vars(Producer)
  /\ WF_vars(ConsumerStarts \/ ConsumerChecks \/ ConsumerCollects \/ ConsumerSends)
  /\ WF_vars(DisplayChecks \/ DisplayReceives \/ DisplayDies)
  /\ \A t \in Drawers : WF_vars(MessageWaits(t) \/ MessageSignals(t))

Spec == Init /\ [][Next]_vars /\ Fairness

-----------------------------------------------------------------------------
(* Properties.                                                             *)

TypeOK ==
  /\ NumSamples \in 0..RUNLENGTH
  /\ DataLost \in 0..NumSamples
  /\ PutI \in 0..FIFOSIZE - 1
  /\ GetI \in 0..FIFOSIZE - 1
  /\ Fifo \in [0..FIFOSIZE - 1 -> Samples \cup {NoData}]
  /\ LostData = DataLost
  /\ getting \in {"no", "read", "advance"}
  /\ got \in Samples \cup {NoData}
  /\ units["CurrentSize"] \in 0..FIFOSIZE
  /\ consumer \in {"start", "started", "loop", "collect", "send", "dead"}
  /\ Len(x) <= BATCH
  /\ display \in {"unborn", "loop", "recv", "final", "dead"}
  /\ messages \in [Drawers -> 0..4]
  /\ LCDFree["LCD"] \in 0..1

(* The fifo is a bounded queue that delivers what it saved in order and counts
   what it refused, although OS_Fifo_Get reads its slot after OS_Wait has
   given the slot back to the producer. *)
Queue == INSTANCE LossyQueue WITH
  queue <- F!Unread, lost <- LostData, Data <- Samples, Capacity <- FIFOSIZE

ImplementsQueue == Queue!Spec

(* The mailbox between Consumer and Display is one slot. *)
ImplementsBox == M!ImplementsBox

(* OS_Fifo_Put reports every sample that it does not save: while it has
   reported none, Display gets batches of consecutive samples, none missing,
   none twice. *)
BatchesInOrder ==
  DataLost = 0 /\ received["Display"] # NoMail =>
    \E k \in 0..RUNLENGTH \div BATCH - 1 :
      received["Display"] = [i \in 1..BATCH |-> k * BATCH + i]

(* Display never waits for mail that nobody will send, nor for ever for the LCD:
   when the run is over and no sample was refused, it finishes.  Its loop reads
   NumSamples and then waits, while the interrupt counts NumSamples up. *)
DisplayFinishes ==
  NumSamples = RUNLENGTH ~> (display = "dead" \/ DataLost > 0)
=============================================================================
