------------------------------- MODULE OSMailBox -------------------------------
(***************************************************************************)
(* OS_MailBox_Send and OS_MailBox_Recv of RTOS_Labs_common/OS.c: the shared *)
(* variable Mail between two semaphores.  Any number of threads call them   *)
(* and are interrupted between any two of their statements.                 *)
(***************************************************************************)
EXTENDS Integers, Sequences

CONSTANTS
  Mails, NoMail,
  Threads, Semaphores  (* as in CountingSemaphore                            *)

ASSUME MailBoxAssumption ==
  /\ NoMail \notin Mails
  /\ {"BoxFree", "BoxDataValid"} \subseteq Semaphores

VARIABLES
  Mail,
  units, waiting,  (* the semaphores                                         *)
  call,            (* the statement a thread is at: "none" (no call), Send:  *)
                   (* "store", "valid"; Recv: "read", "free"                 *)
  arg,             (* the data parameter of Send                             *)
  received         (* recvData of the last Recv                              *)

(* The values OS_MailBox_Init gives the semaphores. *)
InitialValue == [s \in Semaphores |-> IF s = "BoxFree" THEN 1 ELSE 0]

Semaphore == INSTANCE CountingSemaphore

OS_Wait(t, s)  == Semaphore!Take(s) \/ Semaphore!Join(s, t)

SignalTwice(s) ==
  /\ units' = [units EXCEPT ![s] = @ + 1]
  /\ waiting' = [waiting EXCEPT ![s] = IF @ = {} THEN {} ELSE @ \ {CHOOSE t \in @ : TRUE}]

OS_Signal(s)   == Semaphore!Release(s) \/ \E t \in Threads : Semaphore!HandOver(s, t)

OS_MailBox_Init ==
  /\ Semaphore!Init
  /\ Mail = NoMail
  /\ call = [t \in Threads |-> "none"]
  /\ arg = [t \in Threads |-> NoMail]
  /\ received = [t \in Threads |-> NoMail]

(* OS_MailBox_Send(m) *)
Send(t, m) ==
  /\ call[t] = "none"
  /\ OS_Wait(t, "BoxFree")
  /\ call' = [call EXCEPT ![t] = "store"]
  /\ arg' = [arg EXCEPT ![t] = m]
  /\ UNCHANGED <<Mail, received>>

StoreUnwaited(t) == TRUE

MayStore(t) == t \notin waiting["BoxFree"]

SendStore(t) ==
  /\ call[t] = "store"
  /\ MayStore(t)
  /\ Mail' = arg[t]
  /\ call' = [call EXCEPT ![t] = "valid"]
  /\ UNCHANGED <<units, waiting, arg, received>>

SendSignal(t) ==
  /\ call[t] = "valid"
  /\ OS_Signal("BoxDataValid")
  /\ call' = [call EXCEPT ![t] = "none"]
  /\ UNCHANGED <<Mail, arg, received>>

(* OS_MailBox_Recv() *)
Recv(t) ==
  /\ call[t] = "none"
  /\ OS_Wait(t, "BoxDataValid")
  /\ call' = [call EXCEPT ![t] = "read"]
  /\ UNCHANGED <<Mail, arg, received>>

PastWait(t) == call[t] = "read" /\ t \notin waiting["BoxDataValid"]

RecvRead(t) ==
  /\ PastWait(t)
  /\ received' = [received EXCEPT ![t] = Mail]
  /\ call' = [call EXCEPT ![t] = "free"]
  /\ UNCHANGED <<Mail, units, waiting, arg>>

RecvSignal(t) ==
  /\ call[t] = "free"
  /\ OS_Signal("BoxFree")
  /\ call' = [call EXCEPT ![t] = "none"]
  /\ UNCHANGED <<Mail, arg, received>>

(* Mail holds data that nobody has read. *)
Occupied ==
  \/ units["BoxDataValid"] > 0
  \/ \E t \in Threads : call[t] = "valid" \/ PastWait(t)

-----------------------------------------------------------------------------
(* The mailbox on its own: any thread sends and receives at any time.      *)

vars == <<Mail, units, waiting, call, arg, received>>

Next ==
  \E t \in Threads :
    \/ \E m \in Mails : Send(t, m)
    \/ SendStore(t)
    \/ SendSignal(t)
    \/ Recv(t)
    \/ RecvRead(t)
    \/ RecvSignal(t)

Spec == OS_MailBox_Init /\ [][Next]_vars

TypeOK ==
  /\ Mail \in Mails \cup {NoMail}
  /\ units \in [Semaphores -> Nat]
  /\ waiting \in [Semaphores -> SUBSET Threads]
  /\ call \in [Threads -> {"none", "store", "valid", "read", "free"}]
  /\ arg \in [Threads -> Mails \cup {NoMail}]
  /\ received \in [Threads -> Mails \cup {NoMail}]

(* A mailbox is one slot: no thread overwrites mail that was not read, no two
   threads read the same mail, and nobody reads an empty box, however senders
   and receivers are interrupted between the semaphores and Mail. *)
Box == INSTANCE OneSlotBox WITH
  slot  <- IF Occupied THEN Mail ELSE NoMail,
  Empty <- NoMail

ImplementsBox == Box!Spec

(* Between its semaphores: neither waiting nor outside Send and Recv. *)
Inside == {t \in Threads : /\ call[t] # "none"
                           /\ t \notin waiting["BoxFree"] \cup waiting["BoxDataValid"]}

(* Exactly one of three holds: the box is free, or mail is in it, or one thread
   is inside Send or Recv.  So Mail has one user at a time, and a thread that
   waits always waits for a thread that is inside or for the other side. *)
OneUser ==
  \/ /\ units["BoxFree"] + units["BoxDataValid"] = 1
     /\ Inside = {}
  \/ /\ units["BoxFree"] + units["BoxDataValid"] = 0
     /\ \E t \in Threads : Inside = {t}
=============================================================================
