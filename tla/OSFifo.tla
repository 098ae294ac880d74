-------------------------------- MODULE OSFifo --------------------------------
(***************************************************************************)
(* OS_Fifo_Put and OS_Fifo_Get of RTOS_Labs_common/OS.c.  Put is called by *)
(* an interrupt handler, which threads cannot interrupt: one step.  Get is *)
(* called by one thread, which handlers do interrupt: it waits for         *)
(* CurrentSize, reads the slot and advances GetI in three steps.           *)
(*                                                                         *)
(* CurrentSize is one of the semaphores of CountingSemaphore, whose        *)
(* variables this module shares with the other users of semaphores.        *)
(***************************************************************************)
EXTENDS Integers, Sequences

CONSTANTS
  FIFOSIZE,        (* slots of Fifo                                          *)
  Data,            (* what is put                                            *)
  NoData,          (* what Fifo and the consumer hold before the first put   *)
  Getter,          (* the thread that calls OS_Fifo_Get                      *)
  Threads, Semaphores  (* as in CountingSemaphore                            *)

VARIABLES
  PutI, GetI, Fifo, LostData,
  units, waiting,  (* the semaphores                                         *)
  getting,         (* where OS_Fifo_Get is: "no", "read" (after the call of  *)
                   (* OS_Wait) or "advance" (Fifo[GetI] is read)             *)
  got              (* its local data: the element read last                  *)

Semaphore == INSTANCE CountingSemaphore WITH
  InitialValue <- [s \in Semaphores |-> 0]

OS_Wait(t, s)  == Semaphore!Take(s) \/ Semaphore!Join(s, t)
OS_Signal(s)   == Semaphore!Release(s) \/ \E t \in Threads : Semaphore!HandOver(s, t)

OS_Fifo_Init ==
  /\ PutI = 0
  /\ GetI = 0
  /\ Fifo = [i \in 0..FIFOSIZE - 1 |-> NoData]
  /\ LostData = 0
  /\ getting = "no"
  /\ got = NoData

FullTooLate == units["CurrentSize"] = FIFOSIZE + 1

(* CurrentSize.Value == FIFOSIZE *)
Full == units["CurrentSize"] = FIFOSIZE

After(i) == (i + 1) % FIFOSIZE

(* Returns 0. *)
PutRefused ==
  /\ Full
  /\ LostData' = LostData + 1
  /\ UNCHANGED <<PutI, GetI, Fifo, getting, got, units, waiting>>

(* Returns 1. *)
PutSaved(d) ==
  /\ ~Full
  /\ Fifo' = [Fifo EXCEPT ![PutI] = d]
  /\ PutI' = After(PutI)
  /\ OS_Signal("CurrentSize")
  /\ UNCHANGED <<GetI, LostData, getting, got>>

(* The three steps of OS_Fifo_Get. *)
GetWait ==
  /\ getting = "no"
  /\ OS_Wait(Getter, "CurrentSize")
  /\ getting' = "read"
  /\ UNCHANGED <<PutI, GetI, Fifo, LostData, got>>

(* OS_Wait has returned: a unit was there or was handed over. *)
PastWait == getting = "read" /\ Getter \notin waiting["CurrentSize"]

GetRead ==
  /\ PastWait
  /\ got' = Fifo[GetI]
  /\ getting' = "advance"
  /\ UNCHANGED <<PutI, GetI, Fifo, LostData, units, waiting>>

SameSlot == GetI

NextSlot == After(GetI)

GetAdvance ==
  /\ getting = "advance"
  /\ GetI' = NextSlot
  /\ getting' = "no"
  /\ UNCHANGED <<PutI, Fifo, LostData, got, units, waiting>>

(* Every slot is unread and the getter is about to read one of them, but its
   OS_Wait has already freed that slot for the producer. *)
Exposed == PastWait /\ units["CurrentSize"] = FIFOSIZE - 1

(* The elements saved and not yet read, oldest first. *)
Unread ==
  LET n     == units["CurrentSize"] + IF PastWait THEN 1 ELSE 0
      first == IF getting = "advance" THEN After(GetI) ELSE GetI
  IN  [k \in 1..n |-> Fifo[(first + k - 1) % FIFOSIZE]]
=============================================================================
