------------------------------- MODULE OSProcess -------------------------------
(***************************************************************************)
(* The processes of RTOS_Labs_common/OS.c on top of OSKernel: the PCB of   *)
(* every thread, the number of threads of every process and what becomes   *)
(* of the text and data that the loader allocated on the heap.             *)
(*                                                                         *)
(* OSKernel is the special case without processes.  Its actions are taken  *)
(* over; those that add or kill a thread also change the PCBs.             *)
(***************************************************************************)
EXTENDS OSKernel, FiniteSets

CONSTANT NUM_PROCESSES   (* size of PCB_array *)

ASSUME ProcessAssumption == NUM_PROCESSES \in Nat \ {0}

PCBs == 0..NUM_PROCESSES - 1

VARIABLES
  pcb,          (* TCB_array[t].pcb                                          *)
  num_threads,  (* PCB_array[p].num_threads                                  *)
  image,        (* text and data of PCB_array[p]: "none", "loaded", "freed", *)
                (* "twice" (freed twice)                                     *)
  revived,      (* processes that were given a thread after their last one   *)
                (* was killed                                                *)
  masked        (* OS_AddProcess has returned with interrupts disabled       *)

pvars   == <<pcb, num_threads, image, revived, masked>>
allvars == <<vars, pvars>>

ProcessInit ==
  /\ Init
  /\ pcb = [t \in Threads |-> NULL]
  /\ num_threads = [p \in PCBs |-> 0]
  /\ image = [p \in PCBs |-> "none"]
  /\ revived = {}
  /\ masked = FALSE

NotCounted(p) == num_threads[p]

Counted(p) == num_threads[p] + 1

(* OS_AddThread: the new thread joins the process of currThread, whose pcb and
   count it copies, also when an interrupt handler adds it. *)
Joins(t, p) ==
  /\ pcb' = [pcb EXCEPT ![t] = p]
  /\ num_threads' = IF p = NULL THEN num_threads ELSE [num_threads EXCEPT ![p] = Counted(p)]
  /\ revived' = revived \cup ({p} \cap {q \in PCBs : image[q] # "loaded"})
  /\ UNCHANGED <<image, masked>>

Adds(Add) == Add /\ Joins(getNextDeadThread, pcb[currThread'])

FreePCBs == {p \in PCBs : num_threads[p] = 0}

(* OS_AddProcess, called by the loader.  With no free TCB it returns 0 and
   leaves a free PCB as it was. *)
OS_AddProcess(t, prio) ==
  /\ Running(t)
  /\ FreePCBs # {}
  /\ LET p == Least(FreePCBs) IN
       /\ OS_AddThread(prio)
       /\ pcb' = [pcb EXCEPT ![getNextDeadThread] = p]
       /\ num_threads' = [num_threads EXCEPT ![p] = Counted(p)]
       /\ image' = [image EXCEPT ![p] = "loaded"]
       /\ revived' = revived \ {p}
       /\ UNCHANGED masked

(* With no free PCB it returns without EndCritical. *)
AddProcessMasks(t) ==
  /\ Running(t)
  /\ FreePCBs = {}
  /\ masked' = TRUE
  /\ UNCHANGED <<vars, pcb, num_threads, image, revived>>

FreedWithFirst(p) == TRUE

FreedWithLast(p) == num_threads'[p] = 0

(* The part of OS_Kill that comes before the thread leaves its ring. *)
Leaves(t) ==
  LET p == pcb[t] IN
  /\ IF p = NULL THEN UNCHANGED <<num_threads, image>>
     ELSE /\ num_threads' = [num_threads EXCEPT ![p] = @ - 1]
          /\ image' = IF FreedWithLast(p)
                      THEN [image EXCEPT ![p] = IF @ = "loaded" THEN "freed" ELSE "twice"]
                      ELSE image
  /\ UNCHANGED <<pcb, revived, masked>>

ProcessNext ==
  /\ ~masked
  /\ \/ Adds(MainAdds)
     \/ Adds(ISRAdds)
     \/ \E t \in Threads, p \in Priorities :
          \/ Running(t) /\ Adds(OS_AddThread(p))
          \/ OS_AddProcess(t, p)
     \/ \E t \in Threads :
          \/ OS_Kill(t) /\ Leaves(t)
          \/ AddProcessMasks(t)
          \/ OS_Suspend(t) /\ UNCHANGED pvars
          \/ \E n \in 0..MaxSleep : OS_Sleep(t, n) /\ UNCHANGED pvars
          \/ \E s \in Semaphores :
               /\ OS_Wait(t, s) \/ (Running(t) /\ OS_Signal(s, TRUE))
               /\ UNCHANGED pvars
     \/ \E s \in Semaphores : ISRSignals(s) /\ UNCHANGED pvars
     \/ (OS_Launch \/ SysTick_Handler \/ PendSV_Handler) /\ UNCHANGED pvars

ProcessSpec == ProcessInit /\ [][ProcessNext]_allvars

-----------------------------------------------------------------------------
ProcessTypeOK ==
  /\ pcb \in [Threads -> PCBs \cup {NULL}]
  /\ num_threads \in [PCBs -> 0..NUMTHREADS]
  /\ image \in [PCBs -> {"none", "loaded", "freed", "twice"}]
  /\ revived \subseteq PCBs
  /\ masked \in BOOLEAN

Members(p) == {t \in Threads : pcb[t] = p /\ status[t] \notin {"DYING", "DEAD"}}

(* The reference count of a process is the number of its threads, whoever added
   them, whatever state they are in and however they interleave with interrupts:
   a PCB with count 0, which the next process is given, has no thread left. *)
CountsThreads == \A p \in PCBs : num_threads[p] = Cardinality(Members(p))

(* As long as no interrupt adds a thread between the OS_Kill of the last thread of
   a process and the switch, text and data are there while a thread may run in
   them and are freed once, with the last thread. *)
ImageLivesWithThreads ==
  \A p \in PCBs \ revived :
    /\ image[p] # "twice"
    /\ (image[p] = "loaded") <=> (Members(p) # {})
=============================================================================
