------------------------------- MODULE OSKernel -------------------------------
(***************************************************************************)
(* The priority kernel of RTOS_Labs_common/OS.c, as built for Lab 3        *)
(* (PRIORITY_SCHEDULING, PREEMPTIVE, blocking semaphores): the TCB table,  *)
(* the ready ring of every priority, the blocked list of every semaphore,  *)
(* the PendSV request and the threads that call the kernel.                *)
(*                                                                         *)
(* A ring or a list is a sequence here, its head first; OSLists models the *)
(* same kernel with the next/prev pointers of the code and is checked to   *)
(* implement this module.  Code between StartCritical and EndCritical runs *)
(* with PRIMASK set on one core, so it is one step.  Every thread is an OS *)
(* thread (pcb = NULL), which is what Lab3.c creates.                      *)
(***************************************************************************)
EXTENDS Integers, Sequences, SequencesExt

CONSTANTS
  NUMTHREADS,              (* size of TCB_array                               *)
  MAX_PRIORITY_PLUS_ONE,   (* number of priorities, 0 is the highest          *)
  IdlePriority,            (* threads of this priority never block (Lab3.c    *)
                           (* Idle, Thread6); MAX_PRIORITY_PLUS_ONE: no such  *)
                           (* thread is required                              *)
  Semaphores,              (* the Sema4Type objects of the program            *)
  InitialValue,            (* the value OS_InitSemaphore gives each of them   *)
  MaxValue,                (* bound: a semaphore at MaxValue is not signalled *)
  MaxSleep,                (* bound: longest OS_Sleep                         *)
  NullStore                (* what the store through NULL in OS_Signal may do *)

ASSUME KernelAssumption ==
  /\ NUMTHREADS \in Nat \ {0}
  /\ MAX_PRIORITY_PLUS_ONE \in Nat \ {0}
  /\ IdlePriority \in 0..MAX_PRIORITY_PLUS_ONE
  /\ InitialValue \in [Semaphores -> Nat]
  /\ MaxValue \in Nat
  /\ MaxSleep \in Nat
  /\ NullStore \subseteq {"ignored", "fault"}

NULL       == -1
Threads    == 0..NUMTHREADS - 1
Priorities == 0..MAX_PRIORITY_PLUS_ONE - 1
Status     == {"ALIVE", "DYING", "DEAD", "BLOCKED", "SLEEPING"}

VARIABLES
  status,      (* TCB_array[t].status                                       *)
  sleep,       (* TCB_array[t].sleep, in SysTick periods                    *)
  priority,    (* TCB_array[t].priority                                     *)
  currThread,  (* the running TCB, NULL before the first OS_AddThread       *)
  ready,       (* TCB_priority_array[p]: the ring of p from its head        *)
  Value,       (* Sema4Type.Value                                           *)
  blocked,     (* Sema4Type.blocked: the waiting threads from the head      *)
  pendSV,      (* the PendSV bit of NVIC_INT_CTRL_R                         *)
  atSuspend,   (* threads whose next instruction is a call of OS_Suspend,   *)
               (* made after the EndCritical of the operation they are in   *)
  launched,    (* OS_Launch has enabled interrupts                          *)
  machine      (* "ok", "spin" (the debug loop of OS_Signal), "fault" (hard *)
               (* fault), "nothread" (the scheduler returned NULL)          *)

vars  == <<status, sleep, priority, currThread, ready, Value, blocked,
           pendSV, atSuspend, launched, machine>>

TypeOK ==
  /\ status \in [Threads -> Status]
  /\ sleep \in [Threads -> 0..MaxSleep]
  /\ priority \in [Threads -> Priorities]
  /\ currThread \in Threads \cup {NULL}
  /\ ready \in [Priorities -> Seq(Threads)]
  /\ Value \in [Semaphores -> Int]
  /\ blocked \in [Semaphores -> Seq(Threads)]
  /\ pendSV \in BOOLEAN
  /\ atSuspend \subseteq Threads
  /\ launched \in BOOLEAN
  /\ machine \in {"ok", "spin", "fault", "nothread"}

-----------------------------------------------------------------------------
(* The lists.  An operator of the module that no action uses (RemoveNothing, *)
(* LastPosition, ...) is a deliberate error: PROJECT.json names it as the    *)
(* mutant of the definition that follows it.                                 *)

Least(S) == CHOOSE x \in S : \A y \in S : x <= y

IndexOf(q, t) == CHOOSE i \in 1..Len(q) : q[i] = t

(* addThreadPriority: the tail of the ring is just before its head. *)
addThreadPriority(rings, t, p) == [rings EXCEPT ![p] = Append(@, t)]

RemoveNothing(rings, t, p) == rings

(* removeThreadPriority: if t was the head its successor is the new head. *)
removeThreadPriority(rings, t, p) ==
  [rings EXCEPT ![p] = RemoveAt(@, IndexOf(@, t))]

SlotsBeforeEqual(q, p) ==
  {k \in 1..Len(q) : /\ p <= priority[q[k]]
                     /\ k > 1 => priority[q[k - 1]] < p}

(* Where OS_Wait links a thread of priority p into the blocked list q: in
   front of the first waiter of a lower priority whose predecessor is not. *)
Slots(q, p) ==
  {k \in 1..Len(q) : /\ p < priority[q[k]]
                     /\ k > 1 => priority[q[k - 1]] <= p}

LastPosition(q, p) == Len(q) + 1

WaitPosition(q, p) == IF Slots(q, p) = {} THEN Len(q) + 1 ELSE Least(Slots(q, p))

NoRotation(q, i) == q

(* The ring from the element after position i round to the element at i. *)
RotateTo(q, i) == SubSeq(q, i + 1, Len(q)) \o SubSeq(q, 1, i)

AnyAt(q) == 1..Len(q)

AliveAt(q) == {i \in 1..Len(q) : status[q[i]] = "ALIVE"}

-----------------------------------------------------------------------------
(* The main program of a lab: it adds threads with interrupts disabled and *)
(* launches the system.                                                    *)

Init ==
  /\ status = [t \in Threads |-> "DEAD"]
  /\ sleep = [t \in Threads |-> 0]
  /\ priority = [t \in Threads |-> 0]
  /\ currThread = NULL
  /\ ready = [p \in Priorities |-> <<>>]
  /\ Value = InitialValue
  /\ blocked = [s \in Semaphores |-> <<>>]
  /\ pendSV = FALSE
  /\ atSuspend = {}
  /\ launched = FALSE
  /\ machine = "ok"

Dead == {t \in Threads : status[t] = "DEAD"}

getNextDeadThread == Least(Dead)

(* OS_AddThread, whoever calls it.  With no dead TCB it returns 0. *)
OS_AddThread(p) ==
  /\ Dead # {}
  /\ LET t == getNextDeadThread IN
       /\ status' = [status EXCEPT ![t] = "ALIVE"]
       /\ priority' = [priority EXCEPT ![t] = p]
       /\ ready' = addThreadPriority(ready, t, p)
       /\ currThread' = IF currThread = NULL THEN t ELSE currThread
       /\ atSuspend' = atSuspend \ {t}
  /\ UNCHANGED <<sleep, Value, blocked, pendSV, launched, machine>>

HasIdle ==
  IdlePriority \in Priorities =>
    \E t \in Threads : status[t] = "ALIVE" /\ priority[t] = IdlePriority

(* main leaves room for the thread that never blocks. *)
MainAdds == /\ ~launched
            /\ \E p \in Priorities : OS_AddThread(p)
            /\ Dead' # {} \/ HasIdle'

(* StartOS loads the stack pointer of currThread: main has added a thread,
   and one that never blocks where the program relies on it. *)
OS_Launch ==
  /\ ~launched
  /\ currThread # NULL
  /\ HasIdle
  /\ launched' = TRUE
  /\ UNCHANGED <<status, sleep, priority, currThread, ready, Value, blocked,
                 pendSV, atSuspend, machine>>

-----------------------------------------------------------------------------
(* Calls of the running thread.  A pending PendSV preempts the thread as   *)
(* soon as interrupts are enabled, before its next instruction.            *)

Up == launched /\ machine = "ok"

Executing(t) == Up /\ currThread = t /\ ~pendSV

Running(t) == Executing(t) /\ t \notin atSuspend

MayBlock(t) == priority[t] # IdlePriority

(* OS_Suspend: the store that sets PendSV, called by the program or at the
   end of OS_Wait, OS_Signal, OS_Sleep and OS_Kill. *)
OS_Suspend(t) ==
  /\ Executing(t)
  /\ pendSV' = TRUE
  /\ atSuspend' = atSuspend \ {t}
  /\ UNCHANGED <<status, sleep, priority, currThread, ready, Value, blocked,
                 launched, machine>>

BlocksUndecremented(s) == Value[s] < 0

(* The value is decremented first and then compared with 0. *)
Blocks(s) == Value[s] - 1 < 0

WaitPasses(t, s) ==
  /\ Running(t)
  /\ MayBlock(t)
  /\ ~Blocks(s)
  /\ Value' = [Value EXCEPT ![s] = @ - 1]
  /\ UNCHANGED <<status, sleep, priority, currThread, ready, blocked, pendSV,
                 atSuspend, launched, machine>>

WaitBlocks(t, s) ==
  /\ Running(t)
  /\ MayBlock(t)
  /\ Blocks(s)
  /\ Value' = [Value EXCEPT ![s] = @ - 1]
  /\ status' = [status EXCEPT ![t] = "BLOCKED"]
  /\ ready' = removeThreadPriority(ready, t, priority[t])
  /\ blocked' = [blocked EXCEPT ![s] = InsertAt(@, WaitPosition(@, priority[t]), t)]
  /\ atSuspend' = atSuspend \cup {t}
  /\ UNCHANGED <<sleep, priority, currThread, pendSV, launched, machine>>

OS_Wait(t, s) == WaitPasses(t, s) \/ WaitBlocks(t, s)

OS_Sleep(t, n) ==
  /\ Running(t)
  /\ MayBlock(t)
  /\ IF n > 0
     THEN /\ status' = [status EXCEPT ![t] = "SLEEPING"]
          /\ sleep' = [sleep EXCEPT ![t] = n]
     ELSE UNCHANGED <<status, sleep>>
  /\ atSuspend' = atSuspend \cup {t}
  /\ UNCHANGED <<priority, currThread, ready, Value, blocked, pendSV,
                 launched, machine>>

KilledDead == "DEAD"

(* The TCB stays DYING, so that nobody is given it before the switch. *)
KilledStatus == "DYING"

OS_Kill(t) ==
  /\ Running(t)
  /\ MayBlock(t)
  /\ status' = [status EXCEPT ![t] = KilledStatus]
  /\ ready' = removeThreadPriority(ready, t, priority[t])
  /\ atSuspend' = atSuspend \cup {t}
  /\ UNCHANGED <<sleep, priority, currThread, Value, blocked, pendSV,
                 launched, machine>>

-----------------------------------------------------------------------------
(* OS_Signal.  A thread that wakes a thread of a higher priority calls     *)
(* OS_Suspend after EndCritical, an interrupt handler sets PendSV at once. *)

RequestSwitch(fromThread) ==
  IF fromThread THEN /\ atSuspend' = atSuspend \cup {currThread}
                     /\ UNCHANGED pendSV
  ELSE pendSV' = TRUE /\ UNCHANGED atSuspend

(* Does waking a thread of priority p preempt the thread that runs? *)
Preempts(p) == priority[currThread] > p

SignalPasses(s) ==
  /\ Value[s] >= 0
  /\ Value' = [Value EXCEPT ![s] = @ + 1]
  /\ UNCHANGED <<status, sleep, priority, currThread, ready, blocked, pendSV,
                 atSuspend, launched, machine>>

(* A waiter is counted but none is listed: the _DEBUG endless loop. *)
SignalSpins(s) ==
  /\ Value' = [Value EXCEPT ![s] = @ + 1]
  /\ machine' = "spin"
  /\ UNCHANGED <<status, sleep, priority, currThread, ready, blocked, pendSV,
                 atSuspend, launched>>

(* The last waiter leaves: semaPt->blocked->prev = NULL stores through NULL.
   Where that faults, the waiter is off the list and not yet in its ring. *)
SignalFaults(s) ==
  /\ Len(blocked[s]) = 1
  /\ "fault" \in NullStore
  /\ Value' = [Value EXCEPT ![s] = @ + 1]
  /\ status' = [status EXCEPT ![Head(blocked[s])] = "ALIVE"]
  /\ blocked' = [blocked EXCEPT ![s] = Tail(@)]
  /\ machine' = "fault"
  /\ UNCHANGED <<sleep, priority, currThread, ready, pendSV, atSuspend, launched>>

SignalWakes(s, fromThread) ==
  /\ Len(blocked[s]) = 1 => "ignored" \in NullStore
  /\ Value' = [Value EXCEPT ![s] = @ + 1]
  /\ LET b == Head(blocked[s]) IN
       /\ status' = [status EXCEPT ![b] = "ALIVE"]
       /\ blocked' = [blocked EXCEPT ![s] = Tail(@)]
       /\ ready' = addThreadPriority(ready, b, priority[b])
       /\ IF Preempts(priority[b]) THEN RequestSwitch(fromThread)
          ELSE UNCHANGED <<pendSV, atSuspend>>
  /\ UNCHANGED <<sleep, priority, currThread, launched, machine>>

OS_Signal(s, fromThread) ==
  /\ Value[s] < MaxValue
  /\ \/ SignalPasses(s)
     \/ /\ Value[s] < 0
        /\ IF blocked[s] = <<>> THEN SignalSpins(s)
           ELSE SignalFaults(s) \/ SignalWakes(s, fromThread)

-----------------------------------------------------------------------------
(* Interrupts.  PendSV has the lowest priority, so a handler may run       *)
(* between the request of a switch and the switch.                         *)

(* A background thread (OS_AddPeriodicThread, OS_AddSW1Task): it may call
   OS_Signal and OS_AddThread. *)
ISRSignals(s) == Up /\ OS_Signal(s, FALSE)
ISRAdds       == Up /\ \E p \in Priorities : OS_AddThread(p)

NotPreemptive == FALSE

PREEMPTIVE == TRUE

TickedAlways(t) == sleep[t] - 1

TickedToOne(t) == IF sleep[t] > 1 /\ status[t] = "SLEEPING"
                  THEN sleep[t] - 1 ELSE sleep[t]

Ticked(t) == IF sleep[t] > 0 /\ status[t] = "SLEEPING"
             THEN sleep[t] - 1 ELSE sleep[t]

SysTick_Handler ==
  /\ Up
  /\ sleep' = [t \in Threads |-> Ticked(t)]
  /\ status' = [t \in Threads |-> IF Ticked(t) = 0 /\ status[t] = "SLEEPING"
                                  THEN "ALIVE" ELSE status[t]]
  /\ pendSV' = (pendSV \/ PREEMPTIVE)
  /\ UNCHANGED <<priority, currThread, ready, Value, blocked, atSuspend,
                 launched, machine>>

RunnableButLast ==
  {p \in 0..MAX_PRIORITY_PLUS_ONE - 2 : AliveAt(ready[p]) # {}}

Runnable == {p \in Priorities : AliveAt(ready[p]) # {}}

LowestFirst ==
  LET p == CHOOSE x \in Runnable : \A y \in Runnable : y <= x
      i == Least(AliveAt(ready[p]))
  IN  /\ currThread' = ready[p][i]
      /\ ready' = [ready EXCEPT ![p] = IF Len(@) = 1 THEN @ ELSE RotateTo(@, i)]

(* getNextPriorityThreadAndUpdateList: the first thread of the highest
   priority that is ALIVE runs, its successor heads the ring. *)
getNextPriorityThreadAndUpdateList ==
  LET p == Least(Runnable)
      i == Least(AliveAt(ready[p]))
  IN  /\ currThread' = ready[p][i]
      /\ ready' = [ready EXCEPT ![p] = IF Len(@) = 1 THEN @ ELSE RotateTo(@, i)]

Scheduler ==
  /\ status' = IF status[currThread] = "DYING"
               THEN [status EXCEPT ![currThread] = "DEAD"] ELSE status
  /\ IF Runnable = {}
     THEN /\ currThread' = NULL
          /\ machine' = "nothread"
          /\ UNCHANGED ready
     ELSE getNextPriorityThreadAndUpdateList /\ UNCHANGED machine

PendSV_Handler ==
  /\ Up
  /\ pendSV
  /\ pendSV' = FALSE
  /\ Scheduler
  /\ UNCHANGED <<sleep, priority, Value, blocked, atSuspend, launched>>

-----------------------------------------------------------------------------
ThreadStep(t) ==
  \/ OS_Suspend(t)
  \/ \E s \in Semaphores : OS_Wait(t, s)
  \/ \E s \in Semaphores : Running(t) /\ OS_Signal(s, TRUE)
  \/ \E n \in 0..MaxSleep : OS_Sleep(t, n)
  \/ OS_Kill(t)
  \/ \E p \in Priorities : Running(t) /\ OS_AddThread(p)

Next ==
  \/ MainAdds
  \/ OS_Launch
  \/ \E t \in Threads : ThreadStep(t)
  \/ \E s \in Semaphores : ISRSignals(s)
  \/ ISRAdds
  \/ SysTick_Handler
  \/ PendSV_Handler

Spec == Init /\ [][Next]_vars

(* SysTick is a free running timer and PendSV a pending exception: both are
   taken.  Nothing is assumed of the threads: they may compute for ever. *)
Fairness ==
  /\ WF_vars(SysTick_Handler)
  /\ WF_vars(PendSV_Handler)

FairSpec == Spec /\ Fairness

-----------------------------------------------------------------------------
(* Properties.                                                             *)

(* OS_Wait and OS_Signal keep the count and the list of a semaphore in step:
   a negative Value is the number of threads in its blocked list, otherwise
   the list is empty. *)
CountMatchesList ==
  \A s \in Semaphores :
    Len(blocked[s]) = IF Value[s] < 0 THEN -Value[s] ELSE 0

(* OS_Signal never enters the debug loop that waits for a missing waiter. *)
SignalNeverSpins == machine # "spin"

Occurs(q, t) == \E i \in 1..Len(q) : q[i] = t

OnceIn(q, t) == \E i \in 1..Len(q) : \A j \in 1..Len(q) : q[j] = t <=> j = i

(* Its semaphores are counting semaphores: the kernel implements
   CountingSemaphore, where nobody passes a wait without a unit and a signal
   hands its unit to a waiting thread.  Value counts the units less the
   waiting threads. *)
Semaphore == INSTANCE CountingSemaphore WITH
  units   <- [s \in Semaphores |-> Value[s] + Len(blocked[s])],
  waiting <- [s \in Semaphores |-> ToSet(blocked[s])]

ImplementsSemaphore == Semaphore!Spec

(* A thread that can run or sleeps is once in the ring of its priority, a
   blocked thread once in the list of exactly one semaphore, and a dying or
   dead one nowhere, so neither a ring nor a list holds a TCB that may be
   given to a new thread. *)
Placement ==
  machine # "fault" =>
    \A t \in Threads :
      /\ \A p \in Priorities :
           IF status[t] \in {"ALIVE", "SLEEPING"} /\ p = priority[t]
           THEN OnceIn(ready[p], t) ELSE ~Occurs(ready[p], t)
      /\ IF status[t] = "BLOCKED"
         THEN \E s \in Semaphores :
                /\ OnceIn(blocked[s], t)
                /\ \A r \in Semaphores \ {s} : ~Occurs(blocked[r], t)
         ELSE \A s \in Semaphores : ~Occurs(blocked[s], t)

(* A blocked list is ordered by priority, the waiter of the highest first. *)
WaitersSorted ==
  \A s \in Semaphores : \A i, j \in 1..Len(blocked[s]) :
    i < j => priority[blocked[s][i]] <= priority[blocked[s][j]]

(* The TCB and stack in use are never given away: the running TCB is not
   free until the scheduler has left it, even when an interrupt adds a thread
   between the EndCritical of OS_Kill and the context switch. *)
RunningNotFree == launched /\ currThread # NULL => status[currThread] # "DEAD"

(* A thread that executes program code is ALIVE: no operation lets its
   caller go on while it is blocked, asleep or dying. *)
RunsOnlyAlive == \A t \in Threads : Running(t) => status[t] = "ALIVE"

(* With a thread that never blocks the scheduler always finds a thread. *)
SchedulerFindsThread ==
  IdlePriority \in Priorities => machine # "nothread"

Before(q, t, u) == \E i, j \in 1..Len(q) : i < j /\ q[i] = t /\ q[j] = u

(* A semaphore serves equal priorities in arrival order: two waiters never
   change places, and a newcomer is behind the waiters of its priority. *)
NoOvertaking ==
  [][\A s \in Semaphores : \A t, u \in Threads :
       /\ Occurs(blocked'[s], t)
       /\ Occurs(blocked[s], t)
       /\ Occurs(blocked'[s], u)
       /\ \/ Before(blocked[s], t, u)
          \/ ~Occurs(blocked[s], u) /\ priority[t] = priority[u]
       => Before(blocked'[s], t, u)]_vars

(* A switch gives the processor to an ALIVE thread with no ALIVE thread
   above it. *)
SwitchesToHighest ==
  [][PendSV_Handler /\ currThread' # NULL =>
       /\ status'[currThread'] = "ALIVE"
       /\ \A t \in Threads :
            status'[t] = "ALIVE" => priority[t] >= priority[currThread']]_vars

HigherAlive(t) ==
  \E u \in Threads : status[u] = "ALIVE" /\ priority[u] < priority[t]

(* A thread above the running one gets the processor, however it became
   ALIVE (OS_AddThread and the launch do not ask for a switch). *)
NoLastingInversion ==
  (Up /\ HigherAlive(currThread)) ~> (~Up \/ ~HigherAlive(currThread))

(* Round robin: of the ALIVE threads of the highest priority each runs in
   turn, whatever the others do with semaphores, sleep and new threads. *)
RoundRobin ==
  \A t \in Threads :
    []<>(\/ currThread = t \/ status[t] # "ALIVE" \/ HigherAlive(t) \/ ~Up)

(* A sleeping thread wakes up. *)
SleepersWake == \A t \in Threads : status[t] = "SLEEPING" ~> (status[t] # "SLEEPING" \/ ~Up)

=============================================================================
