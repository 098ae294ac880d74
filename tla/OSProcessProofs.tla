---------------------------- MODULE OSProcessProofs ----------------------------
(***************************************************************************)
(* Theorems about OSProcess, for any number of threads, processes,         *)
(* priorities and semaphores.                                              *)
(*                                                                         *)
(* A system with processes behaves as OSKernel in the variables of the     *)
(* kernel, so that the theorems about OSKernel hold for it.  PInv adds     *)
(* what the PCBs keep: it needs the kernel's invariant, because only an    *)
(* ALIVE thread kills itself and only a dead TCB is given away.            *)
(***************************************************************************)
EXTENDS OSProcess, OSKernelProofs, FiniteSetTheorems

(* The threads that no longer count as members of their process. *)
Gone == {t \in Threads : status[t] \in {"DYING", "DEAD"}}

PInv ==
  /\ pcb \in [Threads -> PCBs \cup {NULL}]
  /\ num_threads \in [PCBs -> Int]
  /\ image \in [PCBs -> {"none", "loaded", "freed", "twice"}]
  /\ revived \subseteq PCBs
  /\ masked \in BOOLEAN
  /\ CountsThreads
  /\ ImageLivesWithThreads

-----------------------------------------------------------------------------
(* Every step is a step of the kernel or leaves its variables alone. *)
LEMMA KernelStep == [ProcessNext]_allvars => [Next]_vars
<1> SUFFICES ASSUME [ProcessNext]_allvars PROVE [Next]_vars
  OBVIOUS
<1>1. CASE Adds(MainAdds) \/ Adds(ISRAdds)
  BY <1>1 DEF Adds, Next
<1>2. ASSUME NEW t \in Threads, NEW p \in Priorities,
             (Running(t) /\ Adds(OS_AddThread(p))) \/ OS_AddProcess(t, p)
      PROVE  Next
  BY <1>2 DEF Adds, OS_AddProcess, Next, ThreadStep
<1>3. ASSUME NEW t \in Threads, OS_Kill(t) \/ OS_Suspend(t) PROVE Next
  BY <1>3 DEF Next, ThreadStep
<1>4. ASSUME NEW t \in Threads, NEW n \in 0..MaxSleep, OS_Sleep(t, n) PROVE Next
  BY <1>4 DEF Next, ThreadStep
<1>5. ASSUME NEW t \in Threads, NEW s \in Semaphores,
             OS_Wait(t, s) \/ (Running(t) /\ OS_Signal(s, TRUE))
      PROVE  Next
  BY <1>5 DEF Next, ThreadStep
<1>6. ASSUME NEW s \in Semaphores, ISRSignals(s) PROVE Next
  BY <1>6 DEF Next
<1>7. CASE OS_Launch \/ SysTick_Handler \/ PendSV_Handler
  BY <1>7 DEF Next
<1>8. ASSUME NEW t \in Threads, AddProcessMasks(t) PROVE UNCHANGED vars
  BY <1>8 DEF AddProcessMasks
<1>9. CASE UNCHANGED allvars
  BY <1>9 DEF allvars
<1>10. QED
  BY <1>1, <1>2, <1>3, <1>4, <1>5, <1>6, <1>7, <1>8, <1>9 DEF ProcessNext

(* PCBs and processes do not change what the kernel does: everything that is
   proved of OSKernel holds with processes, too. *)
THEOREM KernelWithProcesses == ProcessSpec => Spec
<1>1. ProcessInit => Init
  BY DEF ProcessInit
<1>2. QED
  BY <1>1, KernelStep, PTL DEF ProcessSpec, Spec

-----------------------------------------------------------------------------
(* Sets of threads are finite. *)
LEMMA FiniteThreads ==
  ASSUME NEW S \in SUBSET Threads
  PROVE  IsFiniteSet(S) /\ Cardinality(S) \in 0..NUMTHREADS
<1>1. IsFiniteSet(Threads) /\ Cardinality(Threads) = NUMTHREADS
  <2>1. NUMTHREADS \in Nat \ {0}
    BY KernelAssumption DEF KernelAssumption
  <2>2. /\ IsFiniteSet(0..NUMTHREADS - 1)
        /\ Cardinality(0..NUMTHREADS - 1) = NUMTHREADS
    BY <2>1, FS_Interval
  <2>3. QED
    BY <2>2 DEF Threads
<1>2. IsFiniteSet(S) /\ Cardinality(S) <= Cardinality(Threads)
  BY <1>1, FS_Subset
<1>3. Cardinality(S) \in Nat
  BY <1>2, FS_CardinalityType
<1>4. QED
  BY <1>1, <1>2, <1>3, KernelAssumption DEF KernelAssumption

LEMMA PCBNumbers == PCBs \subseteq Nat /\ NULL \notin PCBs
  BY ProcessAssumption DEF ProcessAssumption, PCBs, NULL

LEMMA PInvTypes == PInv => ProcessTypeOK
<1> SUFFICES ASSUME PInv PROVE ProcessTypeOK
  OBVIOUS
<1>1. \A p \in PCBs : num_threads[p] \in 0..NUMTHREADS
  <2> TAKE p \in PCBs
  <2>1. Members(p) \in SUBSET Threads
    BY DEF Members
  <2>2. QED
    BY <2>1, FiniteThreads DEF PInv, CountsThreads
<1>2. QED
  BY <1>1 DEF PInv, ProcessTypeOK

LEMMA PInvInit == ProcessInit => PInv
<1> SUFFICES ASSUME ProcessInit PROVE PInv
  OBVIOUS
<1>1. \A p \in PCBs : Members(p) = {}
  BY DEF ProcessInit, Init, Members
<1>2. CountsThreads
  BY <1>1, FS_EmptySet DEF CountsThreads, ProcessInit
<1>3. ImageLivesWithThreads
  BY <1>1 DEF ImageLivesWithThreads, ProcessInit
<1>4. masked \in BOOLEAN
  BY Zenon DEF ProcessInit
<1>5. QED
  BY <1>2, <1>3, <1>4 DEF PInv, ProcessInit

(* A thread that nobody owns joins process q. *)
LEMMA MemberJoins ==
  ASSUME IInv, PInv, NEW t \in Threads, status[t] = "DEAD",
         NEW q \in PCBs \cup {NULL},
         status' = [status EXCEPT ![t] = "ALIVE"],
         pcb' = [pcb EXCEPT ![t] = q]
  PROVE  \A p \in PCBs :
           IF p = q
           THEN /\ Members(p)' = Members(p) \cup {t}
                /\ Cardinality(Members(p)') = Cardinality(Members(p)) + 1
           ELSE Members(p)' = Members(p)
<1> TAKE p \in PCBs
<1>1. TypeOK /\ t \notin Members(p)
  BY DEF IInv, Members
<1>2. CASE p = q
  <2>1. Members(p)' = Members(p) \cup {t}
    BY <1>1, <1>2 DEF Members, PInv, TypeOK
  <2>2. IsFiniteSet(Members(p))
    <3>1. Members(p) \in SUBSET Threads
      BY DEF Members
    <3>2. QED
      BY <3>1, FiniteThreads
  <2>3. QED
    BY <1>1, <1>2, <2>1, <2>2, FS_AddElement
<1>3. CASE p # q
  BY <1>1, <1>3 DEF Members, PInv, TypeOK
<1>4. QED
  BY <1>2, <1>3

(* The thread that OS_AddThread uses, and the process it is put into. *)
LEMMA AddedThread ==
  ASSUME IInv, PInv, machine = "ok", NEW prio \in Priorities, OS_AddThread(prio)
  PROVE  /\ getNextDeadThread \in Threads
         /\ status[getNextDeadThread] = "DEAD"
         /\ status' = [status EXCEPT ![getNextDeadThread] = "ALIVE"]
         /\ pcb[currThread'] \in PCBs \cup {NULL}
<1>1. getNextDeadThread \in Dead
  <2>1. Dead \in SUBSET Nat /\ Dead # {}
    BY Constants DEF Dead, OS_AddThread
  <2>2. QED
    BY <2>1, LeastLemma DEF getNextDeadThread
<1>2. currThread' \in Threads
  BY <1>1 DEF OS_AddThread, IInv, TypeOK, Dead
<1>3. QED
  BY <1>1, <1>2 DEF OS_AddThread, PInv, Dead

LEMMA JoinStep ==
  ASSUME IInv, PInv, machine = "ok", NEW prio \in Priorities, OS_AddThread(prio),
         Joins(getNextDeadThread, pcb[currThread'])
  PROVE  PInv'
<1> DEFINE t == getNextDeadThread
           q == pcb[currThread']
<1>1. /\ t \in Threads /\ status[t] = "DEAD"
      /\ status' = [status EXCEPT ![t] = "ALIVE"]
      /\ q \in PCBs \cup {NULL}
  BY AddedThread
<1>2. /\ pcb' = [pcb EXCEPT ![t] = q]
      /\ num_threads' = IF q = NULL THEN num_threads
                        ELSE [num_threads EXCEPT ![q] = num_threads[q] + 1]
      /\ revived' = revived \cup ({q} \cap {r \in PCBs : image[r] # "loaded"})
      /\ UNCHANGED <<image, masked>>
  BY DEF Joins, Counted
<1> HIDE DEF t, q
<1>3. \A p \in PCBs : IF p = q
                      THEN /\ Members(p)' = Members(p) \cup {t}
                           /\ Cardinality(Members(p)') = Cardinality(Members(p)) + 1
                      ELSE Members(p)' = Members(p)
  BY <1>1, <1>2, MemberJoins
<1>4. CountsThreads'
  BY <1>1, <1>2, <1>3, PCBNumbers DEF PInv, CountsThreads
<1>5. ImageLivesWithThreads'
  BY <1>1, <1>2, <1>3 DEF PInv, ImageLivesWithThreads
<1>6. masked' \in BOOLEAN
  BY <1>2, Zenon DEF PInv
<1>7. /\ pcb' \in [Threads -> PCBs \cup {NULL}]
      /\ num_threads' \in [PCBs -> Int]
      /\ image' \in [PCBs -> {"none", "loaded", "freed", "twice"}]
      /\ revived' \subseteq PCBs
  BY <1>1, <1>2 DEF PInv
<1>8. QED
  BY <1>4, <1>5, <1>6, <1>7 DEF PInv

LEMMA AddProcessStep ==
  ASSUME IInv, PInv, NEW s \in Threads, NEW prio \in Priorities, OS_AddProcess(s, prio)
  PROVE  PInv'
<1> DEFINE t == getNextDeadThread
           q == Least(FreePCBs)
<1>1. q \in PCBs /\ num_threads[q] = 0
  <2>1. FreePCBs \in SUBSET Nat /\ FreePCBs # {}
    BY PCBNumbers DEF FreePCBs, OS_AddProcess
  <2>2. QED
    BY <2>1, LeastLemma DEF FreePCBs
<1>2. /\ t \in Threads /\ status[t] = "DEAD"
      /\ status' = [status EXCEPT ![t] = "ALIVE"]
  BY AddedThread DEF OS_AddProcess, Running, Executing, Up
<1>3. /\ pcb' = [pcb EXCEPT ![t] = q]
      /\ num_threads' = [num_threads EXCEPT ![q] = num_threads[q] + 1]
      /\ image' = [image EXCEPT ![q] = "loaded"]
      /\ revived' = revived \ {q}
      /\ UNCHANGED masked
  BY DEF OS_AddProcess, Counted
<1> HIDE DEF t, q
<1>4. \A p \in PCBs : IF p = q
                      THEN /\ Members(p)' = Members(p) \cup {t}
                           /\ Cardinality(Members(p)') = Cardinality(Members(p)) + 1
                      ELSE Members(p)' = Members(p)
  BY <1>1, <1>2, <1>3, MemberJoins
<1>5. CountsThreads'
  BY <1>1, <1>3, <1>4 DEF PInv, CountsThreads
<1>6. ImageLivesWithThreads'
  BY <1>1, <1>3, <1>4 DEF PInv, ImageLivesWithThreads
<1>7. QED
  BY <1>1, <1>2, <1>3, <1>5, <1>6 DEF PInv

LEMMA KillLeavesStep ==
  ASSUME IInv, PInv, NEW t \in Threads, OS_Kill(t), Leaves(t)
  PROVE  PInv'
<1> DEFINE q == pcb[t]
<1>1. /\ status[t] = "ALIVE"
      /\ status' = [status EXCEPT ![t] = "DYING"]
      /\ q \in PCBs \cup {NULL}
  BY DEF OS_Kill, KilledStatus, IInv, RunsOnlyAlive, PInv
<1>2. UNCHANGED <<pcb, revived, masked>>
  BY DEF Leaves
<1>3. \A p \in PCBs : Members(p)' = IF p = q THEN Members(p) \ {t} ELSE Members(p)
  BY <1>1, <1>2 DEF Members, IInv, TypeOK
<1>4. CASE q = NULL
  <2>1. UNCHANGED <<num_threads, image>>
    BY <1>4 DEF Leaves
  <2>2. \A p \in PCBs : Members(p)' = Members(p)
    BY <1>3, <1>4, PCBNumbers
  <2>3. CountsThreads' /\ ImageLivesWithThreads'
    BY <1>2, <2>1, <2>2 DEF PInv, CountsThreads, ImageLivesWithThreads
  <2>4. QED
    BY <1>2, <2>1, <2>3 DEF PInv
<1>5. CASE q # NULL
  <2> HIDE DEF q
  <2>1. PICK r \in PCBs : r = pcb[t]
    BY <1>1, <1>5 DEF q
  <2>2. t \in Members(r)
    BY <1>1, <2>1 DEF Members
  <2>3. /\ num_threads' = [num_threads EXCEPT ![r] = num_threads[r] - 1]
        /\ image' = IF num_threads'[r] = 0
                    THEN [image EXCEPT ![r] = IF image[r] = "loaded" THEN "freed" ELSE "twice"]
                    ELSE image
    BY <1>5, <2>1 DEF q, Leaves, FreedWithLast
  <2>4. \A p \in PCBs : Members(p)' = IF p = r THEN Members(p) \ {t} ELSE Members(p)
    BY <1>3, <2>1 DEF q
  <2>5. /\ IsFiniteSet(Members(r)) /\ IsFiniteSet(Members(r)')
        /\ Cardinality(Members(r)') = Cardinality(Members(r)) - 1
    <3>1. Members(r) \in SUBSET Threads
      BY DEF Members
    <3>2. IsFiniteSet(Members(r))
      BY <3>1, FiniteThreads
    <3>3. QED
      BY <2>4, <2>2, <3>2, FS_RemoveElement
  <2>6. CountsThreads'
    BY <2>4, <2>3, <2>5 DEF PInv, CountsThreads
  <2>7. num_threads'[r] = 0 <=> Members(r)' = {}
    BY <2>2, <2>5, <2>6, FS_EmptySet DEF CountsThreads
  <2>8. ImageLivesWithThreads'
    BY <1>2, <2>4, <2>2, <2>3, <2>7 DEF PInv, ImageLivesWithThreads
  <2>9. QED
    BY <1>2, <2>2, <2>3, <2>6, <2>8 DEF PInv
<1>6. QED
  BY <1>4, <1>5

(* No other operation makes or unmakes a member: threads block, sleep and wake,
   and a dying one dies. *)
LEMMA SameGone ==
  ASSUME IInv,
         \/ OS_Launch \/ SysTick_Handler \/ PendSV_Handler
         \/ \E s \in Semaphores : ISRSignals(s)
         \/ \E t \in Threads :
              \/ OS_Suspend(t)
              \/ \E n \in 0..MaxSleep : OS_Sleep(t, n)
              \/ \E s \in Semaphores : OS_Wait(t, s) \/ (Running(t) /\ OS_Signal(s, TRUE))
  PROVE  Gone' = Gone
<1>1. CASE OS_Launch
  BY <1>1 DEF OS_Launch, Gone
<1>2. CASE SysTick_Handler
  BY <1>2 DEF SysTick_Handler, Gone
<1>3. CASE PendSV_Handler
  BY <1>3 DEF PendSV_Handler, Scheduler, Gone, IInv, TypeOK
<1>4. ASSUME NEW t \in Threads, OS_Suspend(t) PROVE Gone' = Gone
  BY <1>4 DEF OS_Suspend, Gone
<1>5. ASSUME NEW t \in Threads, NEW n \in 0..MaxSleep, OS_Sleep(t, n) PROVE Gone' = Gone
  BY <1>5 DEF OS_Sleep, Gone, IInv, TypeOK, RunsOnlyAlive
<1>6. ASSUME NEW t \in Threads, NEW s \in Semaphores, OS_Wait(t, s) PROVE Gone' = Gone
  BY <1>6 DEF OS_Wait, WaitPasses, WaitBlocks, Gone, IInv, TypeOK, RunsOnlyAlive
<1>7. ASSUME NEW s \in Semaphores, Up, NEW fromThread, OS_Signal(s, fromThread)
      PROVE  Gone' = Gone
  <2>1. CASE Value[s] >= 0 \/ blocked[s] = <<>>
    BY <1>7, <2>1 DEF OS_Signal, SignalPasses, SignalSpins, SignalFaults, SignalWakes, Gone, IInv, TypeOK
  <2>2. CASE Value[s] < 0 /\ blocked[s] # <<>>
    <3>1. status' = [status EXCEPT ![Head(blocked[s])] = "ALIVE"]
      BY <1>7, <2>2 DEF OS_Signal, SignalPasses, SignalFaults, SignalWakes, IInv, TypeOK
    <3>2. Head(blocked[s]) \in Threads /\ status[Head(blocked[s])] = "BLOCKED"
      BY <1>7, <2>2, SignalFindsWaiter DEF IInv, Linked, Lists, Up
    <3>3. QED
      BY <3>1, <3>2 DEF Gone, IInv, TypeOK
  <2>3. QED
    BY <1>7, <2>1, <2>2 DEF IInv, TypeOK
<1>8. QED
  BY <1>1, <1>2, <1>3, <1>4, <1>5, <1>6, <1>7 DEF ISRSignals, Running, Executing, Up

LEMMA SameMembers ==
  ASSUME IInv, PInv, Gone' = Gone, UNCHANGED pvars
  PROVE  PInv'
<1>1. \A p \in PCBs : Members(p)' = Members(p)
  BY DEF Gone, Members, pvars
<1>2. CountsThreads' /\ ImageLivesWithThreads'
  BY <1>1 DEF PInv, CountsThreads, ImageLivesWithThreads, pvars
<1>3. QED
  BY <1>2 DEF PInv, pvars

LEMMA PInvNext == IInv /\ PInv /\ [ProcessNext]_allvars => PInv'
<1> SUFFICES ASSUME IInv, PInv, [ProcessNext]_allvars PROVE PInv'
  OBVIOUS
<1>1. CASE Adds(MainAdds) \/ Adds(ISRAdds)
  <2>1. machine = "ok" /\ \E p \in Priorities : OS_AddThread(p)
    BY <1>1 DEF Adds, MainAdds, ISRAdds, Up, IInv, Control
  <2>2. QED
    BY <1>1, <2>1, JoinStep DEF Adds
<1>2. ASSUME NEW t \in Threads, NEW p \in Priorities, Running(t), Adds(OS_AddThread(p))
      PROVE  PInv'
  BY <1>2, JoinStep DEF Adds, Running, Executing, Up
<1>3. ASSUME NEW t \in Threads, NEW p \in Priorities, OS_AddProcess(t, p) PROVE PInv'
  BY <1>3, AddProcessStep
<1>4. ASSUME NEW t \in Threads, OS_Kill(t), Leaves(t) PROVE PInv'
  BY <1>4, KillLeavesStep
<1>5. ASSUME NEW t \in Threads, AddProcessMasks(t) PROVE PInv'
  <2>1. UNCHANGED <<status, pcb, num_threads, image, revived>> /\ masked' = TRUE
    BY <1>5 DEF AddProcessMasks, vars
  <2>2. \A p \in PCBs : Members(p)' = Members(p)
    BY <2>1 DEF Members
  <2>3. QED
    BY <2>1, <2>2 DEF PInv, CountsThreads, ImageLivesWithThreads
<1>6. CASE UNCHANGED allvars
  <2>1. Gone' = Gone /\ UNCHANGED pvars
    BY <1>6 DEF allvars, vars, Gone
  <2>2. QED
    BY <2>1, SameMembers
<1>7. ASSUME UNCHANGED pvars,
             \/ OS_Launch \/ SysTick_Handler \/ PendSV_Handler
             \/ \E s \in Semaphores : ISRSignals(s)
             \/ \E t \in Threads :
                  \/ OS_Suspend(t)
                  \/ \E n \in 0..MaxSleep : OS_Sleep(t, n)
                  \/ \E s \in Semaphores : OS_Wait(t, s) \/ (Running(t) /\ OS_Signal(s, TRUE))
      PROVE  PInv'
  <2>1. Gone' = Gone
    BY <1>7, SameGone
  <2>2. QED
    BY <1>7, <2>1, SameMembers
<1>8. QED
  BY <1>1, <1>2, <1>3, <1>4, <1>5, <1>6, <1>7 DEF ProcessNext

LEMMA ProcessInvariance == ProcessSpec => []PInv
  BY KernelWithProcesses, Invariance, PInvInit, PInvNext, PTL DEF ProcessSpec

-----------------------------------------------------------------------------
(* The variables of the processes keep their types: a count of threads is never
   negative and never exceeds the TCBs. *)
THEOREM ProcessTypesCorrect == ProcessSpec => []ProcessTypeOK
  BY ProcessInvariance, PInvTypes, PTL

(* OS_AddThread and OS_Kill keep num_threads equal to the number of threads of the
   process that are neither dying nor dead. *)
THEOREM ThreadsCounted == ProcessSpec => []CountsThreads
  BY ProcessInvariance, PTL DEF PInv

(* OS_Kill frees text and data once, with the last thread, and not before. *)
THEOREM ImagesLive == ProcessSpec => []ImageLivesWithThreads
  BY ProcessInvariance, PTL DEF PInv

(* Every TCB is in the ring or list its status says, with processes, too. *)
THEOREM ProcessThreadsPlaced == ProcessSpec => []Placement
  BY KernelWithProcesses, ThreadsPlaced, PTL
=============================================================================
