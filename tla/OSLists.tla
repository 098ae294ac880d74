-------------------------------- MODULE OSLists --------------------------------
(***************************************************************************)
(* The linked lists of RTOS_Labs_common/OS.c.  Every TCB has one next and  *)
(* one prev pointer.  While the thread is ready or asleep they link it     *)
(* into the circular ring of its priority, while it is blocked into the    *)
(* NULL-terminated list of a semaphore.  The operations that move a TCB    *)
(* are written here pointer by pointer; those that leave the pointers      *)
(* alone are the actions of OSKernel.  The module is checked to implement  *)
(* OSKernel, where rings and lists are sequences.                          *)
(***************************************************************************)
EXTENDS Integers, Sequences

CONSTANTS NUMTHREADS, MAX_PRIORITY_PLUS_ONE, IdlePriority, Semaphores,
          InitialValue, MaxValue, MaxSleep, NullStore

VARIABLES
  status, sleep, priority, currThread, Value, pendSV, atSuspend, launched,
  machine,             (* as in OSKernel                                    *)
  next, prev,          (* TCB_array[t].next and .prev                       *)
  TCB_priority_array,  (* the head of the ring of each priority, or NULL    *)
  blocked              (* the head of the blocked list of each semaphore    *)

links == <<next, prev, TCB_priority_array, blocked>>
vars  == <<status, sleep, priority, currThread, Value, pendSV, atSuspend,
           launched, machine, links>>

NULL       == -1
Threads    == 0..NUMTHREADS - 1
Priorities == 0..MAX_PRIORITY_PLUS_ONE - 1

-----------------------------------------------------------------------------
(* Walks along the next pointers, at most NUMTHREADS steps long.           *)

Least(S) == CHOOSE x \in S : \A y \in S : x <= y

(* The TCBs met from h on: Walk(nx, h)[k] is the one after k steps. *)
Walk(nx, h) ==
  LET w[k \in 0..NUMTHREADS] ==
        IF k = 0 THEN h ELSE IF w[k - 1] = NULL THEN NULL ELSE nx[w[k - 1]]
  IN  w

Ring(h) ==
  IF h = NULL THEN <<>>
  ELSE LET w == Walk(next, h)
           n == Least({k \in 1..NUMTHREADS : w[k] = h})
       IN  [i \in 1..n |-> w[i - 1]]

List(h) ==
  LET w == Walk(next, h)
      n == Least({k \in 0..NUMTHREADS : w[k] = NULL})
  IN  [i \in 1..n |-> w[i - 1]]

Kernel == INSTANCE OSKernel WITH
  ready   <- [p \in Priorities |-> Ring(TCB_priority_array[p])],
  blocked <- [s \in Semaphores |-> List(blocked[s])]

ASSUME ListsAssumption == Kernel!KernelAssumption

-----------------------------------------------------------------------------
(* addThreadPriority and removeThreadPriority, on the pointers as a record *)
(* m = [next, prev, head]: OS_Wait and OS_Signal go on from their result.  *)

Pointers == [next |-> next, prev |-> prev, head |-> TCB_priority_array]

(* The do-while loop of addThreadPriority: the first TCB after at least one
   step whose successor is the head. *)
RingTail(nx, h) ==
  LET w == Walk(nx, h) IN w[Least({k \in 1..NUMTHREADS : nx[w[k]] = h})]

AddKeepingHeadPrev(m, t, p) ==
  LET h == m.head[p] IN
  IF h = NULL
  THEN [next |-> [m.next EXCEPT ![t] = t],
        prev |-> [m.prev EXCEPT ![t] = t],
        head |-> [m.head EXCEPT ![p] = t]]
  ELSE LET last == RingTail(m.next, h) IN
       [m EXCEPT !.next = [@ EXCEPT ![last] = t, ![t] = h],
                 !.prev = [@ EXCEPT ![t] = last]]

addThreadPriority(m, t, p) ==
  LET h == m.head[p] IN
  IF h = NULL
  THEN [next |-> [m.next EXCEPT ![t] = t],
        prev |-> [m.prev EXCEPT ![t] = t],
        head |-> [m.head EXCEPT ![p] = t]]
  ELSE LET last == RingTail(m.next, h) IN
       [m EXCEPT !.next = [@ EXCEPT ![last] = t, ![t] = h],
                 !.prev = [@ EXCEPT ![t] = last, ![h] = t]]

(* The only TCB of a ring keeps pointing at itself. *)
removeThreadPriority(m, t, p) ==
  IF m.next[t] = t THEN [m EXCEPT !.head[p] = NULL]
  ELSE [next |-> [m.next EXCEPT ![m.prev[t]] = m.next[t], ![t] = NULL],
        prev |-> [m.prev EXCEPT ![m.next[t]] = m.prev[t], ![t] = NULL],
        head |-> IF m.head[p] = t THEN [m.head EXCEPT ![p] = m.next[t]] ELSE m.head]

SetPointers(m) ==
  /\ next' = m.next
  /\ prev' = m.prev
  /\ TCB_priority_array' = m.head

-----------------------------------------------------------------------------
Init ==
  /\ next = [t \in Threads |-> NULL]
  /\ prev = [t \in Threads |-> NULL]
  /\ TCB_priority_array = [p \in Priorities |-> NULL]
  /\ blocked = [s \in Semaphores |-> NULL]
  /\ Kernel!Init

OS_AddThread(p) ==
  /\ Kernel!Dead # {}
  /\ LET t == Kernel!getNextDeadThread IN
       /\ status' = [status EXCEPT ![t] = "ALIVE"]
       /\ priority' = [priority EXCEPT ![t] = p]
       /\ currThread' = IF currThread = NULL THEN t ELSE currThread
       /\ atSuspend' = atSuspend \ {t}
       /\ SetPointers(addThreadPriority(Pointers, t, p))
  /\ UNCHANGED <<blocked, sleep, Value, pendSV, launched, machine>>

MainAdds == /\ ~launched
            /\ \E p \in Priorities : OS_AddThread(p)
            /\ Kernel!Dead' # {} \/ Kernel!HasIdle'

(* OS_Wait takes the TCB out of its ring and links it into the list. *)
LinkAlone(m, t) ==
  /\ next' = [m.next EXCEPT ![t] = NULL]
  /\ prev' = [m.prev EXCEPT ![t] = NULL]

LinkFirst(m, h, t) ==
  /\ next' = [m.next EXCEPT ![t] = h]
  /\ prev' = [m.prev EXCEPT ![h] = t, ![t] = NULL]

LinkAfter(m, temp, t) ==
  LET save == m.next[temp] IN
  /\ next' = [m.next EXCEPT ![temp] = t, ![t] = save]
  /\ prev' = IF save = NULL THEN [m.prev EXCEPT ![t] = temp]
             ELSE [m.prev EXCEPT ![t] = temp, ![save] = t]

LastOfList(m, h, p) ==
  LET w == Walk(m.next, h)
  IN  w[Least({k \in 0..NUMTHREADS - 1 : w[k] # NULL /\ m.next[w[k]] = NULL})]

(* The TCB after which the loop of OS_Wait inserts a thread of priority p:
   the first of no lower priority whose successor is of a lower one, or the
   last of the list. *)
InsertionPoint(m, h, p) ==
  LET w == Walk(m.next, h)
      stops == {k \in 0..NUMTHREADS - 1 :
                  /\ w[k] # NULL
                  /\ \/ m.next[w[k]] = NULL
                     \/ priority[w[k]] <= p /\ priority[m.next[w[k]]] > p}
  IN  w[Least(stops)]

WaitBlocks(t, s) ==
  /\ Kernel!Running(t)
  /\ Kernel!MayBlock(t)
  /\ Kernel!Blocks(s)
  /\ Value' = [Value EXCEPT ![s] = @ - 1]
  /\ status' = [status EXCEPT ![t] = "BLOCKED"]
  /\ LET m == removeThreadPriority(Pointers, t, priority[t])
         h == blocked[s]
     IN  /\ TCB_priority_array' = m.head
         /\ \/ /\ h = NULL
               /\ LinkAlone(m, t)
               /\ blocked' = [blocked EXCEPT ![s] = t]
            \/ /\ h # NULL
               /\ priority[t] < priority[h]
               /\ LinkFirst(m, h, t)
               /\ blocked' = [blocked EXCEPT ![s] = t]
            \/ /\ h # NULL
               /\ priority[t] >= priority[h]
               /\ LinkAfter(m, InsertionPoint(m, h, priority[t]), t)
               /\ UNCHANGED blocked
  /\ atSuspend' = atSuspend \cup {t}
  /\ UNCHANGED <<sleep, priority, currThread, pendSV, launched, machine>>

OS_Kill(t) ==
  /\ Kernel!Running(t)
  /\ Kernel!MayBlock(t)
  /\ status' = [status EXCEPT ![t] = "DYING"]
  /\ SetPointers(removeThreadPriority(Pointers, t, priority[t]))
  /\ atSuspend' = atSuspend \cup {t}
  /\ UNCHANGED <<blocked, sleep, priority, currThread, Value, pendSV, launched, machine>>

(* OS_Signal takes the head of the list. *)
PopHead(s) == blocked' = [blocked EXCEPT ![s] = next[blocked[s]]]

SignalSpins(s) ==
  /\ Value' = [Value EXCEPT ![s] = @ + 1]
  /\ machine' = "spin"
  /\ UNCHANGED <<links, status, sleep, priority, currThread, pendSV,
                 atSuspend, launched>>

SignalFaults(s) ==
  /\ next[blocked[s]] = NULL
  /\ "fault" \in NullStore
  /\ Value' = [Value EXCEPT ![s] = @ + 1]
  /\ status' = [status EXCEPT ![blocked[s]] = "ALIVE"]
  /\ PopHead(s)
  /\ machine' = "fault"
  /\ UNCHANGED <<next, prev, TCB_priority_array, sleep, priority, currThread,
                 pendSV, atSuspend, launched>>

SignalWakes(s, fromThread) ==
  /\ next[blocked[s]] = NULL => "ignored" \in NullStore
  /\ Value' = [Value EXCEPT ![s] = @ + 1]
  /\ PopHead(s)
  /\ LET b == blocked[s]
         second == next[b]
         m == IF second = NULL THEN Pointers ELSE [Pointers EXCEPT !.prev[second] = NULL]
     IN  /\ status' = [status EXCEPT ![b] = "ALIVE"]
         /\ SetPointers(addThreadPriority(m, b, priority[b]))
         /\ IF Kernel!Preempts(priority[b]) THEN Kernel!RequestSwitch(fromThread)
            ELSE UNCHANGED <<pendSV, atSuspend>>
  /\ UNCHANGED <<sleep, priority, currThread, launched, machine>>

OS_Signal(s, fromThread) ==
  /\ Value[s] < MaxValue
  /\ \/ UNCHANGED links /\ Kernel!SignalPasses(s)
     \/ /\ Value[s] < 0
        /\ IF blocked[s] = NULL THEN SignalSpins(s)
           ELSE SignalFaults(s) \/ SignalWakes(s, fromThread)

-----------------------------------------------------------------------------
(* getNextPriorityThreadAndUpdateList: the first ALIVE thread from the head. *)

FirstAlive(p) ==
  LET r == Ring(TCB_priority_array[p])
      found == {k \in 1..Len(r) : status[r[k]] = "ALIVE"}
  IN  IF found = {} THEN NULL ELSE r[Least(found)]

PendSV_Handler ==
  /\ Kernel!Up
  /\ pendSV
  /\ pendSV' = FALSE
  /\ status' = IF status[currThread] = "DYING"
               THEN [status EXCEPT ![currThread] = "DEAD"] ELSE status
  /\ LET runnable == {p \in Priorities : FirstAlive(p) # NULL} IN
     \/ /\ runnable = {}
        /\ currThread' = NULL
        /\ machine' = "nothread"
        /\ UNCHANGED links
     \/ /\ runnable # {}
        /\ LET p == Least(runnable)
               t == FirstAlive(p)
           IN  /\ currThread' = t
               /\ TCB_priority_array' =
                    IF next[t] = t THEN TCB_priority_array
                    ELSE [TCB_priority_array EXCEPT ![p] = next[t]]
        /\ UNCHANGED <<next, prev, blocked, machine>>
  /\ UNCHANGED <<sleep, priority, Value, atSuspend, launched>>

-----------------------------------------------------------------------------
ThreadStep(t) ==
  \/ UNCHANGED links /\ Kernel!OS_Suspend(t)
  \/ \E s \in Semaphores : \/ UNCHANGED links /\ Kernel!WaitPasses(t, s)
                           \/ WaitBlocks(t, s)
  \/ \E s \in Semaphores : Kernel!Running(t) /\ OS_Signal(s, TRUE)
  \/ UNCHANGED links /\ \E n \in 0..MaxSleep : Kernel!OS_Sleep(t, n)
  \/ OS_Kill(t)
  \/ \E p \in Priorities : Kernel!Running(t) /\ OS_AddThread(p)

Next ==
  \/ MainAdds
  \/ UNCHANGED links /\ Kernel!OS_Launch
  \/ \E t \in Threads : ThreadStep(t)
  \/ \E s \in Semaphores : Kernel!Up /\ OS_Signal(s, FALSE)
  \/ Kernel!Up /\ \E p \in Priorities : OS_AddThread(p)
  \/ UNCHANGED links /\ Kernel!SysTick_Handler
  \/ PendSV_Handler

Spec == Init /\ [][Next]_vars

-----------------------------------------------------------------------------
(* Properties.                                                             *)

(* In a ring prev undoes next and every member is ready or asleep; in a
   blocked list prev undoes next, the head has no predecessor.  The code of
   removeThreadPriority and OS_Wait follows prev without checking it. *)
DoublyLinked ==
  machine # "fault" =>
    /\ \A t \in Threads : status[t] \in {"ALIVE", "SLEEPING"} =>
         next[t] # NULL /\ prev[next[t]] = t
    /\ \A t \in Threads : status[t] = "BLOCKED" =>
         IF prev[t] = NULL THEN \E s \in Semaphores : blocked[s] = t
         ELSE next[prev[t]] = t

(* The pointer manipulation implements the rings and lists of OSKernel. *)
ImplementsKernel == Kernel!Spec
=============================================================================
