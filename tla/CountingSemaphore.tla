--------------------------- MODULE CountingSemaphore ---------------------------
(***************************************************************************)
(* What OS_Wait and OS_Signal promise their callers: every semaphore holds *)
(* some units; a wait takes one or joins the waiting threads; a signal     *)
(* hands its unit to a waiting thread, and adds it only if none waits.     *)
(* A unit is never lost, never given twice, and nobody waits next to one.  *)
(***************************************************************************)
EXTENDS Naturals

CONSTANTS Threads, Semaphores, InitialValue

VARIABLES units, waiting

vars == <<units, waiting>>

Init == /\ units = InitialValue
        /\ waiting = [s \in Semaphores |-> {}]

Take(s) == /\ units[s] > 0
           /\ units' = [units EXCEPT ![s] = @ - 1]
           /\ UNCHANGED waiting

Join(s, t) == /\ units[s] = 0
              /\ \A r \in Semaphores : t \notin waiting[r]
              /\ waiting' = [waiting EXCEPT ![s] = @ \cup {t}]
              /\ UNCHANGED units

HandOver(s, t) == /\ t \in waiting[s]
                  /\ waiting' = [waiting EXCEPT ![s] = @ \ {t}]
                  /\ UNCHANGED units

Release(s) == /\ waiting[s] = {}
              /\ units' = [units EXCEPT ![s] = @ + 1]
              /\ UNCHANGED waiting

Next == \E s \in Semaphores :
          \/ Take(s)
          \/ Release(s)
          \/ \E t \in Threads : Join(s, t) \/ HandOver(s, t)

Spec == Init /\ [][Next]_vars
=============================================================================
