------------------------------ MODULE LossyQueue ------------------------------
(***************************************************************************)
(* What OS_Fifo_Put and OS_Fifo_Get promise (RTOS_Labs_common/OS.c): a     *)
(* first-in first-out queue of at most Capacity elements.  A put into a    *)
(* full queue is refused and counted, every other element is delivered     *)
(* once and in order.                                                      *)
(***************************************************************************)
EXTENDS Naturals, Sequences

CONSTANTS Data, Capacity

VARIABLES queue,   (* saved and not yet delivered       *)
          lost,    (* number of refused elements        *)
          got      (* the element delivered last        *)

vars == <<queue, lost, got>>

Init == /\ queue = <<>>
        /\ lost = 0
        /\ got \notin Data

Save(d) == /\ Len(queue) < Capacity
           /\ queue' = Append(queue, d)
           /\ UNCHANGED <<lost, got>>

Refuse == /\ Len(queue) = Capacity
          /\ lost' = lost + 1
          /\ UNCHANGED <<queue, got>>

Deliver == /\ queue # <<>>
           /\ got' = Head(queue)
           /\ queue' = Tail(queue)
           /\ UNCHANGED lost

Next == Refuse \/ Deliver \/ \E d \in Data : Save(d)

Spec == Init /\ [][Next]_vars
=============================================================================
