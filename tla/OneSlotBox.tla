------------------------------ MODULE OneSlotBox ------------------------------
(***************************************************************************)
(* What OS_MailBox_Send and OS_MailBox_Recv promise (RTOS_Labs_common/     *)
(* OS.c): one slot.  Mail enters an empty slot only, and is taken out by   *)
(* exactly one receiver.                                                   *)
(***************************************************************************)
CONSTANTS Threads, Mails, Empty

VARIABLES slot,       (* the mail in the box, or Empty             *)
          received    (* the mail each thread received last        *)

vars == <<slot, received>>

Init == /\ slot = Empty
        /\ received = [t \in Threads |-> Empty]

Deposit(m) == /\ slot = Empty
              /\ slot' = m
              /\ UNCHANGED received

Collect(t) == /\ slot # Empty
              /\ received' = [received EXCEPT ![t] = slot]
              /\ slot' = Empty

Next == (\E m \in Mails : Deposit(m)) \/ (\E t \in Threads : Collect(t))

Spec == Init /\ [][Next]_vars
=============================================================================
