------------------------------ MODULE MCOSProcess ------------------------------
(* OSProcess on a small instance. *)
EXTENDS OSProcess

MCInitialValue == [s \in Semaphores |-> 0]
=============================================================================
