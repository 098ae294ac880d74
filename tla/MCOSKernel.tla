------------------------------ MODULE MCOSKernel ------------------------------
(* OSKernel on small instances. *)
EXTENDS OSKernel

MCInitialValue == [s \in Semaphores |-> 0]
=============================================================================
