------------------------------- MODULE MCOSLists -------------------------------
(* OSLists on small instances. *)
EXTENDS OSLists

MCInitialValue == [s \in Semaphores |-> 0]
=============================================================================
