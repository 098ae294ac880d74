-------------------------------- MODULE MCHeap --------------------------------
(* Heap on a small array.  What programs write looks like the tag of a free *)
(* block.                                                                   *)
EXTENDS Heap

MCData == {-2}
=============================================================================
