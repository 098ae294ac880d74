----------------------------- MODULE MCOSMailBox -----------------------------
(* OSMailBox on small instances. *)
EXTENDS OSMailBox
=============================================================================
