------------------------------ MODULE MCLab3Data ------------------------------
(* Lab3Data on small instances. *)
EXTENDS Lab3Data
=============================================================================
