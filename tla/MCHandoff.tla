------------------------------ MODULE MCHandoff ------------------------------
(* Instances of Handoff for TLC. *)
EXTENDS Handoff, TLC
=============================================================================
