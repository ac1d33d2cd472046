---------------------------- MODULE MCObjectWrites ----------------------------
(* Instances of ObjectWrites for TLC. *)
EXTENDS ObjectWrites, TLC

Symmetry == Permutations(Requests)
=============================================================================
