---------------------------- MODULE MCObjectReads ----------------------------
(* Instances of ObjectReads for TLC. *)
EXTENDS ObjectReads, TLC

Symmetry == Permutations(Requests) \cup Permutations(Keys)
=============================================================================
