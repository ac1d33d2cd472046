----------------------------- MODULE MCMultipart -----------------------------
(* Instances of Multipart for TLC. *)
EXTENDS Multipart, TLC

Symmetry == Permutations(Requests) \cup Permutations(Contents)
=============================================================================
