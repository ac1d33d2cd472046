---------------------------- MODULE MCListingIndex ----------------------------
(* Instances of ListingIndex for TLC. *)
EXTENDS ListingIndex, TLC

Symmetry == Permutations(Requests) \cup Permutations(Keys)
=============================================================================
