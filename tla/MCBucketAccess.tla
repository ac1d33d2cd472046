---------------------------- MODULE MCBucketAccess ----------------------------
(* Instances of BucketAccess for TLC. *)
EXTENDS BucketAccess, TLC

Symmetry == Permutations(Requests)
=============================================================================
