----------------------------- MODULE MCDownloads -----------------------------
(* Instances of Downloads for TLC. *)
EXTENDS Downloads, TLC
=============================================================================
