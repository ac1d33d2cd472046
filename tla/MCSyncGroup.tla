----------------------------- MODULE MCSyncGroup -----------------------------
(* Instances of SyncGroup for TLC. *)
EXTENDS SyncGroup
=============================================================================
