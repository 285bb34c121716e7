---------------------------- MODULE MCSyncSession ----------------------------
(***************************************************************************)
(* Instances of SyncSession for TLC.                                       *)
(***************************************************************************)
EXTENDS SyncSession

=============================================================================
