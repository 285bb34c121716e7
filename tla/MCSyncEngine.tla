---------------------------- MODULE MCSyncEngine ----------------------------
(***************************************************************************)
(* Instances of SyncEngine for TLC.  The ids are interchangeable in the    *)
(* runs whose seed is empty or holds them all.                             *)
(***************************************************************************)
EXTENDS SyncEngine, TLC

Symmetry == Permutations(Ids)

=============================================================================
