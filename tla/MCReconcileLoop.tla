-------------------------- MODULE MCReconcileLoop --------------------------
(***************************************************************************)
(* Every input of reconcile() over two ids, two authority times, two       *)
(* server times and pulls of up to two records.                            *)
(***************************************************************************)
EXTENDS ReconcileLoop, TLC

Symmetry == Permutations(Ids)

=============================================================================
