---------------------------- MODULE MCVaultStore ----------------------------
(***************************************************************************)
(* Instances of VaultStore for TLC, with one handler or two.              *)
(***************************************************************************)
EXTENDS VaultStore, TLC

Symmetry == Permutations(Handlers)

=============================================================================
