---------------------------- MODULE MCBackground ----------------------------
(***************************************************************************)
(* Instances of Background for TLC.                                        *)
(***************************************************************************)
EXTENDS Background, TLC

Symmetry == Permutations(Handlers)

=============================================================================
