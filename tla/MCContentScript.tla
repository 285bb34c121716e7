--------------------------- MODULE MCContentScript ---------------------------
(***************************************************************************)
(* Instances of ContentScript for TLC.                                     *)
(***************************************************************************)
EXTENDS ContentScript, TLC

Symmetry == Permutations(Tasks)

=============================================================================
