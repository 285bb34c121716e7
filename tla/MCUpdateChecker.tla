--------------------------- MODULE MCUpdateChecker ---------------------------
(***************************************************************************)
(* Instances of UpdateChecker for TLC.                                     *)
(***************************************************************************)
EXTENDS UpdateChecker, TLC

Symmetry == Permutations(Calls)

\* The first two are the same version.
MCReleases == {<<1>>, <<1, 0>>, <<1, 0, 1>>, <<1, 1>>}
MCFirst == <<1>>

=============================================================================
