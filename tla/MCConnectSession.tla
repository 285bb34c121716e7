--------------------------- MODULE MCConnectSession ---------------------------
(***************************************************************************)
(* Instances of ConnectSession for TLC.                                    *)
(***************************************************************************)
EXTENDS ConnectSession, TLC

Symmetry == Permutations(Calls) \cup Permutations(Accounts)

=============================================================================
