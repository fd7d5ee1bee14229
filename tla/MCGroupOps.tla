------------------------------ MODULE MCGroupOps ------------------------------
(***************************************************************************)
(* Small instances of GroupOps for TLC.                                     *)
(***************************************************************************)
EXTENDS GroupOps, TLC

Symmetry == Permutations(Starts) \cup Permutations(Requests) \cup Permutations(Groups)

=============================================================================
