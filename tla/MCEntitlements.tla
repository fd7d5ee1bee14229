----------------------------- MODULE MCEntitlements -----------------------------
(***************************************************************************)
(* Instances of Entitlements for TLC.                                      *)
(***************************************************************************)
EXTENDS Entitlements, TLC

\* No definition tells orders apart.
OrderSymmetry == Permutations(Orders)
=============================================================================
