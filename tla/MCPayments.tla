------------------------------ MODULE MCPayments ------------------------------
(***************************************************************************)
(* Instances of Payments for TLC.                                          *)
(***************************************************************************)
EXTENDS Payments, TLC

\* No definition tells refunds apart.
RefundSymmetry == Permutations(Refunds)
=============================================================================
