------------------------------- MODULE MCCoupons -------------------------------
(***************************************************************************)
(* Instances of Coupons for TLC.                                           *)
(***************************************************************************)
EXTENDS Coupons, TLC

\* No definition tells claims, customers or orders apart.
CouponSymmetry ==
    Permutations(Claims) \cup Permutations(Customers) \cup Permutations(Orders)
=============================================================================
