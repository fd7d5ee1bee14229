---------------------------- MODULE MCCommissions ----------------------------
(***************************************************************************)
(* Instances of Commissions for TLC.                                       *)
(***************************************************************************)
EXTENDS Commissions, TLC

\* No definition tells refunds of one order apart.
CommissionSymmetry == Permutations(Refunds)

\* Bound on the backlog: River is not more than this many rechecks behind.
ShortBacklog == Cardinality(Pending) <= 2
=============================================================================
