--------------------------- MODULE CommissionsProofs ---------------------------
(***************************************************************************)
(* The commission of Commissions for any number of refunds and qualifying   *)
(* purchases, any price, share and rate and any deadline: what its row says  *)
(* about the split and the refunds is true, it is cancelled only for a       *)
(* cause, and the split and the buyer's refunds never draw on the same       *)
(* money.                                                                    *)
(***************************************************************************)
EXTENDS Commissions, FiniteSetTheorems, TLAPS

-----------------------------------------------------------------------------
(* The inductive invariant                                                   *)

RefundRow == [status : {"none", "open", "returned", "completed", "failed", "misread"},
              at : Nat]
CommissionRow == [status : Statuses, hold : HoldReasons, refunded : 0 .. Paid,
                  payable : 0 .. Paid, paid : 0 .. Paid, updatedAt : Nat,
                  rewound : BOOLEAN]
InstructionRow == [state : {"none", "accepted", "settling", "paid", "exception"},
                   amount : 0 .. Paid, known : BOOLEAN, success : BOOLEAN,
                   reserved : 0 .. Paid]
Jobs == [about : Refunds \cup Purchases, at : Nat,
         event : {"opened", "successful", "final_failed"}, discarded : BOOLEAN]
PrepareStates == [at : {"prepare"}, exposure : BOOLEAN,
                  refunded : 0 .. Paid, available : 0 .. Paid]

\* Refunds that Payment counts: done, or on their way.
Leaving == {"open", "returned", "completed"}

InFlight == commission.status \in {"settling", "paid", "exception"}

\* What Payment promised to the buyer and to the distributor was paid to it.
RefundsFit ==
    /\ IsFiniteSet({r \in Refunds : refund[r].status # "none"})
    /\ Sum(Leaving) + instruction.reserved <= Paid

\* Nothing is under way for a commission that is not submitted.
NothingSent ==
    Unsubmitted => /\ instruction = NoInstruction /\ effect = "none" /\ split = "none"
                   /\ unfreeze = "none" /\ commission.paid = 0
                   /\ exceptions = {}
                   /\ due.at \in {"waiting", "prepare"}

\* What the preflight read may be stale, but only by missing refunds.
ReadIsPast == due.at = "prepare" => due.refunded <= SuccessfulRefundMinor

\* The split is final for Payment only when it is final at the Provider, and its
\* reserve stands for as long as it may be paid.
SplitFollows ==
    /\ effect = "none" <=> instruction.state = "none"
    /\ effect \in {"none", "queued"} => split = "none"
    /\ instruction.state = "none" => instruction = NoInstruction
    /\ instruction.state # "none" => instruction.amount > 0
    /\ instruction.state = "paid" <=> instruction.success
    /\ instruction.success => instruction.known /\ split = "success"
    /\ instruction.known /\ ~instruction.success => ~InPlay /\ split # "success"
    /\ InPlay => instruction.reserved = instruction.amount

\* An answer of the due check that is still to be applied is still true.
AnswersAreTrue ==
    /\ due.at \in {"answered", "apply"} => InFlight /\ instruction.state # "none"
    /\ due.at = "answered" /\ due.outcome \in {"success", "closed"} => split = due.outcome
    /\ due.at = "apply" =>
          /\ due.success => due.known /\ split = "success"
          /\ due.known /\ ~due.success => ~InPlay /\ split # "success"

\* A split that exceeds what is owed by now is an open exception already while
\* it is under way.
AmountIsOwed ==
    /\ commission.status = "cancelled" => commission.paid = 0
    /\ commission.status # "cancelled" /\ instruction.amount > commission.payable =>
          "buyer_refund_after_paid" \in exceptions

RevokedForCause == revoked => \E q \in Purchases : purchase[q] = "refunded"

\* Nobody released the rest while the split is in play, or without a row for it.
NotReleased ==
    /\ InPlay => unfreeze = "none"
    /\ release # "none" => unfreeze # "none"

CInv ==
    /\ TypeOK
    /\ RefundsFit /\ SplitFollows /\ NotReleased
    /\ NothingSent /\ ReadIsPast /\ AnswersAreTrue
    /\ AmountIsOwed /\ RevokedForCause
    /\ PaidIsReal /\ CancelledForCause /\ CountsRealRefunds

\* The parts of the type invariant.
LEMMA TypeUnfolds ==
    TypeOK <=>
        /\ clock \in Nat
        /\ refund \in [Refunds -> RefundRow]
        /\ purchase \in [Purchases -> {"paid", "kept", "refunding", "refunded"}]
        /\ commission \in CommissionRow
        /\ exceptions \subseteq ExceptionKinds
        /\ revoked \in BOOLEAN
        /\ instruction \in InstructionRow
        /\ effect \in {"none", "queued", "sent", "done"}
        /\ split \in {"none", "pending", "success", "closed"}
        /\ unfreeze \in {"none", "accepted", "succeeded"}
        /\ release \in {"none", "queued", "finished", "rejected"}
        /\ due \in DueStates
        /\ rechecks \subseteq Jobs
BY DEF TypeOK, RefundRow, CommissionRow, InstructionRow, Jobs

\* The same after a step.
LEMMA TypeUnfoldsNext ==
    TypeOK' <=>
        /\ clock' \in Nat
        /\ refund' \in [Refunds -> RefundRow]
        /\ purchase' \in [Purchases -> {"paid", "kept", "refunding", "refunded"}]
        /\ commission' \in CommissionRow
        /\ exceptions' \subseteq ExceptionKinds
        /\ revoked' \in BOOLEAN
        /\ instruction' \in InstructionRow
        /\ effect' \in {"none", "queued", "sent", "done"}
        /\ split' \in {"none", "pending", "success", "closed"}
        /\ unfreeze' \in {"none", "accepted", "succeeded"}
        /\ release' \in {"none", "queued", "finished", "rejected"}
        /\ due' \in DueStates
        /\ rechecks' \subseteq Jobs
BY DEF TypeOK, RefundRow, CommissionRow, InstructionRow, Jobs

-----------------------------------------------------------------------------
(* Commission amounts                                                        *)

\* Nothing is an amount.
LEMMA ZeroIsAmount == 0 \in 0 .. Paid
BY CommissionConstants

\* A commission is never more than what it is a share of.
LEMMA CalculateBounds ==
    ASSUME NEW x \in Nat
    PROVE  CalculateCommission(x) \in Nat /\ CalculateCommission(x) <= x
<1> DEFINE n == x * Rate
           z == n \div 10000
<1>1. Rate \in Nat /\ Rate <= 3000
  BY CommissionConstants
<1>2. n \in Nat /\ n <= x * 10000
  BY <1>1
<1> HIDE DEF n
<1>3. z \in Nat /\ z <= x
  BY <1>2
<1> QED BY <1>3 DEF CalculateCommission, n

\* So the commission on what refunds have left is an amount.
LEMMA CalculateType ==
    ASSUME NEW x \in 0 .. Paid
    PROVE  CalculateCommission(Paid - x) \in 0 .. Paid
<1>1. Paid \in Nat /\ Paid - x \in Nat /\ Paid - x <= Paid
  BY CommissionConstants
<1> DEFINE y == Paid - x
<1>2. CalculateCommission(y) \in Nat /\ CalculateCommission(y) <= y
  BY <1>1, CalculateBounds
<1> QED BY <1>1, <1>2

\* Once nothing is owed, further refunds change nothing.
LEMMA CalculateStaysZero ==
    ASSUME NEW x \in Nat, NEW y \in Nat, x <= y, CalculateCommission(y) = 0
    PROVE  CalculateCommission(x) = 0
<1> DEFINE n == x * Rate
           m == y * Rate
<1>1. Rate \in Nat
  BY CommissionConstants
<1>2. n \in Nat /\ m \in Nat
  BY <1>1
<1>3. n <= m
  BY <1>1
<1>4. m \div 10000 = 0
  BY DEF CalculateCommission
<1> HIDE DEF n, m
<1>5. n \div 10000 = 0
  BY <1>2, <1>3, <1>4
<1> QED BY <1>5 DEF CalculateCommission, n

-----------------------------------------------------------------------------
(* Sums of refunds                                                           *)

With(statuses) == {r \in Refunds : refund[r].status \in statuses}

\* Refunds of equal shares add up by counting.
LEMMA Shares ==
    ASSUME NEW n \in Nat
    PROVE  /\ Share * n \in Nat
           /\ Share * (n + 1) = Share * n + Share
           /\ Share * n = 0 => n = 0
BY CommissionConstants

\* More refunds return more.
LEMMA SharesGrow ==
    ASSUME NEW n \in Nat, NEW m \in Nat, n <= m
    PROVE  Share * n <= Share * m
BY CommissionConstants

\* Only finitely many refunds were ever opened.
LEMMA WithIsFinite ==
    ASSUME RefundsFit, NEW statuses, "none" \notin statuses
    PROVE  IsFiniteSet(With(statuses)) /\ Cardinality(With(statuses)) \in Nat
<1>1. With(statuses) \subseteq {r \in Refunds : refund[r].status # "none"}
  BY DEF With
<1>2. IsFiniteSet(With(statuses))
  BY <1>1, FS_Subset DEF RefundsFit
<1> QED BY <1>2, FS_CardinalityType

\* Their sum is a natural number.
LEMMA SumIsNat ==
    ASSUME RefundsFit, NEW statuses, "none" \notin statuses
    PROVE  Sum(statuses) \in Nat
<1>1. Sum(statuses) = Share * Cardinality(With(statuses))
  BY DEF Sum, With
<1> QED BY <1>1, WithIsFinite, Shares

\* What has returned is part of what is leaving.
LEMMA CompletedIsPart ==
    ASSUME RefundsFit
    PROVE  SuccessfulRefundMinor \in Nat /\ SuccessfulRefundMinor <= Sum(Leaving)
<1> DEFINE n == Cardinality(With({"completed"}))
           m == Cardinality(With(Leaving))
<1>1. n \in Nat /\ m \in Nat /\ IsFiniteSet(With(Leaving))
  BY WithIsFinite DEF Leaving
<1>2. With({"completed"}) \subseteq With(Leaving)
  BY DEF With, Leaving
<1>3. n <= m
  BY <1>1, <1>2, FS_Subset
<1>4. SuccessfulRefundMinor = Share * n /\ Sum(Leaving) = Share * m
  BY DEF SuccessfulRefundMinor, Sum, With
<1> HIDE DEF n, m
<1> QED BY <1>1, <1>3, <1>4, Shares, SharesGrow

\* Neither is more than what was paid.
LEMMA RefundedFits ==
    ASSUME TypeOK, RefundsFit
    PROVE  /\ SuccessfulRefundMinor \in 0 .. Paid
           /\ Sum(Leaving) \in 0 .. Paid
           /\ Available \in 0 .. Paid
<1>1. Sum(Leaving) \in Nat /\ SuccessfulRefundMinor \in Nat
      /\ SuccessfulRefundMinor <= Sum(Leaving)
  BY CompletedIsPart, SumIsNat DEF Leaving
<1>2. instruction.reserved \in 0 .. Paid /\ Paid \in Nat
  BY CommissionConstants, TypeUnfolds DEF InstructionRow
<1> QED BY <1>1, <1>2 DEF RefundsFit, Available

\* The same after a step.
LEMMA RefundedFitsNext ==
    (TypeOK /\ RefundsFit)' => (SuccessfulRefundMinor \in 0 .. Paid)'
<1>1. TypeOK /\ RefundsFit => SuccessfulRefundMinor \in 0 .. Paid
  BY RefundedFits
<1> QED BY <1>1, PTL

\* Without a refund under way, what leaves is what has left.
LEMMA NoExposure ==
    ASSUME RefundsFit, ~RefundExposure
    PROVE  With(Leaving) = With({"completed"}) /\ Sum(Leaving) = SuccessfulRefundMinor
<1> DEFINE S == With({"open", "returned"})
           n == Cardinality(S)
<1>1. IsFiniteSet(S) /\ n \in Nat
  BY WithIsFinite
<1>2. Sum({"open", "returned"}) = Share * n
  BY DEF Sum, With
<1>3. Share * n \in Nat /\ ~(Share * n > 0)
  BY <1>1, <1>2, Shares DEF RefundExposure
<1>4. n = 0
  <2> HIDE DEF n
  <2>1. Share * n = 0
    BY <1>3
  <2> QED BY <1>1, <2>1, Shares
<1>5. S = {}
  BY <1>1, <1>4, FS_EmptySet
<1>6. With(Leaving) = With({"completed"})
  BY <1>5 DEF With, Leaving
<1> QED BY <1>6 DEF Sum, With, SuccessfulRefundMinor

-----------------------------------------------------------------------------
(* Refunds of the buyer and of the purchases                                 *)

\* What a refund leaves in River is a job.
LEMMA RecheckIsJob ==
    ASSUME NEW x \in Refunds \cup Purchases, NEW t \in Nat,
           NEW e \in {"opened", "successful", "final_failed"}
    PROVE  Recheck(x, e, t) \in Jobs
BY DEF Recheck, Jobs

\* A refund's status changes; the sums follow the sets of refunds.
LEMMA RefundChanges ==
    ASSUME CInv, NEW r \in Refunds, NEW row \in RefundRow,
           refund' = [refund EXCEPT ![r] = row], row.status # "none",
           refund[r].status # "completed", UNCHANGED instruction,
           \/ refund[r].status \in Leaving
           \/ /\ ~RefundExposure
              /\ SuccessfulRefundMinor + instruction.reserved + Share <= Paid
           \/ row.status \notin Leaving
    PROVE  /\ refund' \in [Refunds -> RefundRow]
           /\ RefundsFit'
           /\ SuccessfulRefundMinor' >= SuccessfulRefundMinor
<1> DEFINE S(T) == {x \in Refunds : refund'[x].status \in T}
           n == Cardinality(With({"completed"}))
           m == Cardinality(With(Leaving))
           k == Cardinality(S({"completed"}))
           l == Cardinality(S(Leaving))
<1>1. RefundsFit /\ refund \in [Refunds -> RefundRow] /\ instruction \in InstructionRow
  BY TypeUnfolds DEF CInv
<1>2. /\ refund' \in [Refunds -> RefundRow] /\ refund'[r] = row
      /\ \A x \in Refunds : x # r => refund'[x] = refund[x]
  BY <1>1
<1>3. IsFiniteSet({x \in Refunds : refund'[x].status # "none"})
  <2>1. {x \in Refunds : refund'[x].status # "none"} \subseteq
            {x \in Refunds : refund[x].status # "none"} \cup {r}
    BY <1>2
  <2>2. IsFiniteSet({x \in Refunds : refund[x].status # "none"} \cup {r})
    BY <1>1, FS_AddElement DEF RefundsFit
  <2> QED BY <2>1, <2>2, FS_Subset
<1>4. /\ IsFiniteSet(With({"completed"})) /\ n \in Nat
      /\ IsFiniteSet(With(Leaving)) /\ m \in Nat
  BY <1>1, WithIsFinite DEF Leaving
<1>5. /\ SuccessfulRefundMinor = Share * n /\ Sum(Leaving) = Share * m
      /\ SuccessfulRefundMinor' = Share * k /\ Sum(Leaving)' = Share * l
  BY DEF SuccessfulRefundMinor, Sum, With
<1>6. k \in Nat /\ n <= k
  <2>1. With({"completed"}) \subseteq S({"completed"})
    BY <1>2 DEF With
  <2>2. S({"completed"}) \subseteq With({"completed"}) \cup {r}
    BY <1>2 DEF With
  <2>3. IsFiniteSet(S({"completed"}))
    BY <1>4, <2>2, FS_AddElement, FS_Subset
  <2> QED BY <2>1, <2>3, FS_Subset, FS_CardinalityType
<1>7. instruction.reserved \in Nat /\ Paid \in Nat /\ Share \in Nat
  BY <1>1, CommissionConstants DEF InstructionRow
<1>8. Share * l + instruction.reserved <= Paid
  <2>1. CASE refund[r].status \in Leaving \/ row.status \notin Leaving
    <3>1. S(Leaving) \subseteq With(Leaving)
      BY <1>2, <2>1 DEF With
    <3>2. l \in Nat /\ l <= m
      BY <1>4, <3>1, FS_Subset, FS_CardinalityType
    <3> HIDE DEF l, m
    <3>3. Share * l \in Nat /\ Share * m \in Nat /\ Share * l <= Share * m
      BY <1>4, <3>2, Shares, SharesGrow
    <3>4. Share * m + instruction.reserved <= Paid
      BY <1>1, <1>5 DEF RefundsFit
    <3> QED BY <1>7, <3>3, <3>4
  <2>2. CASE /\ refund[r].status \notin Leaving /\ row.status \in Leaving /\ ~RefundExposure
             /\ SuccessfulRefundMinor + instruction.reserved + Share <= Paid
    <3>1. Share * m = SuccessfulRefundMinor
      BY <1>1, <1>5, <2>2, NoExposure
    <3>2. S(Leaving) = With(Leaving) \cup {r} /\ r \notin With(Leaving)
      BY <1>2, <2>2 DEF With
    <3>3. l = m + 1
      BY <1>4, <3>2, FS_AddElement
    <3> HIDE DEF l, m
    <3>4. Share * l = Share * m + Share /\ Share * m \in Nat
      BY <1>4, <3>3, Shares
    <3> QED BY <1>7, <2>2, <3>1, <3>4
  <2> QED BY <2>1, <2>2
<1>9. RefundsFit'
  BY <1>3, <1>5, <1>8 DEF RefundsFit
<1>10. Share * k >= Share * n
  <2> HIDE DEF k, n
  <2>1. Share * k \in Nat /\ Share * n \in Nat /\ Share * n <= Share * k
    BY <1>4, <1>6, Shares, SharesGrow
  <2> QED BY <2>1
<1> QED BY <1>2, <1>5, <1>9, <1>10

\* More refunds, with everything else as it was, keep the invariant.
LEMMA RefundsGrow ==
    ASSUME CInv, refund' \in [Refunds -> RefundRow], RefundsFit',
           SuccessfulRefundMinor' >= SuccessfulRefundMinor, rechecks' \subseteq Jobs,
           UNCHANGED <<clock, purchase, books, splits, unfreezing, due>>
    PROVE  CInv'
<1>1. TypeOK /\ TypeOK'
  BY TypeUnfolds, TypeUnfoldsNext DEF CInv, books, splits, unfreezing
<1>2. /\ SuccessfulRefundMinor \in 0 .. Paid /\ SuccessfulRefundMinor' \in 0 .. Paid
  BY <1>1, RefundedFits, RefundedFitsNext DEF CInv
<1>3. Paid \in Nat /\ commission \in CommissionRow
  BY <1>1, CommissionConstants, TypeUnfolds
<1>4. SplitFollows' /\ NotReleased' /\ NothingSent' /\ AnswersAreTrue'
      /\ AmountIsOwed' /\ RevokedForCause' /\ PaidIsReal'
  BY DEF CInv, books, splits, unfreezing, SplitFollows, NotReleased, InPlay, NothingSent,
         Unsubmitted, AnswersAreTrue, InFlight, AmountIsOwed, RevokedForCause, PaidIsReal
<1>5. ReadIsPast'
  <2>1. due.at = "prepare" => due.refunded \in 0 .. Paid
    BY <1>1 DEF TypeOK, DueStates, Waiting, Done
  <2> QED BY <1>2, <2>1 DEF CInv, ReadIsPast
<1>6. CancelledForCause'
  <2> DEFINE x == Paid - SuccessfulRefundMinor
             y == Paid - SuccessfulRefundMinor'
  <2>1. x \in Nat /\ y \in Nat /\ y <= x
    <3>1. \A a, b \in 0 .. Paid : b >= a =>
              Paid - a \in Nat /\ Paid - b \in Nat /\ Paid - b <= Paid - a
      BY <1>3
    <3> QED BY <1>2, <3>1
  <2> HIDE DEF x, y
  <2>2. CalculateCommission(x) = 0 => CalculateCommission(y) = 0
    BY <2>1, CalculateStaysZero
  <2>3. (CalculateCommission(Paid - SuccessfulRefundMinor) = 0)' <=> CalculateCommission(y) = 0
    BY DEF y, CalculateCommission
  <2> QED BY <2>2, <2>3 DEF CInv, CancelledForCause, books, splits, InPlay, x
<1>7. CountsRealRefunds'
  <2>1. commission.refunded \in 0 .. Paid
    BY <1>3 DEF CommissionRow
  <2> QED BY <1>2, <2>1 DEF CInv, CountsRealRefunds, books, CalculateCommission
<1> QED BY <1>1, <1>4, <1>5, <1>6, <1>7 DEF CInv

\* A buyer's refund is requested, performed, booked or fails.
LEMMA RefundStepsCInv ==
    ASSUME CInv, NEW r \in Refunds,
           RequestRefund(r) \/ ProviderRefunds(r) \/ BookRefund(r) \/ FailRefund(r)
    PROVE  CInv'
<1>1. /\ refund \in [Refunds -> RefundRow] /\ refund[r] \in RefundRow /\ clock \in Nat
      /\ rechecks \subseteq Jobs
  BY TypeUnfolds DEF CInv
<1>2. /\ UNCHANGED <<clock, purchase, books, splits, unfreezing, due>>
      /\ rechecks' \subseteq Jobs
  <2>1. refund[r].at \in Nat
    BY <1>1 DEF RefundRow
  <2>2. \E e \in {"opened", "successful", "final_failed"}, t \in Nat :
            rechecks' \subseteq rechecks \cup {Recheck(r, e, t)}
    BY <1>1, <2>1 DEF RequestRefund, ProviderRefunds, BookRefund, FailRefund
  <2>3. rechecks' \subseteq Jobs
    BY <1>1, <2>2, RecheckIsJob
  <2> QED BY <2>3 DEF RequestRefund, ProviderRefunds, BookRefund, FailRefund
<1> DEFINE Turned(s, t) == [status |-> s, at |-> t]
<1>3. \A s, t : refund' = [refund EXCEPT ![r] = Turned(s, t)] /\ t \in Nat
                 /\ s \in {"open", "returned", "completed", "failed", "misread"}
                 => Turned(s, t) \in RefundRow /\ Turned(s, t).status = s
  BY DEF RefundRow
<1>4. \E s \in {"open", "returned", "completed", "failed", "misread"}, t \in Nat :
         /\ refund' = [refund EXCEPT ![r] = Turned(s, t)]
         /\ refund[r].status # "completed"
         /\ \/ refund[r].status \in Leaving
            \/ /\ ~RefundExposure
               /\ SuccessfulRefundMinor + instruction.reserved + Share <= Paid
            \/ s \notin Leaving
  <2>1. /\ refund[r].at \in Nat
        /\ \A s : [refund[r] EXCEPT !.status = s] = Turned(s, refund[r].at)
    BY <1>1 DEF RefundRow
  <2>2. CASE RequestRefund(r)
    <3>1. refund' = [refund EXCEPT ![r] = [refund[r] EXCEPT !.status = "open"]]
      BY <1>1, <2>2 DEF RequestRefund
    <3>2. refund' = [refund EXCEPT ![r] = Turned("open", refund[r].at)]
      BY <2>1, <3>1
    <3> QED BY <2>1, <2>2, <3>2 DEF RequestRefund
  <2>3. CASE ProviderRefunds(r)
    BY <1>1, <2>3 DEF ProviderRefunds, Leaving
  <2>4. CASE BookRefund(r)
    BY <1>1, <2>4 DEF BookRefund, Leaving
  <2>5. CASE FailRefund(r)
    <3>1. \E s \in {"failed", "misread"} : refund' = [refund EXCEPT ![r] = Turned(s, 0)]
      BY <1>1, <2>5 DEF FailRefund
    <3> QED BY <2>5, <3>1 DEF FailRefund, Leaving
  <2> QED BY <2>2, <2>3, <2>4, <2>5
<1>5. PICK s \in {"open", "returned", "completed", "failed", "misread"}, t \in Nat :
         /\ refund' = [refund EXCEPT ![r] = Turned(s, t)]
         /\ refund[r].status # "completed"
         /\ \/ refund[r].status \in Leaving
            \/ /\ ~RefundExposure
               /\ SuccessfulRefundMinor + instruction.reserved + Share <= Paid
            \/ s \notin Leaving
  BY <1>4
<1>6. Turned(s, t) \in RefundRow /\ Turned(s, t).status = s /\ s # "none"
  BY <1>3, <1>5
<1> HIDE DEF Turned
<1>7. /\ refund' \in [Refunds -> RefundRow]
      /\ RefundsFit'
      /\ SuccessfulRefundMinor' >= SuccessfulRefundMinor
  <2>1. UNCHANGED instruction
    BY <1>2 DEF splits
  <2> QED BY <1>5, <1>6, <2>1, RefundChanges
<1> QED BY <1>2, <1>7, RefundsGrow

\* A refund of a qualifying purchase is requested, booked or declined.
LEMMA PurchaseStepsCInv ==
    ASSUME CInv, NEW q \in Purchases,
           RequestPurchaseRefund(q) \/ RefundPurchase(q) \/ KeepPurchase(q)
    PROVE  CInv'
<1>1. purchase \in [Purchases -> {"paid", "kept", "refunding", "refunded"}]
      /\ clock \in Nat /\ rechecks \subseteq Jobs
  BY TypeUnfolds DEF CInv
<1>2. /\ UNCHANGED <<clock, refund, books, splits, unfreezing, due>>
      /\ rechecks' \subseteq Jobs
      /\ purchase' \in [Purchases -> {"paid", "kept", "refunding", "refunded"}]
      /\ \A p \in Purchases : purchase[p] = "refunded" => purchase'[p] = "refunded"
  <2>1. \E e \in {"opened", "successful", "final_failed"} :
            rechecks' = rechecks \cup {Recheck(q, e, clock)}
    BY DEF RequestPurchaseRefund, RefundPurchase, KeepPurchase, PurchaseChanges
  <2>2. rechecks' \subseteq Jobs
    BY <1>1, <2>1, RecheckIsJob
  <2> QED BY <1>1, <2>2 DEF RequestPurchaseRefund, RefundPurchase, KeepPurchase, PurchaseChanges
<1>3. TypeOK'
  BY <1>2, TypeUnfolds, TypeUnfoldsNext DEF CInv, books, splits, unfreezing
<1>4. RevokedForCause'
  BY <1>2 DEF CInv, RevokedForCause, books
<1>5. SplitFollows' /\ NotReleased' /\ NothingSent' /\ AnswersAreTrue'
      /\ AmountIsOwed' /\ PaidIsReal'
  BY <1>2 DEF CInv, books, splits, unfreezing, SplitFollows, NotReleased, InPlay, NothingSent,
         Unsubmitted, AnswersAreTrue, InFlight, AmountIsOwed, PaidIsReal
<1>6. Sum(Leaving)' = Sum(Leaving) /\ SuccessfulRefundMinor' = SuccessfulRefundMinor
  BY <1>2 DEF Sum, SuccessfulRefundMinor
<1>7. RefundsFit' /\ ReadIsPast' /\ CountsRealRefunds'
  BY <1>2, <1>6 DEF CInv, RefundsFit, ReadIsPast, CountsRealRefunds, books, splits,
                    CalculateCommission
<1>8. CancelledForCause'
  BY <1>2, <1>6 DEF CInv, CancelledForCause, books, splits, InPlay, CalculateCommission
<1> QED BY <1>3, <1>4, <1>5, <1>7, <1>8 DEF CInv

-----------------------------------------------------------------------------
(* The transitions of the commission's row                                   *)

\* What of a row the invariant is about.
RowIs(d, status, refunded, payable, paid) ==
    /\ d \in CommissionRow
    /\ d.status = status /\ d.refunded = refunded /\ d.payable = payable /\ d.paid = paid

\* What the transitions of a commission's row change, and what they leave
\* alone.
LEMMA Transitions ==
    ASSUME NEW c \in CommissionRow, NEW at \in Nat, NEW reason \in HoldReasons,
           NEW amount \in 0 .. Paid
    PROVE  /\ RowIs(Hold(c, reason, at), "held", c.refunded, c.payable, c.paid)
           /\ RowIs(Resume(c, at), "pending", c.refunded, c.payable, c.paid)
           /\ RowIs(Cancel(c, at), "cancelled", c.refunded, 0, c.paid)
           /\ RowIs(BeginSettlement(c, at), "settling", c.refunded, c.payable, c.paid)
           /\ RowIs(ConfirmReceiverPaid(c, amount, at), "paid", c.refunded, c.payable, amount)
           /\ RowIs(MarkException(c, at), "exception", c.refunded, c.payable, c.paid)
<1> USE DEF RowIs, CommissionRow, Statuses, HoldReasons
<1>1. RowIs(Hold(c, reason, at), "held", c.refunded, c.payable, c.paid)
  BY DEF Hold
<1>2. RowIs(Resume(c, at), "pending", c.refunded, c.payable, c.paid)
  BY DEF Resume
<1>3. RowIs(Cancel(c, at), "cancelled", c.refunded, 0, c.paid)
  BY ZeroIsAmount DEF Cancel
<1>4. RowIs(BeginSettlement(c, at), "settling", c.refunded, c.payable, c.paid)
  BY DEF BeginSettlement
<1>5. RowIs(ConfirmReceiverPaid(c, amount, at), "paid", c.refunded, c.payable, amount)
  BY DEF ConfirmReceiverPaid
<1>6. RowIs(MarkException(c, at), "exception", c.refunded, c.payable, c.paid)
  BY DEF MarkException
<1> QED BY <1>1, <1>2, <1>3, <1>4, <1>5, <1>6

\* What the transitions that count a refund change: before submission the
\* commission is repriced, afterwards it becomes an exception.
LEMMA RefundTransitions ==
    ASSUME NEW c \in CommissionRow, NEW at \in Nat, NEW total \in 0 .. Paid
    PROVE  LET owed == CalculateCommission(Paid - total) IN
           /\ RowIs(RepriceFromPaidMinor(c, total, at),
                    IF owed = 0 THEN "cancelled" ELSE c.status, total, owed, c.paid)
           /\ RowIs(RecordRefundAfterSubmission(c, total, at), "exception", total, owed, c.paid)
           /\ RowIs(RecordRefundAfterFinalization(c, total, at), c.status, total, c.payable, c.paid)
<1> DEFINE owed == CalculateCommission(Paid - total)
<1>1. owed \in 0 .. Paid
  BY CalculateType
<1> HIDE DEF owed
<1>2. RowIs([c EXCEPT !.payable = owed, !.refunded = total, !.updatedAt = at,
                      !.status = IF owed = 0 THEN "cancelled" ELSE @,
                      !.rewound = @ \/ total < c.refunded],
            IF owed = 0 THEN "cancelled" ELSE c.status, total, owed, c.paid)
  <2> DEFINE s == IF owed = 0 THEN "cancelled" ELSE c.status
             w == c.rewound \/ total < c.refunded
             d == [c EXCEPT !.payable = owed, !.refunded = total, !.updatedAt = at, !.status = s,
                            !.rewound = w]
  <2>1. s \in Statuses /\ w \in BOOLEAN
    BY DEF CommissionRow, Statuses
  <2> HIDE DEF s, w
  <2>2. RowIs(d, s, total, owed, c.paid)
    BY <1>1, <2>1 DEF RowIs, CommissionRow
  <2> QED BY <2>2 DEF s, w
<1>3. RowIs([c EXCEPT !.refunded = total, !.status = "exception", !.updatedAt = at,
                      !.payable = owed], "exception", total, owed, c.paid)
  BY <1>1 DEF RowIs, CommissionRow, Statuses
<1>4. RowIs([c EXCEPT !.refunded = total, !.updatedAt = at], c.status, total, c.payable, c.paid)
  BY DEF RowIs, CommissionRow
<1> QED BY <1>2, <1>3, <1>4 DEF owed, RepriceFromPaidMinor, RecordRefundAfterSubmission,
                                RecordRefundAfterFinalization

\* A hold changes the status alone.
LEMMA OnHoldRow ==
    ASSUME NEW c \in CommissionRow, clock \in Nat, NEW reason \in HoldReasons
    PROVE  RowIs(OnHold(c, reason), "held", c.refunded, c.payable, c.paid)
<1>1. RowIs(Hold(c, reason, clock), "held", c.refunded, c.payable, c.paid)
  BY ZeroIsAmount, Transitions
<1>2. c.status = "held" => RowIs(c, "held", c.refunded, c.payable, c.paid)
  BY DEF RowIs
<1> QED BY <1>1, <1>2 DEF OnHold

-----------------------------------------------------------------------------
(* Steps that write the commission and move no money                         *)

\* Why a commission may end with nothing to pay.
Cause ==
    \/ CalculateCommission(Paid - SuccessfulRefundMinor) = 0
    \/ \E q \in Purchases : purchase[q] = "refunded"

\* The row counts refunds that happened, and says what follows from them.
Counted(d) ==
    /\ d.refunded <= SuccessfulRefundMinor
    /\ d.status # "cancelled" => d.payable = CalculateCommission(Paid - d.refunded)

StaysOpen ==
    /\ Unsubmitted /\ commission'.status \in {"pending", "held"}
    /\ commission'.paid = commission.paid
    /\ exceptions' = exceptions
    /\ due' \in {due, Waiting}

BecomesCancelled ==
    /\ commission'.status = "cancelled" /\ commission'.paid = 0
    /\ ~InPlay /\ split # "success"
    /\ Cause
    /\ InFlight => due' # due

StaysInFlight ==
    /\ Unsubmitted \/ InFlight
    /\ commission'.status \in {"settling", "paid", "exception"}
    /\ \/ commission'.paid = commission.paid /\ (commission'.status = "paid" => InFlight /\ commission.status = "paid")
       \/ /\ split = "success" /\ instruction.state # "none"
          /\ commission'.paid = instruction.amount
    /\ instruction.amount > commission'.payable => "buyer_refund_after_paid" \in exceptions'

\* A step in Distribution's books keeps the invariant if the row stays open, is
\* cancelled for cause, or stays with its split.
LEMMA BooksMove ==
    ASSUME CInv, UNCHANGED <<clock, funds, splits, unfreezing>>, rechecks' \subseteq rechecks,
           commission' \in CommissionRow, Counted(commission'),
           exceptions' \subseteq ExceptionKinds, revoked' \in BOOLEAN, RevokedForCause',
           due' = due \/ due' \in {Waiting, Done, [at |-> "release"]},
           StaysOpen \/ BecomesCancelled \/ StaysInFlight
    PROVE  CInv'
<1>1. /\ TypeOK /\ commission \in CommissionRow /\ due \in DueStates /\ rechecks \subseteq Jobs
      /\ instruction \in InstructionRow
  BY TypeUnfolds DEF CInv
<1>2. /\ UNCHANGED <<clock, refund, purchase, instruction, effect, split, unfreeze, release>>
  BY DEF funds, splits, unfreezing
<1>3. TypeOK'
  <2>1. due' \in DueStates
    BY <1>1 DEF DueStates
  <2>2. rechecks' \subseteq Jobs
    BY <1>1
  <2> QED BY <1>1, <1>2, <2>1, <2>2, TypeUnfolds, TypeUnfoldsNext
<1>4. /\ Sum(Leaving)' = Sum(Leaving) /\ SuccessfulRefundMinor' = SuccessfulRefundMinor
      /\ InPlay' = InPlay
  BY <1>2 DEF Sum, SuccessfulRefundMinor, InPlay
<1>5. RefundsFit' /\ SplitFollows' /\ NotReleased'
  BY <1>2, <1>4 DEF CInv, RefundsFit, SplitFollows, NotReleased
<1>6. /\ due' # due => due'.at \in {"waiting", "done", "release"}
      /\ due' = Waiting => due'.at = "waiting"
  BY DEF Waiting, Done
<1>7. NothingSent'
  <2> SUFFICES ASSUME commission'.status \in {"pending", "held"} PROVE NothingSent'
    BY DEF NothingSent, Unsubmitted
  <2>1. StaysOpen
    BY DEF BecomesCancelled, StaysInFlight
  <2> QED BY <1>2, <1>6, <2>1 DEF CInv, NothingSent, StaysOpen
<1>8. ReadIsPast'
  BY <1>4, <1>6 DEF CInv, ReadIsPast
<1>9. AnswersAreTrue'
  <2> SUFFICES ASSUME due' = due, due.at \in {"answered", "apply"} PROVE AnswersAreTrue'
    BY <1>6 DEF AnswersAreTrue
  <2>1. InFlight /\ ~Unsubmitted
    BY DEF CInv, AnswersAreTrue, InFlight, Unsubmitted
  <2>2. InFlight'
    BY <2>1 DEF StaysOpen, BecomesCancelled, StaysInFlight, InFlight
  <2> QED BY <1>2, <1>4, <2>2 DEF CInv, AnswersAreTrue
<1>10. AmountIsOwed'
  <2>1. CASE StaysOpen
    BY <1>1, <1>2, <2>1 DEF CInv, StaysOpen, NothingSent, NoInstruction, AmountIsOwed, CommissionRow
  <2>2. CASE BecomesCancelled
    BY <2>2 DEF BecomesCancelled, AmountIsOwed
  <2>3. CASE StaysInFlight
    BY <1>2, <2>3 DEF StaysInFlight, AmountIsOwed
  <2> QED BY <2>1, <2>2, <2>3
<1>11. PaidIsReal'
  <2>1. CASE StaysOpen
    BY <1>2, <2>1 DEF CInv, StaysOpen, NothingSent, PaidIsReal
  <2>2. CASE BecomesCancelled
    BY <2>2 DEF BecomesCancelled, PaidIsReal
  <2>3. CASE StaysInFlight
    BY <1>2, <2>3 DEF CInv, StaysInFlight, PaidIsReal, SplitFollows
  <2> QED BY <2>1, <2>2, <2>3
<1>12. CancelledForCause'
  <2> SUFFICES ASSUME commission'.status = "cancelled" PROVE CancelledForCause'
    BY DEF CancelledForCause
  <2>1. BecomesCancelled
    BY DEF StaysOpen, StaysInFlight
  <2> QED BY <1>2, <1>4, <2>1 DEF BecomesCancelled, CancelledForCause, Cause, CalculateCommission
<1>13. CountsRealRefunds'
  BY <1>4 DEF Counted, CountsRealRefunds, CalculateCommission
<1> QED BY <1>3, <1>5, <1>7, <1>8, <1>9, <1>10, <1>11, <1>12, <1>13 DEF CInv

-----------------------------------------------------------------------------
(* prepareSettlement                                                         *)

\* The types of everything a decision reads.
LEMMA Facts ==
    ASSUME CInv
    PROVE  /\ TypeOK /\ clock \in Nat /\ commission \in CommissionRow
           /\ instruction \in InstructionRow /\ rechecks \subseteq Jobs
           /\ exceptions \subseteq ExceptionKinds /\ revoked \in BOOLEAN
           /\ SuccessfulRefundMinor \in 0 .. Paid /\ Paid \in Nat
           /\ commission.refunded \in 0 .. Paid /\ commission.payable \in 0 .. Paid
           /\ commission.paid \in 0 .. Paid /\ instruction.amount \in 0 .. Paid
           /\ commission.status \in Statuses
           /\ CalculateCommission(Paid - SuccessfulRefundMinor) \in 0 .. Paid
<1>1. /\ TypeOK /\ clock \in Nat /\ commission \in CommissionRow
      /\ instruction \in InstructionRow /\ rechecks \subseteq Jobs
      /\ exceptions \subseteq ExceptionKinds /\ revoked \in BOOLEAN
  BY TypeUnfolds DEF CInv
<1>2. SuccessfulRefundMinor \in 0 .. Paid /\ Paid \in Nat
  BY <1>1, CommissionConstants, RefundedFits DEF CInv
<1>3. CalculateCommission(Paid - SuccessfulRefundMinor) \in 0 .. Paid
  BY <1>2, CalculateType
<1>4. /\ commission.refunded \in 0 .. Paid /\ commission.payable \in 0 .. Paid
      /\ commission.paid \in 0 .. Paid /\ instruction.amount \in 0 .. Paid
      /\ commission.status \in Statuses
  BY <1>1 DEF CommissionRow, InstructionRow
<1> QED BY <1>1, <1>2, <1>3, <1>4

\* A distributor loses the qualification only with a refunded purchase.
LEMMA IneligibleIsRefunded ==
    ASSUME TypeOK, Qualification = "ineligible"
    PROVE  \E q \in Purchases : purchase[q] = "refunded"
BY CommissionConstants DEF TypeOK, Qualification

\* A cause is one whatever was counted of it.
LEMMA CountedIsCause ==
    ASSUME CInv, NEW total \in 0 .. Paid, total <= SuccessfulRefundMinor,
           CalculateCommission(Paid - total) = 0
    PROVE  Cause
<1> DEFINE x == Paid - SuccessfulRefundMinor
           y == Paid - total
<1>1. SuccessfulRefundMinor \in 0 .. Paid /\ Paid \in Nat
  BY Facts
<1>2. x \in Nat /\ y \in Nat /\ x <= y
  <2>1. \A a, b \in 0 .. Paid : a <= b =>
            Paid - a \in Nat /\ Paid - b \in Nat /\ Paid - b <= Paid - a
    BY <1>1
  <2> QED BY <1>1, <2>1
<1> HIDE DEF x, y
<1>3. CalculateCommission(x) = 0
  BY <1>2, CalculateStaysZero DEF y
<1> QED BY <1>3 DEF Cause, x

\* The row that the due check decides on counts refunds that Payment has, and
\* is cancelled for cause only.
LEMMA RepricedRow ==
    ASSUME CInv, due.at = "prepare", Unsubmitted
    PROVE  /\ Current \in CommissionRow /\ Current.paid = 0
           /\ Current.refunded \in 0 .. Paid
           /\ Current.refunded <= SuccessfulRefundMinor
           /\ Current.payable = CalculateCommission(Paid - Current.refunded)
           /\ Current.status \in {"pending", "held", "cancelled"}
           /\ Current.status = "cancelled" => Cause
<1>1. /\ commission \in CommissionRow /\ clock \in Nat /\ SuccessfulRefundMinor \in 0 .. Paid
      /\ commission.refunded \in 0 .. Paid
  BY Facts
<1>2. due.refunded \in 0 .. Paid
  BY DEF CInv, TypeOK, DueStates, Waiting, Done
<1>3. due.refunded <= SuccessfulRefundMinor /\ commission.paid = 0
  BY DEF CInv, ReadIsPast, NothingSent
<1>4. CASE due.refunded > 0
  <2> DEFINE owed == CalculateCommission(Paid - due.refunded)
  <2>1. Current = RepriceFromPaidMinor(commission, due.refunded, clock)
    BY <1>4 DEF Current, Repriced
  <2>2. RowIs(Current, IF owed = 0 THEN "cancelled" ELSE commission.status, due.refunded,
              owed, commission.paid)
    BY <1>1, <1>2, <2>1, RefundTransitions
  <2>3. owed = 0 => Cause
    BY <1>2, <1>3, CountedIsCause
  <2> HIDE DEF owed
  <2>4. Current.refunded = due.refunded /\ Current.payable = owed
    BY <2>2 DEF RowIs
  <2>5. /\ Current \in CommissionRow /\ Current.paid = commission.paid
        /\ Current.status = IF owed = 0 THEN "cancelled" ELSE commission.status
    BY <2>2 DEF RowIs
  <2> QED BY <1>2, <1>3, <2>3, <2>4, <2>5 DEF Unsubmitted, owed
<1>5. CASE ~(due.refunded > 0)
  <2>1. Current = commission
    BY <1>5 DEF Current, Repriced
  <2> QED BY <1>1, <1>3, <2>1 DEF CInv, CountsRealRefunds, Unsubmitted
<1> QED BY <1>4, <1>5

\* The due check holds or cancels.
LEMMA PreparesCInv ==
    ASSUME CInv, HoldForRefund \/ CancelRefunded \/ HoldForLookup \/ CancelRevoked \/ MissDeadline
    PROVE  CInv'
<1> USE Facts
<1>1. /\ due.at = "prepare" /\ Unsubmitted
      /\ UNCHANGED <<clock, funds, exceptions, revoked, splits, unfreezing, rechecks>>
      /\ due' = Waiting
  BY DEF HoldForRefund, CancelRefunded, HoldForLookup, CancelRevoked, MissDeadline, Priced,
         Preparing, Prepares
<1>2. /\ Current \in CommissionRow /\ Current.paid = 0
      /\ Current.refunded \in 0 .. Paid
      /\ Current.refunded <= SuccessfulRefundMinor
      /\ Current.payable = CalculateCommission(Paid - Current.refunded)
      /\ Current.status \in {"pending", "held", "cancelled"}
      /\ Current.status = "cancelled" => Cause
  BY <1>1, RepricedRow
<1>3. /\ commission.paid = 0 /\ instruction = NoInstruction /\ effect = "none" /\ split = "none"
  BY <1>1 DEF CInv, NothingSent
<1>4. ~InPlay /\ split # "success" /\ ~InFlight /\ instruction.amount = 0
  BY <1>1, <1>3 DEF InPlay, InFlight, Unsubmitted, NoInstruction
<1>5. RevokedForCause' /\ 0 \in 0 .. Paid
  BY <1>1 DEF CInv, RevokedForCause, funds
<1> SUFFICES /\ commission' \in CommissionRow /\ Counted(commission')
             /\ StaysOpen \/ BecomesCancelled \/ StaysInFlight
  BY <1>1, <1>5, BooksMove
<1>6. CASE HoldForRefund
  <2>1. RowIs(commission', "held", commission.refunded, commission.payable, commission.paid)
    BY <1>6, OnHoldRow DEF HoldForRefund, Prepares, HoldReasons
  <2>2. Counted(commission')
    BY <1>1, <2>1 DEF CInv, CountsRealRefunds, Counted, RowIs, Unsubmitted
  <2> QED BY <1>1, <2>1, <2>2 DEF StaysOpen, RowIs
<1>7. CASE CancelRefunded
  <2>1. commission' = Current /\ Current.status = "cancelled"
    BY <1>7 DEF CancelRefunded, Prepares, Current
  <2> QED BY <1>2, <1>4, <2>1 DEF Counted, BecomesCancelled
<1>8. CASE HoldForLookup
  <2>1. RowIs(commission', "held", Current.refunded, Current.payable, Current.paid)
    BY <1>2, <1>8, OnHoldRow DEF HoldForLookup, Prepares, HoldReasons
  <2>2. Counted(commission')
    BY <1>2, <2>1 DEF Counted, RowIs
  <2> QED BY <1>1, <1>2, <1>3, <2>1, <2>2 DEF StaysOpen, RowIs
<1>9. CASE CancelRevoked
  <2>1. RowIs(commission', "cancelled", Current.refunded, 0, Current.paid)
    BY <1>2, <1>5, <1>9, Transitions DEF CancelRevoked, Prepares, HoldReasons
  <2>2. Cause
    BY <1>9, IneligibleIsRefunded DEF CancelRevoked, Cause
  <2> QED BY <1>2, <1>4, <2>1, <2>2 DEF BecomesCancelled, Counted, RowIs
<1>10. CASE MissDeadline
  <2>1. RowIs(commission', "exception", Current.refunded, Current.payable, Current.paid)
    BY <1>2, <1>5, <1>10, Transitions DEF MissDeadline, Prepares, HoldReasons
  <2>2. Counted(commission') /\ commission'.payable \in 0 .. Paid
    BY <1>2, <2>1 DEF Counted, RowIs, CommissionRow
  <2>3. StaysInFlight
    BY <1>1, <1>2, <1>3, <1>4, <2>1, <2>2 DEF StaysInFlight, RowIs
  <2> QED BY <2>1, <2>2, <2>3 DEF RowIs
<1> QED BY <1>6, <1>7, <1>8, <1>9, <1>10

\* The due check submits the split, within what refunds have left.
LEMMA SettleCInv ==
    ASSUME CInv, Settle
    PROVE  CInv'
<1> USE Facts
<1>1. /\ due.at = "prepare" /\ Unsubmitted
      /\ UNCHANGED <<clock, funds, exceptions, revoked, split, unfreezing, rechecks>>
      /\ due' = Waiting /\ effect' = "queued"
      /\ ~RefundExposure /\ Available >= Current.payable /\ Current.payable >= 1
      /\ Current.status # "cancelled"
      /\ commission' = BeginSettlement(Current, clock)
      /\ instruction' = [state |-> "accepted", amount |-> Current.payable, known |-> FALSE,
                         success |-> FALSE, reserved |-> Current.payable]
  BY DEF Settle, Priced, Preparing, Accepts
<1>2. /\ Current \in CommissionRow /\ Current.paid = 0
      /\ Current.refunded \in 0 .. Paid
      /\ Current.refunded <= SuccessfulRefundMinor
      /\ Current.payable = CalculateCommission(Paid - Current.refunded)
  BY <1>1, RepricedRow
<1>3. /\ commission.paid = 0 /\ instruction = NoInstruction /\ effect = "none" /\ split = "none"
      /\ unfreeze = "none" /\ exceptions = {}
  BY <1>1 DEF CInv, NothingSent
<1>4. RowIs(commission', "settling", Current.refunded, Current.payable, Current.paid)
  BY <1>1, <1>2, ZeroIsAmount, Transitions DEF HoldReasons
<1>5. Current.payable \in 0 .. Paid
  BY <1>2 DEF CommissionRow
<1> DEFINE owed == Current.payable
           counted == Current.refunded
<1> HIDE DEF owed, counted
<1>6. /\ instruction'.state = "accepted" /\ instruction'.amount = owed
      /\ instruction'.reserved = owed /\ ~instruction'.known /\ ~instruction'.success
      /\ instruction' \in InstructionRow
  BY <1>1, <1>5 DEF owed, InstructionRow
<1>7. /\ commission' \in CommissionRow /\ commission'.status = "settling"
      /\ commission'.payable = owed /\ commission'.refunded = counted /\ commission'.paid = 0
  BY <1>2, <1>4 DEF RowIs, owed, counted
<1>8. owed \in 0 .. Paid /\ owed >= 1 /\ owed = CalculateCommission(Paid - counted)
      /\ counted <= SuccessfulRefundMinor
  BY <1>1, <1>2, <1>5 DEF owed, counted
<1>9. /\ Sum(Leaving)' = Sum(Leaving) /\ SuccessfulRefundMinor' = SuccessfulRefundMinor
  BY <1>1 DEF Sum, SuccessfulRefundMinor, funds
<1>10. TypeOK'
  <2>1. due' \in DueStates
    BY <1>1 DEF DueStates
  <2>2. UNCHANGED <<clock, refund, purchase, exceptions, revoked, split, unfreeze, release, rechecks>>
    BY <1>1 DEF funds, unfreezing
  <2> QED BY <1>1, <1>6, <1>7, <2>1, <2>2, TypeUnfolds, TypeUnfoldsNext
<1>11. RefundsFit'
  <2>1. Sum(Leaving) = SuccessfulRefundMinor
    BY <1>1, NoExposure DEF CInv
  <2>2. Available = Paid - SuccessfulRefundMinor
    BY <1>3 DEF Available, NoInstruction
  <2>3. SuccessfulRefundMinor + owed <= Paid
    BY <1>1, <1>8, <2>2 DEF owed
  <2>4. UNCHANGED refund
    BY <1>1 DEF funds
  <2> QED BY <1>6, <1>9, <2>1, <2>3, <2>4 DEF CInv, RefundsFit
<1>12. SplitFollows'
  BY <1>1, <1>3, <1>6, <1>8 DEF SplitFollows
<1>13. NotReleased' /\ NothingSent' /\ ReadIsPast' /\ AnswersAreTrue'
  BY <1>1, <1>3, <1>7 DEF CInv, NotReleased, unfreezing, NothingSent, Unsubmitted, ReadIsPast,
                          AnswersAreTrue, Waiting
<1>14. AmountIsOwed' /\ PaidIsReal' /\ CancelledForCause'
  BY <1>6, <1>7, <1>8 DEF AmountIsOwed, PaidIsReal, CancelledForCause
<1>15. RevokedForCause'
  BY <1>1 DEF CInv, RevokedForCause, funds
<1>16. CountsRealRefunds'
  BY <1>7, <1>8, <1>9 DEF CountsRealRefunds, CalculateCommission
<1> QED BY <1>10, <1>11, <1>12, <1>13, <1>14, <1>15, <1>16 DEF CInv

-----------------------------------------------------------------------------
(* The due check and the clock                                               *)

\* The due check reads, fails or has nothing to do, and time passes.
LEMMA DueReadsCInv ==
    ASSUME CInv,
           \/ Preflight \/ Query \/ NothingToDo \/ StartRelease \/ DueFails
           \/ Tick \/ UNCHANGED vars
    PROVE  CInv'
<1> USE Facts
<1>1. /\ UNCHANGED <<funds, books, splits, unfreezing, rechecks>>
      /\ clock' \in Nat
  BY DEF Preflight, Query, NothingToDo, StartRelease, DueFails, Tick, vars
<1>2. /\ UNCHANGED <<refund, purchase, commission, exceptions, revoked, instruction, effect, split,
                     unfreeze, release, rechecks>>
  BY <1>1 DEF funds, books, splits, unfreezing
<1>3. Available \in 0 .. Paid /\ due \in DueStates /\ split \in {"none", "pending", "success", "closed"}
  BY RefundedFits, TypeUnfolds DEF CInv
<1>4. \/ due' = due
      \/ due' = Waiting /\ due'.at = "waiting"
      \/ /\ due' \in PrepareStates /\ due'.at = "prepare"
         /\ due'.refunded = SuccessfulRefundMinor
         /\ Unsubmitted
      \/ /\ due' = [at |-> "answered", outcome |-> split]
         /\ Submitted /\ instruction.state # "none"
      \/ due' = Done /\ Submitted
      \/ due' = [at |-> "release"] /\ Finished
  <2>1. CASE Preflight
    <3>1. due' = [at |-> "prepare", exposure |-> RefundExposure,
                  refunded |-> SuccessfulRefundMinor, available |-> Available]
      BY <2>1 DEF Preflight
    <3>2. RefundExposure \in BOOLEAN
      BY DEF RefundExposure
    <3> HIDE DEF RefundExposure
    <3>3. due' \in PrepareStates
      BY <1>3, <3>1, <3>2 DEF PrepareStates
    <3>4. due'.at = "prepare" /\ due'.refunded = SuccessfulRefundMinor
      BY <3>1
    <3>5. Unsubmitted
      BY <2>1 DEF Preflight
    <3> QED BY <3>3, <3>4, <3>5
  <2> QED BY <2>1 DEF Query, NothingToDo, StartRelease, DueFails, Tick, vars, Waiting
<1>5. due' \in DueStates
  <2>1. CASE due' = [at |-> "answered", outcome |-> split]
    BY <1>3, <2>1 DEF DueStates
  <2>2. CASE due' \in PrepareStates
    BY <2>2 DEF DueStates, PrepareStates
  <2>3. CASE due' \in {Waiting, Done, due, [at |-> "release"]}
    BY <1>3, <2>3 DEF DueStates
  <2> QED BY <1>4, <2>1, <2>2, <2>3
<1>6. TypeOK'
  BY <1>1, <1>2, <1>5, TypeUnfolds, TypeUnfoldsNext
<1>7. /\ Sum(Leaving)' = Sum(Leaving) /\ SuccessfulRefundMinor' = SuccessfulRefundMinor
  BY <1>2 DEF Sum, SuccessfulRefundMinor
<1>8. RefundsFit' /\ CountsRealRefunds'
  BY <1>2, <1>7 DEF CInv, RefundsFit, CountsRealRefunds, CalculateCommission
<1>9. CancelledForCause'
  BY <1>2, <1>7 DEF CInv, CancelledForCause, InPlay, CalculateCommission
<1>10. SplitFollows' /\ NotReleased' /\ AmountIsOwed' /\ RevokedForCause' /\ PaidIsReal'
  BY <1>2 DEF CInv, SplitFollows, NotReleased, InPlay, AmountIsOwed, RevokedForCause, PaidIsReal
<1>11. ReadIsPast'
  BY <1>4, <1>7 DEF CInv, ReadIsPast, Waiting, Done
<1>12. NothingSent'
  BY <1>2, <1>4 DEF CInv, NothingSent, Unsubmitted, Submitted, Finished
<1>13. AnswersAreTrue'
  <2>1. CASE due' = due
    BY <1>2, <2>1 DEF CInv, AnswersAreTrue, InFlight, InPlay
  <2>2. CASE due' = [at |-> "answered", outcome |-> split] /\ Submitted /\ instruction.state # "none"
    <3>1. due'.at = "answered" /\ due'.outcome = split /\ InFlight'
      BY <1>2, <2>2 DEF Submitted, InFlight
    <3> QED BY <1>2, <2>2, <3>1 DEF AnswersAreTrue
  <2>3. CASE due'.at \notin {"answered", "apply"}
    BY <2>3 DEF AnswersAreTrue
  <2> QED BY <1>4, <2>1, <2>2, <2>3 DEF Waiting, Done
<1> QED BY <1>6, <1>8, <1>9, <1>10, <1>11, <1>12, <1>13 DEF CInv

-----------------------------------------------------------------------------
(* The split at Payment and at the Provider                                  *)

\* The parts that do not mention the split's own state.
LEMMA SplitStep ==
    ASSUME CInv, UNCHANGED <<clock, funds, books, rechecks>>,
           instruction' \in InstructionRow, due' \in DueStates,
           effect' \in {"none", "queued", "sent", "done"},
           split' \in {"none", "pending", "success", "closed"},
           unfreeze' \in {"none", "accepted", "succeeded"},
           release' \in {"none", "queued", "finished", "rejected"},
           instruction'.amount = instruction.amount,
           instruction'.reserved <= instruction.reserved,
           ~Unsubmitted, due'.at # "prepare" \/ due' = due,
           split = "success" => split' = "success",
           commission.status = "cancelled" => ~InPlay' /\ split' # "success",
           SplitFollows', NotReleased', AnswersAreTrue'
    PROVE  CInv'
<1> USE Facts
<1>1. UNCHANGED <<clock, refund, purchase, commission, exceptions, revoked, rechecks>>
  BY DEF funds, books
<1>2. TypeOK'
  BY <1>1, TypeUnfolds, TypeUnfoldsNext
<1>3. Sum(Leaving)' = Sum(Leaving) /\ SuccessfulRefundMinor' = SuccessfulRefundMinor
  BY <1>1 DEF Sum, SuccessfulRefundMinor
<1>4. RefundsFit'
  <2>1. Sum(Leaving) \in 0 .. Paid
    BY RefundedFits DEF CInv
  <2>2. instruction.reserved \in 0 .. Paid /\ instruction'.reserved \in 0 .. Paid
    BY DEF InstructionRow
  <2> QED BY <1>1, <1>3, <2>1, <2>2 DEF CInv, RefundsFit
<1>5. NothingSent' /\ ReadIsPast'
  BY <1>1, <1>3 DEF CInv, NothingSent, Unsubmitted, ReadIsPast
<1>6. AmountIsOwed' /\ RevokedForCause' /\ PaidIsReal'
  BY <1>1 DEF CInv, AmountIsOwed, RevokedForCause, PaidIsReal
<1>7. CountsRealRefunds'
  BY <1>1, <1>3 DEF CInv, CountsRealRefunds, CalculateCommission
<1>8. CancelledForCause'
  BY <1>1, <1>3 DEF CInv, CancelledForCause, CalculateCommission
<1> QED BY <1>2, <1>4, <1>5, <1>6, <1>7, <1>8 DEF CInv

\* What was sent had been submitted.
LEMMA SentIsSubmitted ==
    ASSUME CInv, effect # "none" \/ due.at \notin {"waiting", "prepare"}
    PROVE  ~Unsubmitted
BY DEF CInv, NothingSent

\* A cancelled commission has no split on its way.
LEMMA CancelledIsQuiet ==
    ASSUME CInv, commission.status = "cancelled"
    PROVE  /\ effect # "queued" /\ split \notin {"pending", "success"}
           /\ due.at \notin {"answered", "apply"}
BY DEF CInv, CancelledForCause, InPlay, AnswersAreTrue, InFlight

\* Payment applies the answer of a query to the instruction, which stays paid
\* once it is.
LEMMA ApplyAnswerCInv ==
    ASSUME CInv, ApplyAnswer
    PROVE  CInv'
<1> USE Facts
<1>1. /\ due.at = "answered"
      /\ UNCHANGED <<clock, funds, books, effect, split, unfreezing, rechecks>>
      /\ due' = [at |-> "apply", known |-> instruction'.known, success |-> instruction'.success]
  BY DEF ApplyAnswer
<1>2. /\ InFlight /\ instruction.state # "none" /\ ~Unsubmitted
      /\ due.outcome \in {"success", "closed"} => split = due.outcome
  BY <1>1, SentIsSubmitted DEF CInv, AnswersAreTrue
<1>3. SplitFollows
  BY DEF CInv
<1>4. \/ instruction.state = "paid" /\ instruction' = instruction
      \/ /\ instruction.state # "paid" /\ due.outcome = "success"
         /\ instruction' = [instruction EXCEPT !.state = "paid", !.known = TRUE,
                                               !.success = TRUE, !.reserved = 0]
      \/ /\ instruction.state # "paid" /\ due.outcome = "closed"
         /\ instruction' = [instruction EXCEPT !.state = "exception", !.known = TRUE,
                                               !.reserved = 0]
      \/ /\ instruction.state # "paid"
         /\ instruction' = [instruction EXCEPT !.state = "settling"]
  <2>1. CASE instruction.state = "paid"
    BY <2>1 DEF ApplyAnswer
  <2>2. CASE instruction.state # "paid" /\ due.outcome = "success"
    BY <2>2 DEF ApplyAnswer
  <2>3. CASE instruction.state # "paid" /\ due.outcome = "closed"
    BY <2>3 DEF ApplyAnswer
  <2>4. CASE instruction.state # "paid" /\ due.outcome \notin {"success", "closed"}
    BY <2>4 DEF ApplyAnswer
  <2> QED BY <2>1, <2>2, <2>3, <2>4
<1>5. /\ instruction' \in InstructionRow /\ instruction'.amount = instruction.amount
      /\ \/ /\ instruction.state = "paid" /\ instruction' = instruction
         \/ /\ instruction.state # "paid" /\ split = "success" /\ instruction'.state = "paid"
            /\ instruction'.known = TRUE /\ instruction'.success = TRUE
            /\ instruction'.reserved = 0
         \/ /\ instruction.state # "paid" /\ split = "closed" /\ instruction'.state = "exception"
            /\ instruction'.known = TRUE /\ instruction'.success = instruction.success
            /\ instruction'.reserved = 0
         \/ /\ instruction.state # "paid" /\ instruction'.state = "settling"
            /\ instruction'.known = instruction.known
            /\ instruction'.success = instruction.success
            /\ instruction'.reserved = instruction.reserved
  BY <1>2, <1>4, ZeroIsAmount DEF InstructionRow
<1>6. effect # "none" /\ (split # "none" => effect # "queued")
  BY <1>2, <1>3 DEF SplitFollows
<1>7. instruction.known \in BOOLEAN /\ instruction.success \in BOOLEAN
      /\ instruction'.known \in BOOLEAN /\ instruction'.success \in BOOLEAN
      /\ instruction.reserved \in 0 .. Paid
  BY <1>5 DEF InstructionRow
<1>8. UNCHANGED <<effect, split, unfreeze, release>> /\ InPlay' = InPlay
  BY <1>1 DEF unfreezing, InPlay
<1>9. SplitFollows'
  BY <1>2, <1>3, <1>5, <1>6, <1>7, <1>8 DEF SplitFollows, InPlay
<1>10. NotReleased'
  BY <1>8 DEF CInv, NotReleased
<1>11. /\ due'.at = "apply" /\ due'.known = instruction'.known
       /\ due'.success = instruction'.success /\ due' \in DueStates
  BY <1>1, <1>7 DEF DueStates
<1>12. AnswersAreTrue'
  <2>1. InFlight' /\ instruction'.state # "none"
    BY <1>1, <1>2, <1>5 DEF InFlight, books
  <2> QED BY <1>9, <1>11, <2>1 DEF AnswersAreTrue, SplitFollows
<1>13. instruction'.reserved <= instruction.reserved
  BY <1>5, <1>7
<1>14. commission.status = "cancelled" => ~InPlay' /\ split' # "success"
  BY <1>2 DEF InFlight
<1>15. UNCHANGED <<clock, funds, books, rechecks>>
  BY <1>1
<1>16. /\ effect' \in {"none", "queued", "sent", "done"}
       /\ split' \in {"none", "pending", "success", "closed"}
       /\ unfreeze' \in {"none", "accepted", "succeeded"}
       /\ release' \in {"none", "queued", "finished", "rejected"}
  BY <1>8, TypeUnfolds
<1> QED BY <1>2, <1>5, <1>8, <1>9, <1>10, <1>11, <1>12, <1>13, <1>14, <1>15, <1>16, SplitStep

\* The Provider takes a split, refuses it, or ends it.
LEMMA ProviderStepsCInv ==
    ASSUME CInv,
           \/ \E arrives \in BOOLEAN : SendSplit(arrives)
           \/ FailSplit \/ CompleteSplit
           \/ \E outcome \in {"success", "closed"} : SplitEnds(outcome)
    PROVE  CInv'
<1> USE Facts
<1>1. /\ UNCHANGED <<clock, funds, books, unfreezing, due, rechecks>>
  BY DEF SendSplit, FailSplit, CompleteSplit, SplitEnds
<1>2. /\ TypeOK /\ SplitFollows /\ NotReleased /\ AnswersAreTrue
      /\ effect \in {"none", "queued", "sent", "done"}
      /\ split \in {"none", "pending", "success", "closed"}
      /\ unfreeze \in {"none", "accepted", "succeeded"}
      /\ release \in {"none", "queued", "finished", "rejected"}
      /\ due \in DueStates
  BY TypeUnfolds DEF CInv
<1>3. instruction.known \in BOOLEAN /\ instruction.success \in BOOLEAN
  BY DEF InstructionRow
<1>4. /\ instruction' \in InstructionRow /\ instruction'.amount = instruction.amount
      /\ instruction'.reserved = instruction.reserved
      /\ instruction'.success = instruction.success
      /\ \/ /\ effect = "queued" /\ effect' = "sent" /\ split' \in {split, "pending"}
            /\ instruction' = instruction
         \/ /\ effect = "queued" /\ effect' = "done" /\ split' = split
            /\ instruction'.state = "exception" /\ instruction'.known = TRUE
         \/ /\ effect = "sent" /\ effect' = "done" /\ split' = split
            /\ instruction'.known = instruction.known
            /\ instruction.success => instruction' = instruction
            /\ ~instruction.success => instruction'.state = "settling"
         \/ /\ split = "pending" /\ split' \in {"success", "closed"} /\ effect' = effect
            /\ instruction' = instruction
  <2>1. CASE \E arrives \in BOOLEAN : SendSplit(arrives)
    BY <2>1 DEF SendSplit
  <2>2. CASE FailSplit
    BY <2>2 DEF FailSplit, InstructionRow
  <2>3. CASE CompleteSplit
    BY <1>3, <2>3 DEF CompleteSplit, Completed, InstructionRow
  <2>4. CASE \E outcome \in {"success", "closed"} : SplitEnds(outcome)
    BY <2>4 DEF SplitEnds
  <2> QED BY <2>1, <2>2, <2>3, <2>4
<1>5. effect # "none" /\ instruction.state # "none" /\ ~Unsubmitted
  BY <1>2, <1>4, SentIsSubmitted DEF SplitFollows
<1>6. UNCHANGED <<unfreeze, release, due, commission>>
  BY <1>1 DEF unfreezing, books
<1>7. /\ InPlay' => InPlay
      /\ split = "success" => split' = "success"
      /\ split = "closed" => split' = "closed"
      /\ split' = "success" /\ split # "success" => InPlay
  BY <1>2, <1>4 DEF InPlay, SplitFollows
<1>8. SplitFollows'
  BY <1>2, <1>3, <1>4, <1>5, <1>7 DEF SplitFollows, InPlay
<1>9. NotReleased'
  BY <1>2, <1>6, <1>7 DEF NotReleased
<1>10. AnswersAreTrue'
  <2>1. instruction'.state # "none" /\ InFlight' = InFlight
    BY <1>4, <1>5, <1>6 DEF InFlight
  <2> QED BY <1>2, <1>6, <1>7, <2>1 DEF AnswersAreTrue
<1>11. commission.status = "cancelled" => ~InPlay' /\ split' # "success"
  <2> SUFFICES ASSUME commission.status = "cancelled" PROVE ~InPlay' /\ split' # "success"
    OBVIOUS
  <2>1. ~InPlay /\ split # "success"
    BY CancelledIsQuiet DEF InPlay
  <2> QED BY <1>7, <2>1
<1>12. instruction'.reserved <= instruction.reserved
  <2>1. instruction.reserved \in 0 .. Paid
    BY DEF InstructionRow
  <2> QED BY <1>4, <2>1
<1>13. /\ effect' \in {"none", "queued", "sent", "done"}
       /\ split' \in {"none", "pending", "success", "closed"}
  BY <1>2, <1>4
<1>14. UNCHANGED <<clock, funds, books, rechecks>>
  BY <1>1
<1> QED BY <1>2, <1>4, <1>5, <1>6, <1>7, <1>8, <1>9, <1>10, <1>11, <1>12, <1>13, <1>14, SplitStep

-----------------------------------------------------------------------------
(* applyReconciliation and releaseRemaining                                  *)

\* Distribution applies what Payment recorded.
LEMMA ApplyCInv ==
    ASSUME CInv, ApplyReconciliation
    PROVE  CInv'
<1> USE Facts
<1>1. /\ due.at = "apply"
      /\ UNCHANGED <<clock, funds, revoked, splits, unfreezing, rechecks>>
      /\ due' \in {Waiting, [at |-> "release"]}
  BY DEF ApplyReconciliation, ConfirmPaid, CancelUnpaid, MarkUnpaid, MarkUnknown
<1>2. /\ InFlight /\ instruction.state # "none"
      /\ due.success => due.known /\ split = "success"
      /\ due.known /\ ~due.success => ~InPlay /\ split # "success"
  BY <1>1 DEF CInv, AnswersAreTrue
<1>3. RevokedForCause'
  BY <1>1 DEF CInv, RevokedForCause, funds
<1>4. /\ commission.refunded <= SuccessfulRefundMinor
      /\ commission.payable = CalculateCommission(Paid - commission.refunded)
      /\ commission.status # "cancelled"
  BY <1>2 DEF CInv, CountsRealRefunds, InFlight
<1>5. instruction.amount > commission.payable => "buyer_refund_after_paid" \in exceptions
  BY <1>4 DEF CInv, AmountIsOwed
<1>6. due' # due
  BY <1>1 DEF Waiting
<1> SUFFICES /\ commission' \in CommissionRow /\ Counted(commission')
             /\ exceptions' \subseteq ExceptionKinds
             /\ BecomesCancelled \/ StaysInFlight
  BY <1>1, <1>3, BooksMove
<1>7. CASE ConfirmPaid
  <2>1. split = "success" /\ exceptions' = exceptions
    BY <1>2, <1>7 DEF ConfirmPaid
  <2>2. CASE commission' = commission
    BY <1>2, <1>4, <1>5, <2>1, <2>2 DEF StaysInFlight, InFlight, Counted
  <2>3. CASE commission' = ConfirmReceiverPaid(commission, instruction.amount, clock)
    <3>1. RowIs(commission', "paid", commission.refunded, commission.payable, instruction.amount)
      BY <2>3, Transitions DEF HoldReasons
    <3> QED BY <1>2, <1>4, <1>5, <2>1, <3>1 DEF StaysInFlight, Counted, RowIs
  <2> QED BY <1>7, <2>2, <2>3 DEF ConfirmPaid
<1>8. CASE CancelUnpaid
  <2>1. /\ ~InPlay /\ split # "success" /\ commission.paid = 0
        /\ exceptions' \subseteq ExceptionKinds /\ BusinessCancellation
        /\ commission' = Cancel(commission, clock)
    BY <1>2, <1>8 DEF CancelUnpaid
  <2>2. RowIs(commission', "cancelled", commission.refunded, 0, commission.paid)
    BY <2>1, ZeroIsAmount, Transitions DEF HoldReasons
  <2>3. Cause
    <3>1. CASE commission.payable = 0 /\ commission.refunded = Paid
      <4>1. CalculateCommission(Paid - commission.refunded) = 0
        BY <1>4, <3>1
      <4> QED BY <1>4, <4>1, CountedIsCause
    <3>2. CASE revoked
      BY <3>2 DEF CInv, RevokedForCause, Cause
    <3> QED BY <2>1, <3>1, <3>2 DEF BusinessCancellation
  <2> QED BY <1>4, <1>6, <2>1, <2>2, <2>3 DEF BecomesCancelled, Counted, RowIs
<1>9. CASE MarkUnpaid \/ MarkUnknown
  <2>1. commission' = MarkException(commission, clock) /\ exceptions' = exceptions
    BY <1>9 DEF MarkUnpaid, MarkUnknown
  <2>2. RowIs(commission', "exception", commission.refunded, commission.payable, commission.paid)
    BY <2>1, ZeroIsAmount, Transitions DEF HoldReasons
  <2> QED BY <1>2, <1>4, <1>5, <2>1, <2>2 DEF StaysInFlight, Counted, RowIs
<1> QED BY <1>7, <1>8, <1>9 DEF ApplyReconciliation

\* The table's CHECK leaves no way to record an unfreeze that failed.
LEMMA NoFailedUnfreeze == ~Writable("exception", TRUE)
BY DEF Writable

\* The rest of the payment is released after the split has ended.
LEMMA ReleaseCInv ==
    ASSUME CInv, AcceptUnfreeze \/ ConfirmUnfreeze \/ FinishUnfreeze \/ RejectUnfreeze
    PROVE  CInv'
<1> USE Facts
<1>1. /\ unfreeze \in {"none", "accepted", "succeeded"}
      /\ release \in {"none", "queued", "finished", "rejected"} /\ due \in DueStates
      /\ effect \in {"none", "queued", "sent", "done"}
      /\ split \in {"none", "pending", "success", "closed"}
  BY TypeUnfolds
<1>2. /\ unfreeze' \in {"none", "accepted", "succeeded"}
      /\ release' \in {"none", "queued", "finished", "rejected"}
      /\ due' \in {due, Waiting, Done, [at |-> "unfreeze"]}
      /\ UNCHANGED <<clock, funds, books, splits, rechecks>>
      /\ unfreeze' # "none" => unfreeze # "none" \/ instruction.reserved = 0
      /\ release' # "none" => unfreeze' # "none"
      /\ due.at \in {"release", "unfreeze"} \/ (unfreeze # "none" /\ due' = due)
  <2> USE DEF CInv, NotReleased
  <2>1. CASE AcceptUnfreeze
    BY <1>1, <2>1 DEF AcceptUnfreeze, unfreezing, Unfreezable
  <2>2. CASE ConfirmUnfreeze
    <3>1. unfreeze' \in {unfreeze, "succeeded"}
      BY <2>2 DEF ConfirmUnfreeze
    <3>2. unfreeze' # "exception"
      BY <1>1, <3>1
    <3>3. UNCHANGED <<commission, exceptions, revoked>>
      BY <2>2, <3>2 DEF ConfirmUnfreeze
    <3> QED BY <1>1, <2>2, <3>1, <3>3 DEF ConfirmUnfreeze, books
  <2>3. CASE FinishUnfreeze
    BY <1>1, <2>3 DEF FinishUnfreeze
  <2>4. CASE RejectUnfreeze
    BY <1>1, <2>4, NoFailedUnfreeze DEF RejectUnfreeze
  <2> QED BY <2>1, <2>2, <2>3, <2>4
<1>3. ~Unsubmitted
  BY <1>2, SentIsSubmitted DEF CInv, NothingSent
<1>4. UNCHANGED <<instruction, effect, split, commission>> /\ InPlay' = InPlay
  BY <1>2 DEF splits, books, InPlay
<1>5. SplitFollows'
  BY <1>4 DEF CInv, SplitFollows
<1>6. NotReleased'
  <2>1. InPlay => instruction.reserved = instruction.amount /\ instruction.amount > 0
    BY <1>1 DEF CInv, SplitFollows, InPlay
  <2> QED BY <1>2, <1>4, <2>1 DEF CInv, NotReleased
<1>7. /\ due' \in DueStates
      /\ due' # due => due'.at \in {"waiting", "done", "unfreeze"}
  BY <1>1, <1>2 DEF DueStates, Waiting, Done
<1>8. AnswersAreTrue'
  <2>1. CASE due' = due
    BY <1>4, <2>1 DEF CInv, AnswersAreTrue, InFlight
  <2>2. CASE due' # due
    BY <1>7, <2>2 DEF AnswersAreTrue
  <2> QED BY <2>1, <2>2
<1>9. commission.status = "cancelled" => ~InPlay' /\ split' # "success"
  BY <1>4, CancelledIsQuiet DEF InPlay
<1>10. /\ instruction'.reserved <= instruction.reserved /\ instruction' \in InstructionRow
       /\ instruction'.amount = instruction.amount
  BY <1>4 DEF InstructionRow
<1>11. /\ UNCHANGED <<clock, funds, books, rechecks>> /\ split = "success" => split' = "success"
       /\ effect' \in {"none", "queued", "sent", "done"}
       /\ split' \in {"none", "pending", "success", "closed"}
  BY <1>1, <1>2, <1>4
<1> QED BY <1>2, <1>3, <1>5, <1>6, <1>7, <1>8, <1>9, <1>10, <1>11, SplitStep

-----------------------------------------------------------------------------
(* Rechecks                                                                  *)

\* An enqueued due check is a new one or the one under way.
LEMMA EnqueuedStates == \A d \in Enqueued : d \in {due, Waiting}
BY DEF Enqueued

\* A commission is not submitted, with its split, or cancelled, and what each
\* means.
LEMMA CommissionKinds ==
    ASSUME CInv
    PROVE  /\ Unsubmitted \/ InFlight \/ commission.status = "cancelled"
           /\ Counted(commission)
           /\ Unsubmitted => commission.paid = 0 /\ ~InPlay /\ split # "success"
                                /\ ~InFlight /\ instruction.amount = 0
           /\ commission.status = "cancelled" =>
                 Cause /\ ~InPlay /\ split # "success" /\ commission.paid = 0 /\ ~InFlight
           /\ InFlight => ~Unsubmitted /\ commission.status # "cancelled"
                /\ (instruction.amount > commission.payable =>
                        "buyer_refund_after_paid" \in exceptions)
<1>1. commission.status \in Statuses
  BY Facts
<1>2. Unsubmitted \/ InFlight \/ commission.status = "cancelled"
  BY <1>1 DEF Statuses, Unsubmitted, InFlight
<1>3. Counted(commission)
  BY DEF CInv, CountsRealRefunds, Counted
<1>4. Unsubmitted => commission.paid = 0 /\ ~InPlay /\ split # "success" /\ ~InFlight
                        /\ instruction.amount = 0
  BY DEF CInv, NothingSent, InPlay, Unsubmitted, InFlight, NoInstruction
<1>5. commission.status = "cancelled" =>
          Cause /\ ~InPlay /\ split # "success" /\ commission.paid = 0 /\ ~InFlight
  BY DEF CInv, CancelledForCause, Cause, AmountIsOwed, InFlight
<1>6. InFlight => ~Unsubmitted /\ commission.status # "cancelled"
          /\ (instruction.amount > commission.payable => "buyer_refund_after_paid" \in exceptions)
  BY DEF CInv, AmountIsOwed, InFlight, Unsubmitted
<1> QED BY <1>2, <1>3, <1>4, <1>5, <1>6

\* A recheck that leaves the commission alone.
LEMMA BooksStay ==
    ASSUME CInv, UNCHANGED <<clock, funds, splits, unfreezing>>, rechecks' \subseteq rechecks,
           UNCHANGED <<commission, exceptions, revoked>>, due' \in {due, Waiting}
    PROVE  CInv'
<1> USE Facts
<1>1. RevokedForCause'
  BY DEF CInv, RevokedForCause, funds
<1>2. Counted(commission')
  BY CommissionKinds DEF Counted
<1>3. CASE Unsubmitted
  BY <1>3, <1>1, <1>2, BooksMove DEF StaysOpen, Unsubmitted
<1>4. CASE commission.status = "cancelled"
  <2>1. BecomesCancelled
    BY <1>4, CommissionKinds DEF BecomesCancelled
  <2> QED BY <1>1, <1>2, <2>1, BooksMove
<1>5. CASE InFlight
  <2>1. StaysInFlight
    BY <1>5, CommissionKinds DEF StaysInFlight, InFlight
  <2> QED BY <1>1, <1>2, <2>1, BooksMove
<1> QED BY <1>3, <1>4, <1>5, CommissionKinds

\* A recheck counts the buyer's refunds.
LEMMA BuyerRefundedCInv ==
    ASSUME CInv, NEW j \in rechecks, BuyerRefunded(j)
    PROVE  CInv'
<1> USE Facts
<1> DEFINE total == SuccessfulRefundMinor
           owed == CalculateCommission(Paid - total)
<1>1. /\ UNCHANGED <<clock, funds, splits, unfreezing, revoked>> /\ rechecks' \subseteq rechecks
      /\ due' \in {due, Waiting} /\ exceptions' \subseteq ExceptionKinds
      /\ AfterSubmission => "buyer_refund_after_paid" \in exceptions'
      /\ ~AfterSubmission => exceptions' = exceptions
  BY EnqueuedStates DEF BuyerRefunded, RecheckEnds, ExceptionKinds
<1>2. j.at \in Nat
  BY DEF Jobs
<1>3. RevokedForCause'
  BY <1>1 DEF CInv, RevokedForCause, funds
<1>4. total \in 0 .. Paid /\ total <= total
  OBVIOUS
<1>5. owed = 0 => Cause
  BY DEF Cause
<1> SUFFICES /\ commission' \in CommissionRow /\ Counted(commission')
             /\ StaysOpen \/ BecomesCancelled \/ StaysInFlight
  BY <1>1, <1>3, BooksMove
<1>6. CASE Unsubmitted
  <2>1. commission' = RepriceFromPaidMinor(commission, total, j.at)
    BY <1>6 DEF BuyerRefunded, Unsubmitted
  <2>2. RowIs(commission', IF owed = 0 THEN "cancelled" ELSE commission.status, total, owed,
              commission.paid)
    BY <1>2, <2>1, RefundTransitions
  <2>3. Counted(commission') /\ commission' \in CommissionRow
        /\ commission'.status = (IF owed = 0 THEN "cancelled" ELSE commission.status)
        /\ commission'.paid = commission.paid
    BY <1>4, <2>2 DEF RowIs, Counted
  <2>4. ~AfterSubmission
    BY <1>6 DEF AfterSubmission, Unsubmitted
  <2>5. CASE owed = 0
    BY <1>5, <1>6, <2>3, <2>5, CommissionKinds DEF BecomesCancelled
  <2>6. CASE owed # 0
    BY <1>1, <1>6, <2>3, <2>4, <2>6 DEF StaysOpen, Unsubmitted
  <2> QED BY <2>3, <2>5, <2>6
<1>7. CASE commission.status = "cancelled"
  <2>1. commission' = RecordRefundAfterFinalization(commission, total, j.at)
    BY <1>7 DEF BuyerRefunded, Unsubmitted
  <2>2. RowIs(commission', commission.status, total, commission.payable, commission.paid)
    BY <1>2, <2>1, RefundTransitions
  <2>3. commission' \in CommissionRow /\ commission'.status = "cancelled"
        /\ commission'.paid = commission.paid /\ commission'.refunded = total
    BY <1>7, <2>2 DEF RowIs
  <2> QED BY <1>4, <1>7, <2>3, CommissionKinds DEF BecomesCancelled, Counted
<1>8. CASE InFlight
  <2>1. commission' = RecordRefundAfterSubmission(commission, total, j.at)
    BY <1>8 DEF BuyerRefunded, Unsubmitted, InFlight
  <2>2. RowIs(commission', "exception", total, owed, commission.paid)
    BY <1>2, <2>1, RefundTransitions
  <2>3. commission' \in CommissionRow /\ commission'.status = "exception"
        /\ commission'.paid = commission.paid /\ Counted(commission')
    BY <1>4, <2>2 DEF RowIs, Counted
  <2>4. AfterSubmission
    BY <1>8 DEF AfterSubmission, InFlight
  <2> QED BY <1>1, <1>8, <2>3, <2>4 DEF StaysInFlight
<1> QED BY <1>6, <1>7, <1>8, CommissionKinds

\* The row is held or resumed and says what it said.
LEMMA HoldsOrResumes ==
    ASSUME CInv, UNCHANGED <<clock, funds, splits, unfreezing>>, rechecks' \subseteq rechecks,
           UNCHANGED <<exceptions, revoked>>, due' \in {due, Waiting}, Unsubmitted,
           NEW status \in {"pending", "held"},
           RowIs(commission', status, commission.refunded, commission.payable, commission.paid)
    PROVE  CInv'
<1> USE Facts
<1>1. RevokedForCause'
  BY DEF CInv, RevokedForCause, funds
<1>2. commission' \in CommissionRow /\ Counted(commission') /\ StaysOpen
  BY CommissionKinds DEF Counted, RowIs, StaysOpen, Unsubmitted
<1> QED BY <1>1, <1>2, BooksMove

\* A recheck holds for an open refund or resumes after a failed one.
LEMMA HoldStepsCInv ==
    ASSUME CInv, NEW j \in rechecks, RefundOpened(j) \/ RefundFailed(j)
    PROVE  CInv'
<1> USE Facts
<1>1. j.at \in Nat
  BY DEF Jobs
<1>2. /\ UNCHANGED <<clock, funds, splits, unfreezing>> /\ rechecks' \subseteq rechecks
      /\ UNCHANGED <<exceptions, revoked>> /\ due' \in {due, Waiting}
  BY EnqueuedStates DEF RefundOpened, RefundFailed, RecheckEnds
<1>3. \/ UNCHANGED commission
      \/ /\ commission.status = "pending"
         /\ \E reason \in HoldReasons : commission' = Hold(commission, reason, j.at)
      \/ commission.status = "held" /\ commission' = Resume(commission, j.at)
  BY DEF RefundOpened, RefundFailed, HoldReasons
<1>4. CASE UNCHANGED commission
  BY <1>2, <1>4, BooksStay
<1>5. CASE /\ commission.status = "pending"
           /\ \E reason \in HoldReasons : commission' = Hold(commission, reason, j.at)
  <2>1. RowIs(commission', "held", commission.refunded, commission.payable, commission.paid)
    BY <1>1, <1>5, ZeroIsAmount, Transitions
  <2> QED BY <1>2, <1>5, <2>1, HoldsOrResumes DEF Unsubmitted
<1>6. CASE commission.status = "held" /\ commission' = Resume(commission, j.at)
  <2>1. RowIs(commission', "pending", commission.refunded, commission.payable, commission.paid)
    BY <1>1, <1>6, ZeroIsAmount, Transitions DEF HoldReasons
  <2> QED BY <1>2, <1>6, <2>1, HoldsOrResumes DEF Unsubmitted
<1> QED BY <1>3, <1>4, <1>5, <1>6

\* A recheck revokes for a refunded qualifying purchase.
LEMMA PurchaseRefundedCInv ==
    ASSUME CInv, NEW j \in rechecks, PurchaseRefunded(j)
    PROVE  CInv'
<1> USE Facts
<1>1. j.at \in Nat
  BY DEF Jobs
<1>2. UNCHANGED <<clock, funds, splits, unfreezing>> /\ rechecks' \subseteq rechecks
  BY DEF PurchaseRefunded, RecheckEnds
<1>3. PICK found \in {Qualification, "suspended"} :
        \/ UNCHANGED <<commission, exceptions, revoked, due>>
        \/ /\ commission.status = "pending"
           /\ commission' = Hold(commission, "qualification_refund", j.at)
           /\ due' \in Enqueued
           /\ UNCHANGED <<exceptions, revoked>>
        \/ /\ found = "ineligible" /\ Unsubmitted
           /\ commission' = Cancel(commission, j.at)
           /\ due' \in Enqueued
           /\ UNCHANGED <<exceptions, revoked>>
        \/ /\ commission.status \in {"settling", "paid", "exception"}
           /\ commission' = RevokedAfterSubmission(commission, j.at)
           /\ exceptions' = exceptions \cup {"qualification_revoked_after_paid"}
           /\ revoked' = (revoked \/ found = "ineligible")
           /\ due' \in Enqueued
  BY DEF PurchaseRefunded
<1>4. due' \in {due, Waiting}
  BY <1>3, EnqueuedStates
<1>5. found = "ineligible" => \E q \in Purchases : purchase[q] = "refunded"
  BY IneligibleIsRefunded
<1>6. CASE UNCHANGED <<commission, exceptions, revoked, due>>
  BY <1>2, <1>6, BooksStay
<1>7. CASE /\ commission.status = "pending"
           /\ commission' = Hold(commission, "qualification_refund", j.at)
           /\ UNCHANGED <<exceptions, revoked>>
  <2>1. RowIs(commission', "held", commission.refunded, commission.payable, commission.paid)
    BY <1>1, <1>7, ZeroIsAmount, Transitions DEF HoldReasons
  <2> QED BY <1>2, <1>4, <1>7, <2>1, HoldsOrResumes DEF Unsubmitted
<1>8. CASE /\ found = "ineligible" /\ Unsubmitted
           /\ commission' = Cancel(commission, j.at)
           /\ UNCHANGED <<exceptions, revoked>>
  <2>1. RowIs(commission', "cancelled", commission.refunded, 0, commission.paid)
    BY <1>1, <1>8, ZeroIsAmount, Transitions DEF HoldReasons
  <2>2. commission' \in CommissionRow /\ Counted(commission')
    BY <2>1, CommissionKinds DEF RowIs, Counted
  <2>3. BecomesCancelled
    BY <1>5, <1>8, <2>1, CommissionKinds DEF RowIs, BecomesCancelled, Cause
  <2>4. RevokedForCause'
    BY <1>2, <1>8 DEF CInv, RevokedForCause, funds
  <2> QED BY <1>2, <1>4, <1>8, <2>2, <2>3, <2>4, BooksMove
<1>9. CASE /\ commission.status \in {"settling", "paid", "exception"}
           /\ commission' = RevokedAfterSubmission(commission, j.at)
           /\ exceptions' = exceptions \cup {"qualification_revoked_after_paid"}
           /\ revoked' = (revoked \/ found = "ineligible")
  <2>1. RowIs(commission', "exception", commission.refunded, commission.payable, commission.paid)
    BY <1>1, <1>9, ZeroIsAmount, Transitions DEF HoldReasons, RevokedAfterSubmission
  <2>2. InFlight
    BY <1>9 DEF InFlight
  <2>3. commission' \in CommissionRow /\ Counted(commission')
    BY <2>1, <2>2, CommissionKinds DEF RowIs, Counted
  <2>4. StaysInFlight
    BY <1>9, <2>1, <2>2, CommissionKinds DEF RowIs, StaysInFlight
  <2>5. RevokedForCause' /\ revoked' \in BOOLEAN
    BY <1>2, <1>5, <1>9 DEF CInv, RevokedForCause, funds
  <2>6. exceptions' \subseteq ExceptionKinds
    BY <1>9 DEF ExceptionKinds
  <2> QED BY <1>2, <1>4, <2>3, <2>4, <2>5, <2>6, BooksMove
<1> QED BY <1>3, <1>6, <1>7, <1>8, <1>9

\* Every recheck keeps the invariant.
LEMMA RecheckCInv ==
    ASSUME CInv, NEW j \in rechecks, RunRecheck(j)
    PROVE  CInv'
<1>1. CASE BuyerRefundKnown(j)
  <2>1. /\ UNCHANGED <<clock, funds, splits, unfreezing>> /\ rechecks' \subseteq rechecks
        /\ UNCHANGED <<commission, exceptions, revoked>> /\ due' \in {due, Waiting}
    BY <1>1 DEF BuyerRefundKnown, RecheckEnds
  <2> QED BY <2>1, BooksStay
<1> QED BY <1>1, BuyerRefundedCInv, HoldStepsCInv, PurchaseRefundedCInv DEF RunRecheck

\* River gives a recheck up.
LEMMA DiscardCInv ==
    ASSUME CInv, NEW j \in rechecks, DiscardRecheck(j)
    PROVE  CInv'
<1>1. /\ UNCHANGED <<clock, funds, books, splits, unfreezing, due>>
      /\ rechecks \subseteq Jobs
  BY Facts DEF DiscardRecheck
<1>2. UNCHANGED <<clock, purchase, books, splits, unfreezing, due, refund>>
  BY <1>1 DEF funds
<1>3. rechecks' \subseteq Jobs
  <2>1. [j EXCEPT !.discarded = TRUE, !.at = 0] \in Jobs
    BY <1>1 DEF Jobs
  <2> QED BY <1>1, <2>1 DEF DiscardRecheck
<1>4. /\ refund' \in [Refunds -> RefundRow]
      /\ RefundsFit' /\ SuccessfulRefundMinor' = SuccessfulRefundMinor
  BY <1>2, TypeUnfolds DEF CInv, RefundsFit, Sum, SuccessfulRefundMinor, splits
<1>5. SuccessfulRefundMinor' >= SuccessfulRefundMinor
  BY <1>4, Facts
<1> QED BY <1>2, <1>3, <1>4, <1>5, RefundsGrow

-----------------------------------------------------------------------------
(* Refunds that are not counted yet                                          *)

\* The row counts the same refunds.
Keeps(c, d) == d.refunded = c.refunded /\ d.rewound = c.rewound

\* Only the transitions for refunds change the count.
LEMMA CountIsKept ==
    ASSUME NEW c \in CommissionRow, NEW at, NEW reason, NEW amount
    PROVE  /\ Keeps(c, Hold(c, reason, at)) /\ Keeps(c, Resume(c, at))
           /\ Keeps(c, Cancel(c, at)) /\ Keeps(c, BeginSettlement(c, at))
           /\ Keeps(c, ConfirmReceiverPaid(c, amount, at)) /\ Keeps(c, MarkException(c, at))
           /\ Keeps(c, OnHold(c, reason)) /\ Keeps(c, RevokedAfterSubmission(c, at))
<1> USE DEF Keeps, CommissionRow
<1>1. /\ Keeps(c, Hold(c, reason, at)) /\ Keeps(c, Resume(c, at))
      /\ Keeps(c, Hold(c, reason, clock))
  BY DEF Hold, Resume
<1>2. Keeps(c, Cancel(c, at)) /\ Keeps(c, BeginSettlement(c, at))
  BY DEF Cancel, BeginSettlement
<1>3. Keeps(c, ConfirmReceiverPaid(c, amount, at)) /\ Keeps(c, MarkException(c, at))
  BY DEF ConfirmReceiverPaid, MarkException
<1> QED BY <1>1, <1>2, <1>3 DEF OnHold, RevokedAfterSubmission

\* A step that loses neither a count without noting it nor a recheck.
LEMMA QueueStays ==
    ASSUME CInv, CInv', RefundsAreQueued, SuccessfulRefundMinor' = SuccessfulRefundMinor,
           commission.rewound => commission'.rewound,
           commission'.refunded >= commission.refunded \/ commission'.rewound,
           \A j \in rechecks : Reports(j) => \E k \in rechecks' : Reports(k)
    PROVE  RefundsAreQueued'
<1>1. /\ commission.refunded \in 0 .. Paid /\ commission'.refunded \in 0 .. Paid
      /\ SuccessfulRefundMinor \in 0 .. Paid /\ Paid \in Nat
  <2>1. commission' \in CommissionRow
    BY TypeUnfoldsNext DEF CInv
  <2> QED BY <2>1, Facts DEF CommissionRow
<1> SUFFICES ASSUME commission'.refunded < SuccessfulRefundMinor, ~commission'.rewound
             PROVE  \E k \in rechecks' : Reports(k)
  BY DEF RefundsAreQueued, Reports
<1>2. commission.refunded < SuccessfulRefundMinor /\ ~commission.rewound
  BY <1>1
<1> QED BY <1>2 DEF RefundsAreQueued

\* In particular one that writes neither the row's count nor the queue.
LEMMA QueueUntouched ==
    ASSUME CInv, CInv', RefundsAreQueued, UNCHANGED refund,
           Keeps(commission, commission'),
           \A j \in rechecks : Reports(j) => j \in rechecks'
    PROVE  RefundsAreQueued'
<1>1. SuccessfulRefundMinor' = SuccessfulRefundMinor
  BY DEF SuccessfulRefundMinor, Sum
<1>2. commission.refunded \in 0 .. Paid /\ Paid \in Nat
  BY Facts
<1>3. commission'.refunded >= commission.refunded
  BY <1>2 DEF Keeps
<1> QED BY <1>1, <1>3, QueueStays DEF Keeps

\* Payment's books and the recheck that the refund leaves change together.
LEMMA RefundStepsQueue ==
    ASSUME CInv, CInv', RefundsAreQueued, NEW r \in Refunds,
           RequestRefund(r) \/ ProviderRefunds(r) \/ BookRefund(r) \/ FailRefund(r)
    PROVE  RefundsAreQueued'
<1>1. /\ refund \in [Refunds -> RefundRow] /\ UNCHANGED commission
      /\ commission.refunded \in 0 .. Paid /\ Paid \in Nat /\ rechecks \subseteq rechecks'
  BY Facts, TypeUnfolds DEF RequestRefund, ProviderRefunds, BookRefund, FailRefund, books
<1>2. CASE BookRefund(r)
  <2>1. Recheck(r, "successful", refund[r].at) \in rechecks'
    BY <1>2 DEF BookRefund
  <2>2. Reports(Recheck(r, "successful", refund[r].at))
    BY DEF Reports, Recheck
  <2> QED BY <2>1, <2>2 DEF RefundsAreQueued, Reports
<1>3. CASE ~BookRefund(r)
  <2>1. \A x \in Refunds : refund'[x].status \in {"completed"} <=> refund[x].status \in {"completed"}
    <3>1. \A x \in Refunds : x # r => refund'[x] = refund[x]
      BY <1>1, <1>3 DEF RequestRefund, ProviderRefunds, FailRefund
    <3>2. refund[r].status # "completed" /\ refund'[r].status # "completed"
      <4>1. CASE RequestRefund(r)
        BY <1>1, <4>1 DEF RequestRefund, RefundRow
      <4>2. CASE ProviderRefunds(r)
        BY <1>1, <4>2 DEF ProviderRefunds
      <4>3. CASE FailRefund(r)
        BY <1>1, <4>3 DEF FailRefund
      <4> QED BY <1>3, <4>1, <4>2, <4>3
    <3> QED BY <3>1, <3>2
  <2>2. {x \in Refunds : refund'[x].status \in {"completed"}} =
            {x \in Refunds : refund[x].status \in {"completed"}}
    BY <2>1
  <2>3. SuccessfulRefundMinor' = SuccessfulRefundMinor
    BY <2>2 DEF SuccessfulRefundMinor, Sum
  <2>4. commission'.refunded >= commission.refunded
    BY <1>1
  <2> QED BY <1>1, <2>3, <2>4, QueueStays
<1> QED BY <1>2, <1>3

\* A due check that lowers the count notes it.
LEMMA PrepareQueue ==
    ASSUME CInv, CInv', RefundsAreQueued, Prepare
    PROVE  RefundsAreQueued'
<1>1. /\ due.at = "prepare" /\ Unsubmitted /\ UNCHANGED <<refund, rechecks>>
  BY DEF Prepare, HoldForRefund, CancelRefunded, HoldForLookup, CancelRevoked, MissDeadline,
         Settle, Priced, Preparing, Prepares, funds
<1>2. /\ commission \in CommissionRow /\ commission.refunded \in 0 .. Paid /\ Paid \in Nat
      /\ Current \in CommissionRow
  BY <1>1, Facts, RepricedRow
<1>3. /\ commission.rewound => Current.rewound
      /\ Current.refunded >= commission.refunded \/ Current.rewound
  <2>1. CASE due.refunded > 0
    <3>1. due.refunded \in 0 .. Paid
      BY <1>1 DEF CInv, TypeOK, DueStates, Waiting, Done
    <3>2. /\ Current.refunded = due.refunded
          /\ commission.rewound => Current.rewound
          /\ due.refunded < commission.refunded => Current.rewound
      BY <1>2, <2>1 DEF Current, Repriced, RepriceFromPaidMinor, CommissionRow
    <3>3. due.refunded >= commission.refunded \/ due.refunded < commission.refunded
      BY <1>2, <3>1
    <3> QED BY <3>2, <3>3
  <2>2. CASE ~(due.refunded > 0)
    BY <1>2, <2>2 DEF Current, Repriced
  <2> QED BY <2>1, <2>2
<1>4. Keeps(commission, commission') \/ Keeps(Current, commission')
  <2>1. CASE HoldForRefund
    BY <1>2, <2>1, CountIsKept DEF HoldForRefund, Prepares
  <2>2. CASE CancelRefunded
    BY <2>2 DEF CancelRefunded, Prepares, Current, Keeps
  <2>3. CASE HoldForLookup
    BY <1>2, <2>3, CountIsKept DEF HoldForLookup, Prepares
  <2>4. CASE CancelRevoked
    BY <1>2, <2>4, CountIsKept DEF CancelRevoked, Prepares
  <2>5. CASE MissDeadline
    BY <1>2, <2>5, CountIsKept DEF MissDeadline, Prepares
  <2>6. CASE Settle
    BY <1>2, <2>6, CountIsKept DEF Settle
  <2> QED BY <2>1, <2>2, <2>3, <2>4, <2>5, <2>6 DEF Prepare
<1>5. CASE Keeps(commission, commission')
  BY <1>1, <1>5, QueueUntouched
<1>6. CASE Keeps(Current, commission')
  <2>1. SuccessfulRefundMinor' = SuccessfulRefundMinor
    BY <1>1 DEF SuccessfulRefundMinor, Sum
  <2> QED BY <1>1, <1>3, <1>6, <2>1, QueueStays DEF Keeps
<1> QED BY <1>4, <1>5, <1>6

\* A recheck that reports a refund ends with the total counted; the others leave
\* the count and those rechecks alone.
LEMMA RecheckQueue ==
    ASSUME CInv, CInv', RefundsAreQueued, NEW j \in rechecks, RunRecheck(j)
    PROVE  RefundsAreQueued'
<1> USE Facts
<1>1. UNCHANGED refund /\ rechecks' = rechecks \ {j}
  BY DEF RunRecheck, BuyerRefunded, BuyerRefundKnown, RefundOpened, RefundFailed,
         PurchaseRefunded, RecheckEnds, funds
<1>2. SuccessfulRefundMinor' = SuccessfulRefundMinor
  BY <1>1 DEF SuccessfulRefundMinor, Sum
<1>3. CASE BuyerRefunded(j) \/ BuyerRefundKnown(j)
  <2>1. commission'.refunded = SuccessfulRefundMinor
    <3>1. CASE BuyerRefundKnown(j)
      BY <3>1 DEF BuyerRefundKnown
    <3>2. CASE BuyerRefunded(j)
      <4> DEFINE total == SuccessfulRefundMinor
      <4>1. \/ commission' = RepriceFromPaidMinor(commission, total, j.at)
            \/ commission' = RecordRefundAfterFinalization(commission, total, j.at)
            \/ commission' = RecordRefundAfterSubmission(commission, total, j.at)
        BY <3>2 DEF BuyerRefunded, Unsubmitted
      <4> HIDE DEF total
      <4>2. commission'.refunded = total
        BY <4>1 DEF RepriceFromPaidMinor, RecordRefundAfterFinalization,
                    RecordRefundAfterSubmission, CommissionRow
      <4> QED BY <4>2 DEF total
    <3> QED BY <1>3, <3>1, <3>2
  <2> QED BY <1>2, <2>1 DEF RefundsAreQueued
<1>4. CASE RefundOpened(j) \/ RefundFailed(j) \/ PurchaseRefunded(j)
  <2>1. ~Reports(j)
    BY <1>4, CommissionConstants DEF RefundOpened, RefundFailed, PurchaseRefunded, Reports
  <2>2. Keeps(commission, commission')
    <3>1. \/ UNCHANGED commission
          \/ \E reason : commission' = Hold(commission, reason, j.at)
          \/ commission' = Resume(commission, j.at)
          \/ commission' = Cancel(commission, j.at)
          \/ commission' = RevokedAfterSubmission(commission, j.at)
      BY <1>4 DEF RefundOpened, RefundFailed, PurchaseRefunded
    <3> QED BY <3>1, CountIsKept DEF Keeps
  <2> QED BY <1>1, <2>1, <2>2, QueueUntouched
<1> QED BY <1>3, <1>4 DEF RunRecheck

\* A recheck that is discarded leaves its row.
LEMMA DiscardQueue ==
    ASSUME CInv, CInv', RefundsAreQueued, NEW j \in rechecks, DiscardRecheck(j)
    PROVE  RefundsAreQueued'
<1>1. UNCHANGED <<refund, commission>>
      /\ commission.refunded \in 0 .. Paid /\ Paid \in Nat /\ j \in Jobs
  BY Facts DEF DiscardRecheck, funds, books
<1>2. Reports(j) => \E k \in rechecks' : Reports(k)
  <2>1. Reports(j) => Reports([j EXCEPT !.discarded = TRUE, !.at = 0])
    BY <1>1 DEF Jobs, Reports
  <2> QED BY <2>1 DEF DiscardRecheck
<1>3. \A k \in rechecks : k # j => k \in rechecks'
  BY DEF DiscardRecheck
<1>4. SuccessfulRefundMinor' = SuccessfulRefundMinor
  BY <1>1 DEF SuccessfulRefundMinor, Sum
<1>5. commission'.refunded >= commission.refunded
  BY <1>1
<1> QED BY <1>1, <1>2, <1>3, <1>4, <1>5, QueueStays

\* What is not counted is queued, after every step.
LEMMA NextQueue == CInv /\ CInv' /\ RefundsAreQueued /\ [Next]_vars => RefundsAreQueued'
<1> SUFFICES ASSUME CInv, CInv', RefundsAreQueued, [Next]_vars PROVE RefundsAreQueued'
  OBVIOUS
<1>1. CASE \E r \in Refunds : \/ RequestRefund(r) \/ ProviderRefunds(r)
                              \/ BookRefund(r) \/ FailRefund(r)
  BY <1>1, RefundStepsQueue
<1>2. CASE Prepare
  BY <1>2, PrepareQueue
<1>3. CASE \E j \in Pending : RunRecheck(j) \/ DiscardRecheck(j)
  BY <1>3, RecheckQueue, DiscardQueue DEF Pending
<1>4. CASE \/ \E q \in Purchases : \/ RequestPurchaseRefund(q) \/ RefundPurchase(q)
                                    \/ KeepPurchase(q)
           \/ Preflight \/ Query \/ NothingToDo \/ StartRelease \/ DueFails
           \/ Tick \/ UNCHANGED vars
           \/ ApplyAnswer \/ AcceptUnfreeze \/ FinishUnfreeze \/ RejectUnfreeze
           \/ \E arrives \in BOOLEAN : SendSplit(arrives)
           \/ FailSplit \/ CompleteSplit
           \/ \E outcome \in {"success", "closed"} : SplitEnds(outcome)
  <2>1. UNCHANGED <<refund, commission>> /\ rechecks \subseteq rechecks'
    BY <1>4 DEF RequestPurchaseRefund, RefundPurchase, KeepPurchase, PurchaseChanges, Preflight,
                Query, NothingToDo, StartRelease, DueFails, Tick, vars, ApplyAnswer,
                AcceptUnfreeze, FinishUnfreeze, RejectUnfreeze, SendSplit, FailSplit,
                CompleteSplit, SplitEnds, funds, books
  <2> QED BY <2>1, QueueUntouched DEF Keeps
<1>5. CASE ApplyReconciliation \/ ConfirmUnfreeze
  <2>1. UNCHANGED <<refund, rechecks>>
    BY <1>5 DEF ApplyReconciliation, ConfirmPaid, CancelUnpaid, MarkUnpaid, MarkUnknown,
                ConfirmUnfreeze, funds
  <2>2. \/ UNCHANGED commission
        \/ commission' = ConfirmReceiverPaid(commission, instruction.amount, clock)
        \/ commission' = Cancel(commission, clock)
        \/ commission' = MarkException(commission, clock)
    BY <1>5 DEF ApplyReconciliation, ConfirmPaid, CancelUnpaid, MarkUnpaid, MarkUnknown,
                ConfirmUnfreeze
  <2>3. Keeps(commission, commission')
    BY <2>2, Facts, CountIsKept DEF Keeps
  <2> QED BY <2>1, <2>3, QueueUntouched
<1> QED BY <1>1, <1>2, <1>3, <1>4, <1>5 DEF Next

-----------------------------------------------------------------------------
(* The theorems                                                              *)

\* The commission of the paid event satisfies the invariant.
LEMMA InitCInv == Init => CInv
<1> SUFFICES ASSUME Init PROVE CInv
  OBVIOUS
<1> DEFINE owed == CalculateCommission(Paid)
<1>1. owed \in 0 .. Paid /\ owed = CalculateCommission(Paid - 0)
  <2>1. Paid \in Nat /\ Paid - 0 = Paid
    BY CommissionConstants
  <2> QED BY <2>1, ZeroIsAmount, CalculateType
<1> HIDE DEF owed
<1>2. commission = [status |-> "pending", hold |-> "", refunded |-> 0, paid |-> 0,
                    payable |-> owed, updatedAt |-> 0, rewound |-> FALSE]
  BY DEF Init, owed
<1>3. /\ commission \in CommissionRow /\ commission.status = "pending"
      /\ commission.refunded = 0 /\ commission.paid = 0 /\ commission.payable = owed
  BY <1>1, <1>2, ZeroIsAmount DEF CommissionRow, Statuses, HoldReasons
<1>4. instruction = NoInstruction /\ instruction \in InstructionRow
  BY ZeroIsAmount DEF Init, NoInstruction, InstructionRow
<1>5. TypeOK
  <2>1. refund \in [Refunds -> RefundRow]
    BY DEF Init, RefundRow
  <2>2. due \in DueStates
    BY DEF Init, DueStates
  <2> QED BY <1>3, <1>4, <2>1, <2>2, TypeUnfolds DEF Init
<1>6. /\ {r \in Refunds : refund[r].status # "none"} = {}
      /\ With({"completed"}) = {} /\ With(Leaving) = {}
  BY DEF Init, With, Leaving
<1>7. SuccessfulRefundMinor = 0 /\ Sum(Leaving) = 0
  <2>1. Cardinality({}) = 0 /\ Share * 0 = 0
    BY FS_EmptySet, CommissionConstants
  <2>2. SuccessfulRefundMinor = Share * Cardinality(With({"completed"}))
        /\ Sum(Leaving) = Share * Cardinality(With(Leaving))
    BY DEF SuccessfulRefundMinor, Sum, With
  <2> QED BY <1>6, <2>1, <2>2
<1>8. RefundsFit
  <2>1. 0 + 0 <= Paid
    BY CommissionConstants
  <2> QED BY <1>4, <1>6, <1>7, <2>1, FS_EmptySet DEF RefundsFit, NoInstruction
<1>9. SplitFollows /\ NotReleased
  BY DEF Init, SplitFollows, NotReleased, InPlay, NoInstruction
<1>10. NothingSent /\ ReadIsPast /\ AnswersAreTrue
  BY <1>3, <1>4 DEF Init, NothingSent, ReadIsPast, AnswersAreTrue, Waiting
<1>11. AmountIsOwed /\ RevokedForCause /\ PaidIsReal /\ CancelledForCause
  <2>1. instruction.amount = 0 /\ revoked = FALSE
    BY DEF Init, NoInstruction
  <2> QED BY <1>1, <1>3, <2>1 DEF AmountIsOwed, RevokedForCause, PaidIsReal, CancelledForCause
<1>12. CountsRealRefunds
  BY <1>1, <1>3, <1>7 DEF CountsRealRefunds
<1> QED BY <1>5, <1>8, <1>9, <1>10, <1>11, <1>12 DEF CInv

\* The invariant is inductive.
LEMMA NextCInv == CInv /\ [Next]_vars => CInv'
<1> SUFFICES ASSUME CInv, [Next]_vars PROVE CInv'
  OBVIOUS
<1>1. CASE \E r \in Refunds : \/ RequestRefund(r) \/ ProviderRefunds(r)
                              \/ BookRefund(r) \/ FailRefund(r)
  BY <1>1, RefundStepsCInv
<1>2. CASE \E q \in Purchases : \/ RequestPurchaseRefund(q) \/ RefundPurchase(q)
                                \/ KeepPurchase(q)
  BY <1>2, PurchaseStepsCInv
<1>3. CASE \/ Preflight \/ Query \/ NothingToDo \/ StartRelease \/ DueFails
           \/ Tick \/ UNCHANGED vars
  BY <1>3, DueReadsCInv
<1>4. CASE Prepare
  BY <1>4, PreparesCInv, SettleCInv DEF Prepare
<1>5. CASE ApplyAnswer \/ ApplyReconciliation
  BY <1>5, ApplyAnswerCInv, ApplyCInv
<1>6. CASE AcceptUnfreeze \/ ConfirmUnfreeze \/ FinishUnfreeze \/ RejectUnfreeze
  BY <1>6, ReleaseCInv
<1>7. CASE \/ \E arrives \in BOOLEAN : SendSplit(arrives)
           \/ FailSplit \/ CompleteSplit
           \/ \E outcome \in {"success", "closed"} : SplitEnds(outcome)
  BY <1>7, ProviderStepsCInv
<1>8. CASE \E j \in Pending : RunRecheck(j) \/ DiscardRecheck(j)
  BY <1>8, RecheckCInv, DiscardCInv DEF Pending
<1> QED BY <1>1, <1>2, <1>3, <1>4, <1>5, <1>6, <1>7, <1>8 DEF Next

\* The commission, the split and the refunds agree in every committed state,
\* with everything that the due check carries between its transactions.
THEOREM CommissionInvariant == Spec => []CInv
BY InitCInv, NextCInv, PTL DEF Spec

\* A refund that Payment completed and Distribution has not counted is in River,
\* waiting or discarded, or a stale due check took it out of the count again.
THEOREM UncountedIsQueued == Spec => []RefundsAreQueued
<1>1. Init => RefundsAreQueued
  <2> SUFFICES ASSUME Init PROVE RefundsAreQueued
    OBVIOUS
  <2>1. commission.refunded = 0
    BY DEF Init
  <2>2. With({"completed"}) = {}
    BY DEF Init, With
  <2>3. Share * Cardinality({}) = 0
    BY FS_EmptySet, CommissionConstants
  <2>4. SuccessfulRefundMinor = 0
    BY <2>2, <2>3 DEF SuccessfulRefundMinor, Sum, With
  <2> QED BY <2>1, <2>4 DEF RefundsAreQueued
<1> QED BY <1>1, NextQueue, CommissionInvariant, PTL DEF Spec

\* A commission's row is true for any price, rate and number of refunds: it is
\* paid only when the Provider confirmed the receiver and with the amount that
\* was sent, it counts no refund that Payment does not have and misses none
\* without a recheck or a stale due check to show for it, and a split above what
\* Payment's refunds leave to pay stands in an open exception once they are counted.
THEOREM CommissionIsAlwaysTrue == Spec => []CommissionIsTrue
<1>1. CInv /\ RefundsAreQueued => CommissionIsTrue
  <2> SUFFICES ASSUME CInv, RefundsAreQueued PROVE CommissionIsTrue
    OBVIOUS
  <2>1. OverpaidIsVisible
    <3> SUFFICES ASSUME InPlay \/ split = "success", instruction.amount > Owed,
                        ~(commission.refunded < SuccessfulRefundMinor)
                 PROVE  "buyer_refund_after_paid" \in exceptions
      BY DEF OverpaidIsVisible
    <3>1. /\ commission.refunded \in 0 .. Paid /\ SuccessfulRefundMinor \in 0 .. Paid
          /\ Paid \in Nat
      BY Facts
    <3>2. commission.refunded = SuccessfulRefundMinor
      BY <3>1 DEF CInv, CountsRealRefunds
    <3>3. commission.status # "cancelled"
      BY DEF CInv, CancelledForCause
    <3>4. commission.payable = Owed
      BY <3>2, <3>3 DEF CInv, CountsRealRefunds, Owed
    <3> QED BY <3>3, <3>4 DEF CInv, AmountIsOwed
  <2> QED BY <2>1 DEF CInv, CommissionIsTrue
<1> QED BY <1>1, CommissionInvariant, UncountedIsQueued, PTL

\* A commission is cancelled only when its money can no longer reach the
\* distributor, and only because the refunds leave nothing to pay or a qualifying
\* purchase was refunded: no answer of the Provider erases an obligation.
THEOREM CancelledIsForCause == Spec => []CancelledForCause
<1>1. CInv => CancelledForCause
  BY DEF CInv
<1> QED BY <1>1, CommissionInvariant, PTL

\* As long as the split may still be paid, it and the refunds that Payment counts
\* as done or under way are covered by what the buyer paid, and nobody released
\* the rest, although Distribution decides on facts it read before its
\* transaction.  A refund that was made and that Payment failed is not counted.
THEOREM FundsAlwaysCoverSplit == Spec => []FundsCoverSplit
<1>1. CInv => FundsCoverSplit
  <2> SUFFICES ASSUME CInv, InPlay
               PROVE  Sum(Leaving) + instruction.amount <= Paid /\ unfreeze = "none"
    BY DEF FundsCoverSplit, Leaving
  <2> QED BY DEF CInv, RefundsFit, SplitFollows, NotReleased
<1> QED BY <1>1, CommissionInvariant, PTL
================================================================================
