------------------------------ MODULE Commissions ------------------------------
(***************************************************************************)
(* The commission of one distributed order (internal/distribution) from the *)
(* paid event to the split at WeChat Pay, against the two things that may    *)
(* take it away: refunds of the buyer's order and refunds of the purchases   *)
(* that qualify the distributor.  Payment's part is the funding of the       *)
(* order, the split instruction with its reserve and the unfreeze            *)
(* (payment/app/distribution_settlement.go).                                 *)
(*                                                                         *)
(* One River job per commission, the due check, prepares the settlement and  *)
(* reconciles it; rechecks are River jobs that every refund leaves behind.   *)
(* The due check reads Payment or the Provider outside its transactions.     *)
(***************************************************************************)
EXTENDS Naturals, FiniteSetsExt

CONSTANTS Refunds,       \* refunds of the buyer's order
          Purchases,     \* purchases that qualify the distributor
          Paid,          \* what the buyer paid, in minor units
          Share,         \* what one refund returns
          Rate,          \* commission rate in basis points
          Due, Deadline, \* when the split is due, and when it is too late
          MaxTime        \* bound on the clock

ASSUME CommissionConstants ==
    /\ Paid \in Nat \ {0} /\ Share \in 1 .. Paid
    /\ Rate \in 1 .. 3000
    /\ Due \in Nat /\ Deadline \in Nat /\ MaxTime \in Nat
    /\ Refunds \cap Purchases = {}
    /\ Purchases # {}  \* the distributor was eligible when the order was paid

\* NewCommission gives a commission of nothing a status of its own, which no
\* operation leaves.
ASSUME CommissionIsPositive == Paid * Rate >= 10000

VARIABLES
    clock,
    refund,      \* [Refunds -> Payment's refund, with the time at which the
                 \* Provider returned the money until Payment ends the refund]
    purchase,    \* [Purchases -> state of a qualifying purchase]
    commission,  \* row of distribution_commissions; rewound is history: has a
                 \* due check ever put its refund total back to an older one?
    exceptions,  \* after-sales exceptions that are open, by kind
    revoked,     \* is there a row with reason qualification_revoked_after_paid?
    instruction, \* row of payment_profit_sharing_instructions and its reserve
    effect,      \* External Effect of the instruction
    split,       \* the Provider's record of the split
    unfreeze,    \* row of payment_profit_sharing_unfreezes
    release,     \* the External Effect of the unfreeze
    due,         \* the due check: where it is and what it read
    rechecks     \* refund rechecks in River, the discarded ones too

funds == <<refund, purchase>>
books == <<commission, exceptions, revoked>>
splits == <<instruction, effect, split>>
unfreezing == <<unfreeze, release>>
vars == <<clock, funds, books, splits, unfreezing, due, rechecks>>

Statuses == {"pending", "held", "settling", "paid", "cancelled", "exception"}
HoldReasons == {"", "refund", "qualification_refund", "other"}
ExceptionKinds == {"buyer_refund_after_paid", "qualification_revoked_after_paid"}

CalculateCommission(remaining) == (remaining * Rate) \div 10000

NoInstruction == [state |-> "none", amount |-> 0, known |-> FALSE,
                  success |-> FALSE, reserved |-> 0]
Waiting == [at |-> "waiting"]
Done == [at |-> "done"]

\* ConsumePaidEventWithin: an attributed order is paid, the distributor eligible.
Init ==
    /\ clock = 0
    /\ refund = [r \in Refunds |-> [status |-> "none", at |-> 0]]
    /\ purchase = [q \in Purchases |-> "paid"]
    /\ commission = [status |-> "pending", hold |-> "", refunded |-> 0, paid |-> 0,
                     payable |-> CalculateCommission(Paid), updatedAt |-> 0,
                     rewound |-> FALSE]
    /\ exceptions = {}
    /\ revoked = FALSE
    /\ instruction = NoInstruction
    /\ effect = "none"
    /\ split = "none"
    /\ unfreeze = "none"
    /\ release = "none"
    /\ due = Waiting
    /\ rechecks = {}

-----------------------------------------------------------------------------
(* Payment's refunds, and the jobs they leave                                *)

Sum(statuses) == Share * Cardinality({r \in Refunds : refund[r].status \in statuses})
SuccessfulRefundMinor == Sum({"completed"})
RefundExposure == Sum({"open", "returned"}) > 0
Available == LET taken == SuccessfulRefundMinor + instruction.reserved
             IN IF taken > Paid THEN 0 ELSE Paid - taken

Recheck(about, event, at) ==
    [about |-> about, event |-> event, at |-> at, discarded |-> FALSE]

RequestRefund(r) ==
    /\ refund[r].status = "none"
    /\ ~RefundExposure
    /\ SuccessfulRefundMinor + instruction.reserved + Share <= Paid
    /\ refund' = [refund EXCEPT ![r].status = "open"]
    /\ rechecks' = rechecks \cup {Recheck(r, "opened", clock)}
    /\ UNCHANGED <<clock, purchase, books, splits, unfreezing, due>>

ProviderRefunds(r) ==
    /\ refund[r].status = "open"
    /\ refund' = [refund EXCEPT ![r] = [status |-> "returned", at |-> clock]]
    /\ UNCHANGED <<clock, purchase, books, splits, unfreezing, due, rechecks>>

\* The event carries the time at which the Provider returned the money.
BookRefund(r) ==
    /\ refund[r].status = "returned"
    /\ refund' = [refund EXCEPT ![r] = [status |-> "completed", at |-> 0]]
    /\ rechecks' = rechecks \cup {Recheck(r, "successful", refund[r].at)}
    /\ UNCHANGED <<clock, purchase, books, splits, unfreezing, due>>

\* Every answer of the Provider that is not a success fails the refund for good,
\* that of a Provider who returned the money too: Payment then counts it nowhere.
FailRefund(r) ==
    /\ refund[r].status \in {"open", "returned"}
    /\ refund' = [refund EXCEPT ![r] =
          [status |-> IF @.status = "open" THEN "failed" ELSE "misread", at |-> 0]]
    /\ rechecks' = rechecks \cup {Recheck(r, "final_failed", clock)}
    /\ UNCHANGED <<clock, purchase, books, splits, unfreezing, due>>

\* The qualifying purchases belong to other orders; one refund of each is
\* followed, and one that fails leaves the purchase kept.
PurchaseChanges(q, next, event) ==
    /\ purchase' = [purchase EXCEPT ![q] = next]
    /\ rechecks' = rechecks \cup {Recheck(q, event, clock)}
    /\ UNCHANGED <<clock, refund, books, splits, unfreezing, due>>

RequestPurchaseRefund(q) ==
    purchase[q] = "paid" /\ PurchaseChanges(q, "refunding", "opened")
RefundPurchase(q) ==
    purchase[q] = "refunding" /\ PurchaseChanges(q, "refunded", "successful")
KeepPurchase(q) ==
    purchase[q] = "refunding" /\ PurchaseChanges(q, "kept", "final_failed")

\* CheckWithin: one purchase without a refund is enough; a refund under way
\* proves nothing either way.
Qualification ==
    IF \E q \in Purchases : purchase[q] \in {"paid", "kept"} THEN "eligible"
    ELSE IF \E q \in Purchases : purchase[q] = "refunding" THEN "suspended"
    ELSE "ineligible"

-----------------------------------------------------------------------------
(* The commission's own transitions (distribution/domain)                    *)

Hold(c, reason, at) ==
    [c EXCEPT !.status = "held", !.hold = reason, !.updatedAt = at]

Resume(c, at) == [c EXCEPT !.status = "pending", !.hold = "", !.updatedAt = at]

RepriceFromPaidMinor(c, cumulative, at) ==
    LET payable == CalculateCommission(Paid - cumulative)
    IN [c EXCEPT !.payable = payable, !.refunded = cumulative, !.updatedAt = at,
                 !.status = IF payable = 0 THEN "cancelled" ELSE @,
                 !.rewound = @ \/ cumulative < c.refunded]

\* CancelUnsettled and ConfirmInstructionUnpaid.
Cancel(c, at) ==
    [c EXCEPT !.status = "cancelled", !.payable = 0, !.updatedAt = at]

BeginSettlement(c, at) == [c EXCEPT !.status = "settling", !.hold = "", !.updatedAt = at]

RecordRefundAfterSubmission(c, cumulative, at) ==
    [c EXCEPT !.refunded = cumulative, !.status = "exception", !.updatedAt = at,
              !.payable = CalculateCommission(Paid - cumulative)]

RecordRefundAfterFinalization(c, cumulative, at) ==
    [c EXCEPT !.refunded = cumulative, !.updatedAt = at]

\* What ConfirmReceiverPaid asks of the row.
Confirmable(c, amount) ==
    /\ amount >= 1
    /\ \/ c.status = "settling" /\ amount = c.payable
       \/ c.status = "exception" /\ c.paid = 0 /\ amount >= c.payable

ConfirmReceiverPaid(c, amount, at) ==
    [c EXCEPT !.status = "paid", !.paid = amount, !.updatedAt = at]

MarkException(c, at) ==
    IF c.status = "exception" THEN c
    ELSE [c EXCEPT !.status = "exception", !.updatedAt = at]

\* holdWithin leaves a held commission as it is.
OnHold(c, reason) == IF c.status = "held" THEN c ELSE Hold(c, reason, clock)

-----------------------------------------------------------------------------
(* The due check: RunCommissionDueCheck and what it reads                    *)

Unsubmitted == commission.status \in {"pending", "held"}
Submitted == commission.status \in {"settling", "exception"}
Finished == commission.status \in {"paid", "cancelled"}

\* Fault: a commission on hold waits for a recheck to resume it.
PendingOnly ==
    /\ due = Waiting /\ clock >= Due
    /\ commission.status = "pending"
    /\ due' = [at |-> "prepare", exposure |-> RefundExposure,
               refunded |-> SuccessfulRefundMinor, available |-> Available]
    /\ UNCHANGED <<clock, funds, books, splits, unfreezing, rechecks>>

\* Payment's state and the commission's status, read outside the transaction
\* that acts on them.
Preflight ==
    /\ due = Waiting /\ clock >= Due
    /\ Unsubmitted
    /\ due' = [at |-> "prepare", exposure |-> RefundExposure,
               refunded |-> SuccessfulRefundMinor, available |-> Available]
    /\ UNCHANGED <<clock, funds, books, splits, unfreezing, rechecks>>

\* QueryProfitSharing asks about the receiver of this instruction; an order the
\* Provider does not know is an error.
Query ==
    /\ due = Waiting
    /\ Submitted /\ instruction.state # "none"
    /\ instruction.state # "paid" => split # "none"
    /\ due' = [at |-> "answered", outcome |-> split]
    /\ UNCHANGED <<clock, funds, books, splits, unfreezing, rechecks>>

\* An exception that has no instruction is left to people.
NothingToDo ==
    /\ due = Waiting
    /\ Submitted /\ instruction.state = "none"
    /\ due' = Done
    /\ UNCHANGED <<clock, funds, books, splits, unfreezing, rechecks>>

StartRelease ==
    /\ due = Waiting
    /\ Finished
    /\ due' = [at |-> "release"]
    /\ UNCHANGED <<clock, funds, books, splits, unfreezing, rechecks>>

\* A run that dies, or whose transaction is refused, is repeated.
DueFails ==
    /\ due \notin {Waiting, Done}
    /\ due' = Waiting
    /\ UNCHANGED <<clock, funds, books, splits, unfreezing, rechecks>>

-----------------------------------------------------------------------------
(* prepareSettlement                                                         *)

Repriced(c) ==
    IF due.refunded > 0 THEN RepriceFromPaidMinor(c, due.refunded, clock) ELSE c

Preparing == due.at = "prepare" /\ Unsubmitted /\ clock >= Due

\* Every way in which prepareSettlement changes the commission and no more.
Prepares(next) ==
    /\ commission' = next
    /\ due' = Waiting
    /\ UNCHANGED <<clock, funds, exceptions, revoked, splits, unfreezing, rechecks>>

HoldForRefund ==
    /\ Preparing
    /\ due.exposure
    /\ Prepares(OnHold(commission, "refund"))

CancelRefunded ==
    /\ Preparing
    /\ ~due.exposure
    /\ Repriced(commission).status = "cancelled"
    /\ Prepares(Repriced(commission))

\* The order of the checks after repricing: qualification, receiver, deadline,
\* funds.  A lookup that fails and a receiver that is not ready may happen at
\* any time.
Current == Repriced(commission)
Priced == Preparing /\ ~due.exposure /\ Current.status # "cancelled"

HoldForLookup ==
    /\ Priced
    /\ Prepares(OnHold(Current, "other"))

CancelRevoked ==
    /\ Priced
    /\ Qualification = "ineligible"
    /\ Prepares(Cancel(Current, clock))

\* A payment that is in time now was split-capable when it was read.
InTime == clock < Deadline

MissDeadline ==
    /\ Priced
    /\ Qualification = "eligible"
    /\ ~InTime
    /\ Prepares(MarkException(Current, clock))

\* Fault: Payment accepts a split without looking at its refunds again.
AcceptsBlindly(amount) == amount <= Paid /\ clock < Deadline

\* AcceptProfitSharingWithin reads Payment's facts again, under its lock.
Accepts(amount) == ~RefundExposure /\ Available >= amount /\ clock < Deadline

Settle ==
    LET c == Current
    IN /\ Priced
       /\ Qualification = "eligible"
       /\ InTime
       /\ due.available >= c.payable
       /\ c.payable >= 1
       /\ Accepts(c.payable)
       /\ commission' = BeginSettlement(c, clock)
       /\ instruction' = [state |-> "accepted", amount |-> c.payable, known |-> FALSE,
                          success |-> FALSE, reserved |-> c.payable]
       /\ effect' = "queued"
       /\ due' = Waiting
       /\ UNCHANGED <<clock, funds, exceptions, revoked, split, unfreezing, rechecks>>

-----------------------------------------------------------------------------
(* ReconcileProfitSharing in Payment, then applyReconciliation               *)

\* The Provider's answer becomes the instruction's state; what is paid stays.
ApplyAnswer ==
    /\ due.at = "answered"
    /\ instruction' =
          IF instruction.state = "paid" THEN instruction
          ELSE CASE due.outcome = "success" ->
                      [instruction EXCEPT !.state = "paid", !.known = TRUE,
                                          !.success = TRUE, !.reserved = 0]
                 [] due.outcome = "closed" ->
                      [instruction EXCEPT !.state = "exception", !.known = TRUE,
                                          !.reserved = 0]
                 [] OTHER -> [instruction EXCEPT !.state = "settling"]
    /\ due' = [at |-> "apply", known |-> instruction'.known,
               success |-> instruction'.success]
    /\ UNCHANGED <<clock, funds, books, effect, split, unfreezing, rechecks>>

\* Fault: only a commission that is settling can be paid.
ConfirmSettling ==
    /\ due.at = "apply" /\ due.success
    /\ commission.status = "settling" /\ instruction.amount = commission.payable
    /\ commission' = ConfirmReceiverPaid(commission, instruction.amount, clock)
    /\ due' = [at |-> "release"]
    /\ UNCHANGED <<clock, funds, exceptions, revoked, splits, unfreezing, rechecks>>

\* The receiver has the money.  An exception that is paid stays one, and a row
\* that the payment does not fit refuses it: the run fails.
ConfirmPaid ==
    /\ due.at = "apply" /\ due.success
    /\ \/ /\ commission.status = "exception" /\ commission.paid > 0
          /\ UNCHANGED commission
       \/ /\ Confirmable(commission, instruction.amount)
          /\ commission' = ConfirmReceiverPaid(commission, instruction.amount, clock)
    /\ due' = [at |-> "release"]
    /\ UNCHANGED <<clock, funds, exceptions, revoked, splits, unfreezing, rechecks>>

\* Fault: a split that the Provider closed ends the obligation.
ClosedIsEnough == TRUE

\* closedInstructionBusinessCancellationWithin: the buyer has everything back, or
\* the distributor's qualification was revoked for good.
BusinessCancellation ==
    \/ commission.payable = 0 /\ commission.refunded = Paid
    \/ revoked

CancelUnpaid ==
    /\ due.at = "apply" /\ due.known /\ ~due.success
    /\ BusinessCancellation
    /\ commission.paid = 0
    /\ commission' = Cancel(commission, clock)
    /\ exceptions' = exceptions \ ExceptionKinds
    /\ due' = [at |-> "release"]
    /\ UNCHANGED <<clock, funds, revoked, splits, unfreezing, rechecks>>

MarkUnpaid ==
    /\ due.at = "apply" /\ due.known /\ ~due.success
    /\ ~BusinessCancellation
    /\ commission' = MarkException(commission, clock)
    /\ due' = [at |-> "release"]
    /\ UNCHANGED <<clock, funds, exceptions, revoked, splits, unfreezing, rechecks>>

MarkUnknown ==
    /\ due.at = "apply" /\ ~due.known
    /\ commission' = MarkException(commission, clock)
    /\ due' = Waiting
    /\ UNCHANGED <<clock, funds, exceptions, revoked, splits, unfreezing, rechecks>>

-----------------------------------------------------------------------------
(* releaseRemaining                                                          *)

Unfreezable == ~RefundExposure /\ instruction.reserved = 0

AcceptUnfreeze ==
    /\ due.at = "release"
    /\ \/ /\ unfreeze = "none" /\ Unfreezable
          /\ unfreeze' = "accepted"
          /\ release' = "queued"
          /\ due' = [at |-> "unfreeze"]
       \/ unfreeze # "none" /\ due' = [at |-> "unfreeze"] /\ UNCHANGED unfreezing
       \/ unfreeze = "none" /\ ~Unfreezable /\ due' = Waiting /\ UNCHANGED unfreezing
    /\ UNCHANGED <<clock, funds, books, splits, rechecks>>

\* ReconcileProfitSharingUnfreeze; only a failed unfreeze leaves an exception.
ConfirmUnfreeze ==
    /\ due.at = "unfreeze"
    /\ unfreeze' = IF release = "finished" THEN "succeeded" ELSE unfreeze
    /\ due' = IF unfreeze' \in {"succeeded", "exception"} THEN Done ELSE Waiting
    /\ exceptions' = IF unfreeze' = "exception"
                     THEN exceptions \cup {"unfreeze_final_failed"} ELSE exceptions
    /\ commission' = IF unfreeze' = "exception" /\ commission.status # "cancelled"
                     THEN MarkException(commission, clock) ELSE commission
    /\ UNCHANGED <<clock, funds, revoked, splits, release, rechecks>>

\* CHECK of payment_profit_sharing_unfreezes: the outcome is known exactly of an
\* unfreeze that succeeded.
Writable(state, known) == (state = "succeeded") <=> known

\* The effect of the unfreeze: the Provider finishes the order, or the call fails
\* before it is made and CompleteEffect records that it failed for good.
FinishUnfreeze ==
    /\ release = "queued"
    /\ release' = "finished"
    /\ UNCHANGED <<clock, funds, books, splits, unfreeze, due, rechecks>>

RejectUnfreeze ==
    /\ release = "queued"
    /\ release' = "rejected"
    /\ unfreeze' = IF Writable("exception", TRUE) THEN "exception" ELSE unfreeze
    /\ UNCHANGED <<clock, funds, books, splits, due, rechecks>>

-----------------------------------------------------------------------------
(* The effect of the split and the Provider                                  *)

\* CreateOrder: the request arrives or is lost on its way.
SendSplit(arrives) ==
    /\ effect = "queued"
    /\ effect' = "sent"
    /\ split' = IF arrives THEN "pending" ELSE split
    /\ UNCHANGED <<clock, funds, books, instruction, unfreezing, due, rechecks>>

\* Nothing was sent: CompleteEffect with a final failure.
FailSplit ==
    /\ effect = "queued"
    /\ effect' = "done"
    /\ instruction' = [instruction EXCEPT !.state = "exception", !.known = TRUE]
    /\ UNCHANGED <<clock, funds, books, split, unfreezing, due, rechecks>>

\* An executed call and one with an unknown outcome both leave the instruction
\* to the query.  The row's CHECK refuses a completion that comes after the receiver's success;
\* the kernel then lets the attempt expire.
Completed == IF instruction.success THEN instruction
             ELSE [instruction EXCEPT !.state = "settling"]

CompleteSplit ==
    /\ effect = "sent"
    /\ effect' = "done"
    /\ instruction' = Completed
    /\ UNCHANGED <<clock, funds, books, split, unfreezing, due, rechecks>>

SplitEnds(outcome) ==
    /\ split = "pending"
    /\ split' = outcome
    /\ UNCHANGED <<clock, funds, books, instruction, effect, unfreezing, due, rechecks>>

-----------------------------------------------------------------------------
(* Rechecks: RunRefundRecheck, one transaction each.  The job's time is the   *)
(* refund's, and a transition never goes back before the commission's last    *)
(* change: a job that would is refused, repeated and at last discarded.       *)

\* It tells that the buyer got money back.
Reports(j) == j.about \in Refunds /\ j.event = "successful"

Pending == {j \in rechecks : ~j.discarded}

\* River gives a job up that has failed as often as MaxAttempts allows, be it
\* refused or met by an outage each time.  Of the rows that it leaves behind, the
\* model keeps those of the buyer's successful refunds.
DiscardRecheck(j) ==
    /\ rechecks' = (rechecks \ {j}) \cup
                     (IF Reports(j) THEN {[j EXCEPT !.discarded = TRUE, !.at = 0]} ELSE {})
    /\ UNCHANGED <<clock, funds, books, splits, unfreezing, due>>

InOrder(j) == j.at >= commission.updatedAt

\* River keeps one due check per commission, and a completed one counts until
\* it is cleaned away.
Enqueued == IF due = Done THEN {Waiting, Done} ELSE {due}

RecheckEnds(j) ==
    /\ rechecks' = rechecks \ {j}
    /\ UNCHANGED <<clock, funds, splits, unfreezing>>

\* Fault: a refund needs an exception only once the commission is paid.
AfterPaid == commission.status \in {"paid", "exception"} /\ commission.paid > 0

\* recordPostSubmissionBuyerRefundWithin opens an exception.
AfterSubmission == commission.status \in {"settling", "paid", "exception"}

\* applyBuyerRefundWithin.  The total is Payment's, read in the transaction, so
\* rechecks may run in any order and more than once.
BuyerRefunded(j) ==
    LET total == SuccessfulRefundMinor
    IN /\ Reports(j)
       /\ total > commission.refunded
       /\ InOrder(j)
       /\ commission' =
             CASE Unsubmitted -> RepriceFromPaidMinor(commission, total, j.at)
               [] commission.status = "cancelled" ->
                    RecordRefundAfterFinalization(commission, total, j.at)
               [] OTHER -> RecordRefundAfterSubmission(commission, total, j.at)
       /\ exceptions' = IF AfterSubmission
                        THEN exceptions \cup {"buyer_refund_after_paid"}
                        ELSE exceptions
       /\ due' \in Enqueued
       /\ RecheckEnds(j) /\ UNCHANGED revoked

BuyerRefundKnown(j) ==
    /\ Reports(j)
    /\ SuccessfulRefundMinor = commission.refunded
    /\ RecheckEnds(j) /\ UNCHANGED <<commission, exceptions, revoked, due>>

\* applyBuyerRefundExposureWithin and applyQualificationRefundExposureWithin:
\* a refund that opens holds a pending commission; a different purchase keeps the
\* distributor eligible.
RefundOpened(j) ==
    LET concerned == j.about \in Refunds \/ Qualification # "eligible"
        reason == IF j.about \in Refunds THEN "refund" ELSE "qualification_refund"
    IN /\ j.event = "opened"
       /\ \/ /\ concerned /\ commission.status = "pending"
             /\ InOrder(j)
             /\ commission' = Hold(commission, reason, j.at)
             /\ due' \in Enqueued
          \/ /\ concerned /\ commission.status # "pending"
             /\ due' \in IF commission.status = "cancelled" THEN {due} ELSE Enqueued
             /\ UNCHANGED commission
          \/ ~concerned /\ UNCHANGED <<commission, due>>
       /\ RecheckEnds(j) /\ UNCHANGED <<exceptions, revoked>>

\* Only the hold that a refund caused ends with it, and only when nothing else
\* of the kind is under way.
Lifts(j) ==
    IF j.about \in Refunds THEN ~RefundExposure /\ commission.hold = "refund"
    ELSE Qualification = "eligible" /\ commission.hold = "qualification_refund"

RefundFailed(j) ==
    /\ j.event = "final_failed"
    /\ \/ /\ commission.status = "held" /\ Lifts(j)
          /\ InOrder(j)
          /\ commission.payable >= 1
          /\ commission' = Resume(commission, j.at)
       \/ ~(commission.status = "held" /\ Lifts(j)) /\ UNCHANGED commission
    /\ due' \in IF commission.status = "cancelled" THEN {due} ELSE Enqueued
    /\ RecheckEnds(j) /\ UNCHANGED <<exceptions, revoked>>

\* markQualificationExceptionWithin
RevokedAfterSubmission(c, at) == MarkException(c, at)

\* applyQualificationRefundWithin, with the qualification as it is now; the
\* lookup may fail.
PurchaseRefunded(j) ==
    /\ j.about \in Purchases /\ j.event = "successful"
    /\ \E found \in {Qualification, "suspended"} :
        \/ /\ found = "eligible" \/ commission.status = "cancelled"
                \/ (found = "suspended" /\ commission.status = "held")
           /\ UNCHANGED <<commission, exceptions, revoked, due>>
        \/ /\ found = "suspended" /\ commission.status = "pending"
           /\ InOrder(j)
           /\ commission' = Hold(commission, "qualification_refund", j.at)
           /\ due' \in Enqueued
           /\ UNCHANGED <<exceptions, revoked>>
        \/ /\ found = "ineligible" /\ Unsubmitted
           /\ InOrder(j)
           /\ commission' = Cancel(commission, j.at)
           /\ due' \in Enqueued
           /\ UNCHANGED <<exceptions, revoked>>
        \/ /\ found # "eligible"
           /\ commission.status \in {"settling", "paid", "exception"}
           /\ commission.status # "exception" => InOrder(j)
           /\ commission' = RevokedAfterSubmission(commission, j.at)
           /\ exceptions' = exceptions \cup {"qualification_revoked_after_paid"}
           /\ revoked' = (revoked \/ found = "ineligible")
           /\ due' \in Enqueued
    /\ RecheckEnds(j)

Tick ==
    /\ clock < MaxTime
    /\ clock' = clock + 1
    /\ UNCHANGED <<funds, books, splits, unfreezing, due, rechecks>>

Prepare == \/ HoldForRefund \/ CancelRefunded \/ HoldForLookup \/ CancelRevoked
           \/ MissDeadline \/ Settle
ApplyReconciliation == ConfirmPaid \/ CancelUnpaid \/ MarkUnpaid \/ MarkUnknown
RunRecheck(j) == \/ BuyerRefunded(j) \/ BuyerRefundKnown(j) \/ RefundOpened(j)
                 \/ RefundFailed(j) \/ PurchaseRefunded(j)

Next ==
    \/ \E r \in Refunds : \/ RequestRefund(r) \/ ProviderRefunds(r)
                          \/ BookRefund(r) \/ FailRefund(r)
    \/ \E q \in Purchases : \/ RequestPurchaseRefund(q) \/ RefundPurchase(q)
                            \/ KeepPurchase(q)
    \/ Preflight \/ Query \/ NothingToDo \/ StartRelease \/ DueFails
    \/ Prepare
    \/ ApplyAnswer \/ ApplyReconciliation
    \/ AcceptUnfreeze \/ ConfirmUnfreeze \/ FinishUnfreeze \/ RejectUnfreeze
    \/ \E arrives \in BOOLEAN : SendSplit(arrives)
    \/ FailSplit
    \/ CompleteSplit
    \/ \E outcome \in {"success", "closed"} : SplitEnds(outcome)
    \/ \E j \in Pending : RunRecheck(j) \/ DiscardRecheck(j)
    \/ Tick

Spec == Init /\ [][Next]_vars

\* River runs the due check again for as long as it snoozes, and not every run of
\* it dies or meets a failing lookup; it runs every recheck, and a refused one
\* again, until it gives it up.  Nothing is assumed of refunds, of the Provider or
\* of the clock.
Fairness ==
    /\ WF_vars(Preflight) /\ WF_vars(Query) /\ WF_vars(StartRelease)
    /\ WF_vars(DueFails)
    /\ SF_vars(Prepare) /\ SF_vars(Settle)
    /\ SF_vars(ApplyAnswer) /\ SF_vars(ApplyReconciliation)
    /\ SF_vars(AcceptUnfreeze) /\ SF_vars(ConfirmUnfreeze)
    /\ \A x \in Refunds \cup Purchases :
          WF_vars(\E j \in Pending : j.about = x /\ RunRecheck(j))

FairSpec == Spec /\ Fairness

-----------------------------------------------------------------------------
(* Properties                                                                *)

DueStates ==
    {Waiting, Done} \cup [at : {"release", "unfreeze"}]
    \cup [at : {"prepare"}, exposure : BOOLEAN,
          refunded : 0 .. Paid, available : 0 .. Paid]
    \cup [at : {"answered"}, outcome : {"none", "pending", "success", "closed"}]
    \cup [at : {"apply"}, known : BOOLEAN, success : BOOLEAN]

TypeOK ==
    /\ clock \in Nat
    /\ refund \in [Refunds -> [status : {"none", "open", "returned", "completed",
                                         "failed", "misread"}, at : Nat]]
    /\ purchase \in [Purchases -> {"paid", "kept", "refunding", "refunded"}]
    /\ commission \in [status : Statuses, hold : HoldReasons, refunded : 0 .. Paid,
                       payable : 0 .. Paid, paid : 0 .. Paid, updatedAt : Nat,
                       rewound : BOOLEAN]
    /\ exceptions \subseteq ExceptionKinds
    /\ revoked \in BOOLEAN
    /\ instruction \in [state : {"none", "accepted", "settling", "paid", "exception"},
                        amount : 0 .. Paid, known : BOOLEAN, success : BOOLEAN,
                        reserved : 0 .. Paid]
    /\ effect \in {"none", "queued", "sent", "done"}
    /\ split \in {"none", "pending", "success", "closed"}
    /\ unfreeze \in {"none", "accepted", "succeeded"}
    /\ release \in {"none", "queued", "finished", "rejected"}
    /\ due \in DueStates
    /\ rechecks \subseteq [about : Refunds \cup Purchases, at : Nat,
                           event : {"opened", "successful", "final_failed"},
                           discarded : BOOLEAN]

\* The split may still reach the distributor.
InPlay == effect = "queued" \/ split = "pending"

\* A commission is shown as paid only when the Provider confirmed the receiver,
\* and the amount is the one that was sent, although refunds and a revocation
\* may change the commission between the two (docs/prd/2026-09-14, section 9:
\* neither an HTTP success nor a finished order is an arrival).
PaidIsReal ==
    /\ commission.paid > 0 => split = "success" /\ commission.paid = instruction.amount
    /\ commission.status = "paid" => commission.paid > 0

\* A commission is cancelled only when the money cannot reach the distributor
\* any more, and only because the buyer's refunds leave nothing to pay or because
\* the distributor lost a purchase: a Provider that refuses erases no obligation.
CancelledForCause ==
    commission.status = "cancelled" =>
        /\ ~InPlay /\ split # "success"
        /\ \/ CalculateCommission(Paid - SuccessfulRefundMinor) = 0
           \/ \E q \in Purchases : purchase[q] = "refunded"

\* Two domains draw on one payment: while the split may still be paid, the split
\* and every refund that Payment counts, completed or under way, are covered by
\* what was paid, and nobody has asked the Provider to release the rest.  A refund
\* that the Provider made and Payment failed ("misread") is the named exception:
\* Payment offers its amount again.
FundsCoverSplit ==
    InPlay => /\ Sum({"open", "returned", "completed"}) + instruction.amount <= Paid
              /\ unfreeze = "none"

\* What the refunds that Payment completed leave to pay.
Owed == CalculateCommission(Paid - SuccessfulRefundMinor)

\* Distribution never counts refunds that Payment does not have, and what its
\* row shows as payable follows from what it counted.
CountsRealRefunds ==
    /\ commission.refunded <= SuccessfulRefundMinor
    /\ commission.status # "cancelled" =>
          commission.payable = CalculateCommission(Paid - commission.refunded)

\* A refund that Distribution has not counted yet is not forgotten: its recheck
\* is in River, waiting or discarded after its last attempt.  The exception is a
\* due check that put a stale total over one that rechecks had already counted.
RefundsAreQueued ==
    commission.refunded < SuccessfulRefundMinor =>
        \/ \E j \in rechecks : Reports(j)
        \/ commission.rewound

\* A split that was or may be paid and is more than the buyer's refunds leave to
\* pay is an open exception, as soon as Distribution has counted those refunds.
OverpaidIsVisible ==
    (InPlay \/ split = "success") /\ instruction.amount > Owed =>
        \/ "buyer_refund_after_paid" \in exceptions
        \/ commission.refunded < SuccessfulRefundMinor

\* The commission's row tells the truth: about the split, about the buyer's
\* refunds in Payment's books, and about what was paid and is no longer owed.
\* What it does not know yet is left in a recheck; the parts above name the two
\* ways in which it may stay that way, a discarded job and a stale due check.
CommissionIsTrue ==
    TypeOK /\ PaidIsReal /\ CountsRealRefunds /\ RefundsAreQueued /\ OverpaidIsVisible

\* Money that reached the distributor is booked in the end, whatever refunds,
\* revocations, dying runs and late completions came between.
SplitIsBooked == split = "success" ~> commission.paid > 0

\* A commission on hold is not forgotten: it does not stay unsubmitted while it
\* is due, in time and payable for good, although no recheck may wake it.
Ripe == /\ Unsubmitted
        /\ clock >= Due /\ clock < Deadline
        /\ Qualification = "eligible"
        /\ ~RefundExposure

HoldsEnd == []<>~Ripe

\* What the preflight comment promises: the state read before the transaction
\* never authorizes a payment that is stale when it is accepted.
SplitIsCurrent ==
    [][instruction.state = "none" /\ instruction'.state = "accepted" =>
          instruction'.amount <= Owed]_vars

\* Every successful refund is recorded in the end, after the commission was paid
\* too (docs/prd/2026-09-14, section 8), if River never gives its recheck up.
RefundsAreRecorded ==
    \A r \in Refunds :
        refund[r].status = "completed" ~>
            \/ commission.refunded = SuccessfulRefundMinor
            \/ \E j \in rechecks : j.discarded

\* A split that is more than what is owed is found out: by an exception, or by a
\* recheck that is still to run.
OverpaymentIsFound ==
    (InPlay \/ split = "success") /\ instruction.amount > Owed =>
        \/ "buyer_refund_after_paid" \in exceptions
        \/ \E j \in rechecks : Reports(j)

\* What went back to the buyer and the split that may be paid are covered by what
\* was paid, whatever Payment made of the Provider's answers.
ReturnedCoversSplit ==
    InPlay => Sum({"open", "returned", "completed", "misread"}) + instruction.amount <= Paid

\* A release that failed for good is an explicit exception (releaseRemaining).
FailedReleaseIsReported ==
    release = "rejected" ~> "unfreeze_final_failed" \in exceptions
=============================================================================
