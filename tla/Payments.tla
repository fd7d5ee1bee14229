------------------------------- MODULE Payments -------------------------------
(***************************************************************************)
(* One WeChat Pay checkout: the payment, its refunds and the order they     *)
(* settle (internal/payment, internal/order), the Provider at which the     *)
(* money really moves, and the three ways in which Payment hears of it: the *)
(* completion of the External Effect, the Provider's callback and the       *)
(* answer to a reconciliation query.                                        *)
(*                                                                         *)
(* A committed transaction is one step.  A query is read outside any        *)
(* transaction and applied in a later one, so its answer may be stale.      *)
(***************************************************************************)
EXTENDS Naturals, FiniteSets, Functions

CONSTANTS Refunds,       \* refund numbers
          Amount,        \* what the order costs, in minor units
          Second,        \* clock ticks in one second of the Provider's time
          MaxTime,       \* bound on the clock
          MaxQueries,    \* bound on answers read and not yet applied
          LateCalls      \* may a process call the Provider after its lease?

ASSUME AmountAssumption == Amount \in Nat \ {0}

ASSUME ClockAssumption ==
    /\ Second \in Nat \ {0}
    /\ MaxTime \in Nat
    /\ MaxQueries \in Nat

ASSUME FaultAssumption == LateCalls \in BOOLEAN

ASSUME RefundAssumption == "payment" \notin Refunds

\* What an effect, a query or a reconciliation job is about.
Targets == {"payment"} \cup Refunds

VARIABLES
    clock,      \* the server's clock
    payment,    \* row of payments, with its handoff
    order,      \* row of orders
    refund,     \* [Refunds -> row of payment_refunds]
    split,      \* what profit sharing has reserved of the payment
    effect,     \* [Targets -> state of the External Effect]
    trade,      \* the Provider's record of the payment
    moneyBack,  \* [Refunds -> the Provider's record of the refund]
    receipts,   \* callbacks claimed in payment_callback_receipts
    jobs,       \* payment-reconciliation jobs in River
    discarded,  \* jobs that River gave up
    queries     \* answers of the Provider not yet applied

vars == <<clock, payment, order, refund, split, effect, trade, moneyBack,
          receipts, jobs, discarded, queries>>

PaymentStatuses == {"absent", "awaiting_prepay", "awaiting_payment", "paid", "failed"}

RefundStatuses ==
    {"absent", "effect_accepted", "outcome_unknown", "completed", "final_failed"}

OrderStatuses == {"absent", "pending_payment", "paid", "payment_failed",
                  "partially_refunded", "refunded"}

EffectStates == {"absent", "queued", "attempted", "executed", "outcome_unknown",
                 "retryable_failed", "final_failed", "cancelled"}

Completions == {"executed", "outcome_unknown", "retryable_failed", "final_failed"}

Answers == [target : Targets, outcome : {"pending", "success", "closed"}, at : Nat]

Unsettled == {"awaiting_prepay", "awaiting_payment"}
NonTerminal == {"effect_accepted", "outcome_unknown"}

Init ==
    /\ clock = 0
    /\ payment = [status |-> "absent", updatedAt |-> 0, handoff |-> FALSE]
    /\ order = [status |-> "absent", refunded |-> 0, updatedAt |-> 0]
    /\ refund = [r \in Refunds |-> [status |-> "absent", amount |-> 0, updatedAt |-> 0]]
    /\ split = 0
    /\ effect = [x \in Targets |-> "absent"]
    /\ trade = [state |-> "none", at |-> 0]
    /\ moneyBack = [r \in Refunds |-> [state |-> "none", at |-> 0]]
    /\ receipts = {}
    /\ jobs = {}
    /\ discarded = {}
    /\ queries = {}

-----------------------------------------------------------------------------
(* Order: SettlePaymentWithin joins the caller's transaction and may refuse  *)
(* the whole of it.                                                          *)

RefundAdmitted(delta, at) ==
    /\ order.status \in {"paid", "partially_refunded"}
    /\ order.refunded + delta <= Amount
    /\ at >= order.updatedAt

\* Fault: the order's total is left to the next reader to work out.
RefundUncounted(delta, at) == [order EXCEPT !.updatedAt = at]

RefundBooked(delta, at) ==
    [status    |-> IF order.refunded + delta = Amount
                   THEN "refunded" ELSE "partially_refunded",
     refunded  |-> order.refunded + delta,
     updatedAt |-> at]

SettleRefund(delta, at) ==
    /\ RefundAdmitted(delta, at)
    /\ order' = RefundBooked(delta, at)

SettlePayment(next, at) ==
    /\ order.status = "pending_payment"
    /\ at >= order.updatedAt
    /\ order' = [order EXCEPT !.status = next, !.updatedAt = at]

-----------------------------------------------------------------------------
(* Payment's own rows                                                        *)

\* Payment.Settle with UpdatePaymentSettlement.
Settle(next, at) ==
    /\ payment.status \in Unsettled
    /\ at >= payment.updatedAt
    /\ payment' = [payment EXCEPT !.status = next, !.updatedAt = at]

\* Refund.Complete with UpdateRefundSettlement.
Complete(r, next, at) ==
    /\ refund[r].status \in NonTerminal
    /\ at >= refund[r].updatedAt
    /\ refund' = [refund EXCEPT ![r].status = next, ![r].updatedAt = at]

SumOf(statuses) ==
    SumFunctionOnSet([r \in Refunds |-> refund[r].amount],
                     {r \in Refunds : refund[r].status \in statuses})

ReservedRefundMinor == SumOf(NonTerminal \cup {"completed"})

HasNonTerminalRefund == \E r \in Refunds : refund[r].status \in NonTerminal

-----------------------------------------------------------------------------
(* Commands                                                                  *)

\* Create: order, payment, effect and the session's consumption in one
\* transaction.  A repetition with the same key changes nothing.
Create ==
    /\ payment.status = "absent"
    /\ payment' = [payment EXCEPT !.status = "awaiting_prepay", !.updatedAt = clock]
    /\ order' = [order EXCEPT !.status = "pending_payment", !.updatedAt = clock]
    /\ effect' = [effect EXCEPT !["payment"] = "queued"]
    /\ UNCHANGED <<clock, refund, split, trade, moneyBack, receipts, jobs,
                   discarded, queries>>

\* RequestRefund, under the lock of the payment row.
RequestRefund(r, amount) ==
    /\ refund[r].status = "absent"
    /\ payment.status = "paid"
    /\ ~HasNonTerminalRefund
    /\ amount + ReservedRefundMinor + split <= Amount
    /\ refund' = [refund EXCEPT ![r] =
          [status |-> "effect_accepted", amount |-> amount, updatedAt |-> clock]]
    /\ effect' = [effect EXCEPT ![r] = "queued"]
    /\ UNCHANGED <<clock, payment, order, split, trade, moneyBack, receipts,
                   jobs, discarded, queries>>

\* Fault: a split is granted while a refund is under way.
IgnoresExposure == TRUE

NoRefundExposure == ~HasNonTerminalRefund

\* AcceptProfitSharingWithin: an order has one commission and a commission one
\* open instruction.
ReserveSplit(amount) ==
    /\ split = 0
    /\ payment.status = "paid"
    /\ NoRefundExposure
    /\ amount + SumOf({"completed"}) <= Amount
    /\ split' = amount
    /\ UNCHANGED <<clock, payment, order, refund, effect, trade, moneyBack,
                   receipts, jobs, discarded, queries>>

\* ReleaseProfitSharingReserve: the receiver was paid, or will not be.
ReleaseSplit ==
    /\ split > 0
    /\ split' = 0
    /\ UNCHANGED <<clock, payment, order, refund, effect, trade, moneyBack,
                   receipts, jobs, discarded, queries>>

-----------------------------------------------------------------------------
(* The Provider (external).  It reports its times in whole seconds of a clock *)
(* of its own, and nothing ties that clock to the server's.                  *)

WholeSecond(t) == t - (t % Second)

ProviderTimes == {WholeSecond(t) : t \in 0 .. MaxTime}

Performed(x) ==
    IF x = "payment" THEN trade.state # "none" ELSE moneyBack[x].state # "none"

\* The call arrives: while the attempt runs, or after it was given up.
Perform(x) ==
    /\ effect[x] = "attempted" \/ (LateCalls /\ effect[x] = "outcome_unknown")
    /\ ~Performed(x)
    /\ IF x = "payment"
       THEN trade' = [trade EXCEPT !.state = "open"] /\ UNCHANGED moneyBack
       ELSE /\ moneyBack' = [moneyBack EXCEPT ![x].state = "processing"]
            /\ UNCHANGED trade
    /\ UNCHANGED <<clock, payment, order, refund, split, effect, receipts, jobs,
                   discarded, queries>>

\* The buyer pays with the credential of the handoff.
BuyerPays(at) ==
    /\ trade.state = "open"
    /\ payment.handoff
    /\ trade' = [state |-> "paid", at |-> at]
    /\ UNCHANGED <<clock, payment, order, refund, split, effect, moneyBack,
                   receipts, jobs, discarded, queries>>

\* The credential expires unused and the trade is closed.
TradeCloses ==
    /\ trade.state = "open"
    /\ trade' = [trade EXCEPT !.state = "closed"]
    /\ UNCHANGED <<clock, payment, order, refund, split, effect, moneyBack,
                   receipts, jobs, discarded, queries>>

RefundEnds(r) ==
    /\ moneyBack[r].state = "processing"
    /\ \/ \E at \in ProviderTimes :
             moneyBack' = [moneyBack EXCEPT ![r] = [state |-> "success", at |-> at]]
       \/ moneyBack' = [moneyBack EXCEPT ![r].state = "closed"]
    /\ UNCHANGED <<clock, payment, order, refund, split, effect, trade,
                   receipts, jobs, discarded, queries>>

-----------------------------------------------------------------------------
(* The External Effects kernel (see ExternalEffects and EffectContract)      *)

Attempt(x) ==
    /\ effect[x] = "queued"
    /\ effect' = [effect EXCEPT ![x] = "attempted"]
    /\ UNCHANGED <<clock, payment, order, refund, split, trade, moneyBack,
                   receipts, jobs, discarded, queries>>

\* WeChatPay.Execute: a failure before the dispatch may be retried, any error
\* after it is unknown, and every answer outside 2xx is a final rejection, that
\* of a server that fails after it has performed the call included.
Answered(x, completion) ==
    \/ completion = "executed" /\ Performed(x)
    \/ completion = "outcome_unknown"
    \/ completion = "retryable_failed" /\ ~Performed(x)
    \/ completion = "final_failed"

\* Fault: the prepay's completion overwrites a payment that is settled.
PrepayAlways == TRUE

PrepayPending == payment.status = "awaiting_prepay"

\* CompleteEffectWithin and CompletionSink for the prepay.
PrepayCompletes(completion) ==
    \/ /\ completion = "executed"
       /\ PrepayPending
       /\ payment' = [status |-> "awaiting_payment", updatedAt |-> clock,
                      handoff |-> TRUE]
       /\ jobs' = jobs \cup {"payment"}
       /\ UNCHANGED order
    \/ /\ completion = "outcome_unknown"
       /\ jobs' = jobs \cup {"payment"}
       /\ UNCHANGED <<payment, order>>
    \/ /\ completion = "retryable_failed"
       /\ UNCHANGED <<payment, order, jobs>>
    \/ /\ completion = "final_failed"
       /\ PrepayPending
       /\ payment' = [payment EXCEPT !.status = "failed", !.updatedAt = clock]
       /\ SettlePayment("payment_failed", clock)
       /\ UNCHANGED jobs

AwaitsOutcome(r) == refund[r].status = "effect_accepted"

\* Fault: a call that was executed is a refund that was made.
ExecutedIsRefunded(r, completion) ==
    /\ refund' = IF AwaitsOutcome(r) /\ completion = "executed"
                 THEN [refund EXCEPT ![r].status = "completed"] ELSE refund
    /\ UNCHANGED jobs

\* The same for a refund: an executed call is not yet a refund, and a refund
\* that is already settled is left alone.
RefundCompletes(r, completion) ==
    /\ IF completion \in {"outcome_unknown", "final_failed"} /\ AwaitsOutcome(r)
       THEN refund' = [refund EXCEPT ![r].status = completion,
                                     ![r].updatedAt = clock]
       ELSE UNCHANGED refund
    /\ jobs' = IF completion \in {"executed", "outcome_unknown"}
               THEN jobs \cup {r} ELSE jobs

\* RunAttempt's second transaction.
CompleteEffect(x, completion) ==
    /\ effect[x] = "attempted"
    /\ Answered(x, completion)
    /\ effect' = [effect EXCEPT ![x] = completion]
    /\ IF x = "payment"
       THEN PrepayCompletes(completion) /\ UNCHANGED refund
       ELSE RefundCompletes(x, completion) /\ UNCHANGED <<payment, order>>
    /\ UNCHANGED <<clock, split, trade, moneyBack, receipts, discarded,
                   queries>>

\* The recovery of an expired lease, an administrator's retry and an
\* administrator's cancellation do not tell Payment.
EffectMoves(x) ==
    /\ \/ effect[x] = "attempted" /\ effect' = [effect EXCEPT ![x] = "outcome_unknown"]
       \/ effect[x] = "retryable_failed" /\ effect' = [effect EXCEPT ![x] = "queued"]
       \/ effect[x] = "queued" /\ effect' = [effect EXCEPT ![x] = "cancelled"]
    /\ UNCHANGED <<clock, payment, order, refund, split, trade, moneyBack,
                   receipts, jobs, discarded, queries>>

-----------------------------------------------------------------------------
(* Callbacks: delivered late, in any order, any number of times              *)

SettlePaid(at) == Settle("paid", at) /\ SettlePayment("paid", at)

\* ApplyVerifiedCallback for a payment.  The first notice settles; a later one
\* for a payment that is paid only leaves its receipt.
PaymentCallback ==
    /\ trade.state = "paid"
    /\ \/ /\ payment.status = "paid"
          /\ UNCHANGED <<payment, order>>
       \/ /\ payment.status # "paid"
          /\ "payment" \notin receipts
          /\ SettlePaid(trade.at)
    /\ receipts' = receipts \cup {"payment"}
    /\ UNCHANGED <<clock, refund, split, effect, trade, moneyBack, jobs,
                   discarded, queries>>

RefundCallback(r) ==
    /\ moneyBack[r].state = "success"
    /\ r \notin receipts
    /\ receipts' = receipts \cup {r}
    /\ Complete(r, "completed", moneyBack[r].at)
    /\ SettleRefund(refund[r].amount, moneyBack[r].at)
    /\ UNCHANGED <<clock, payment, split, effect, trade, moneyBack, jobs,
                   discarded, queries>>

-----------------------------------------------------------------------------
(* Reconciliation: a River job or an administrator asks the Provider.        *)

\* An unknown number is an error of the query.  A time that the Provider does
\* not report is the time of the query.
PaymentAnswer ==
    [target  |-> "payment",
     outcome |-> CASE trade.state = "paid"   -> "success"
                   [] trade.state = "closed" -> "closed"
                   [] OTHER                  -> "pending",
     at      |-> IF trade.state = "paid" THEN trade.at ELSE clock]

RefundAnswer(r) ==
    [target  |-> r,
     outcome |-> CASE moneyBack[r].state = "success" -> "success"
                   [] moneyBack[r].state = "closed"  -> "closed"
                   [] OTHER                          -> "pending",
     at      |-> IF moneyBack[r].state = "success" THEN moneyBack[r].at ELSE clock]

Queryable(x) ==
    IF x = "payment" THEN payment.status \in Unsettled \cup {"paid"}
    ELSE refund[x].status \in NonTerminal \cup {"completed"}

Ask(x) ==
    /\ Cardinality(queries) < MaxQueries
    /\ Queryable(x)
    /\ Performed(x)
    /\ queries' = queries \cup {IF x = "payment" THEN PaymentAnswer ELSE RefundAnswer(x)}
    /\ UNCHANGED <<clock, payment, order, refund, split, effect, trade,
                   moneyBack, receipts, jobs, discarded>>

\* The process dies before the answer is applied, or the transaction refuses it.
Forget(q) ==
    /\ queries' = queries \ {q}
    /\ UNCHANGED <<clock, payment, order, refund, split, effect, trade,
                   moneyBack, receipts, jobs, discarded>>

Terminal(x) ==
    IF x = "payment" THEN payment.status \in {"paid", "failed"}
    ELSE refund[x].status \in {"completed", "final_failed"}

\* Fault: what has not succeeded has failed.
PendingIsFailure(q) == ~Terminal(q.target)

\* What the locked row leaves to do.
AnswerCounts(q) == q.outcome # "pending" /\ ~Terminal(q.target)

\* ReconcileWeChatPayPayment and ReconcileWeChatPayRefund, second transaction.
Settles(q) ==
    IF q.target = "payment"
    THEN /\ IF q.outcome = "success" THEN SettlePaid(q.at)
            ELSE Settle("failed", q.at) /\ SettlePayment("payment_failed", q.at)
         /\ UNCHANGED refund
    ELSE /\ IF q.outcome = "success"
            THEN /\ Complete(q.target, "completed", q.at)
                 /\ SettleRefund(refund[q.target].amount, q.at)
            ELSE Complete(q.target, "final_failed", q.at) /\ UNCHANGED order
         /\ UNCHANGED payment

\* Fault: an answer ends the job, whatever it says.
JobAlwaysEnds(x) == TRUE

\* The worker's job ends when the row it returns is terminal.
JobEnds(x) == Terminal(x)

Apply(q) ==
    /\ \/ AnswerCounts(q) /\ Settles(q) /\ jobs' = jobs \ {q.target}
       \/ /\ ~AnswerCounts(q)
          /\ jobs' = IF JobEnds(q.target) THEN jobs \ {q.target} ELSE jobs
          /\ UNCHANGED <<payment, order, refund>>
    /\ queries' = queries \ {q}
    /\ UNCHANGED <<clock, split, effect, trade, moneyBack, receipts, discarded>>

\* River gives a job up after 16 runs for a payment and 12 for a refund, each of
\* them an answer that was pending, refused or never came.  How many have passed
\* is left open.
DiscardJob(x) ==
    /\ x \in jobs
    /\ jobs' = jobs \ {x}
    /\ discarded' = discarded \cup {x}
    /\ UNCHANGED <<clock, payment, order, refund, split, effect, trade,
                   moneyBack, receipts, queries>>

Tick ==
    /\ clock < MaxTime
    /\ clock' = clock + 1
    /\ UNCHANGED <<payment, order, refund, split, effect, trade, moneyBack,
                   receipts, jobs, discarded, queries>>

Next ==
    \/ Create
    \/ \E r \in Refunds, amount \in 1 .. Amount : RequestRefund(r, amount)
    \/ \E amount \in 1 .. Amount : ReserveSplit(amount)
    \/ ReleaseSplit
    \/ \E x \in Targets : Perform(x)
    \/ \E at \in ProviderTimes : BuyerPays(at)
    \/ TradeCloses
    \/ \E r \in Refunds : RefundEnds(r)
    \/ \E x \in Targets : Attempt(x)
    \/ \E x \in Targets, completion \in Completions : CompleteEffect(x, completion)
    \/ \E x \in Targets : EffectMoves(x)
    \/ PaymentCallback
    \/ \E r \in Refunds : RefundCallback(r)
    \/ \E x \in Targets : Ask(x)
    \/ \E q \in queries : Forget(q)
    \/ \E q \in queries : Apply(q)
    \/ \E x \in Targets : DiscardJob(x)
    \/ Tick

Spec == Init /\ [][Next]_vars

\* A caller that holds an answer applies it, is refused or dies.  River repeats a
\* job until the row it is about is terminal or the job is given up: a job that
\* is never given up has had a run that asked and applied the answer.  Nothing is
\* assumed of the Provider: no notice need ever come.
AnswerEnds(x) == \E q \in queries : q.target = x /\ (Apply(q) \/ Forget(q))
JobAsks(x) == x \in jobs /\ Ask(x)
JobApplies(x) == x \in jobs /\ \E q \in queries : q.target = x /\ Apply(q)

Fairness ==
    /\ \A x \in Targets : WF_vars(AnswerEnds(x))
    /\ \A x \in Targets : SF_vars(JobAsks(x)) /\ SF_vars(JobApplies(x))

FairSpec == Spec /\ Fairness

-----------------------------------------------------------------------------
(* Properties                                                                *)

PaymentRows == [status : PaymentStatuses, updatedAt : Nat, handoff : BOOLEAN]
OrderRows == [status : OrderStatuses, refunded : Nat, updatedAt : Nat]
RefundRows == [status : RefundStatuses, amount : 0 .. Amount, updatedAt : Nat]
Trades == [state : {"none", "open", "paid", "closed"}, at : Nat]
Returns == [state : {"none", "processing", "success", "closed"}, at : Nat]

TypeOK ==
    /\ clock \in Nat
    /\ payment \in PaymentRows
    /\ order \in OrderRows
    /\ refund \in [Refunds -> RefundRows]
    /\ split \in 0 .. Amount
    /\ effect \in [Targets -> EffectStates]
    /\ trade \in Trades
    /\ moneyBack \in [Refunds -> Returns]
    /\ receipts \in SUBSET Targets
    /\ jobs \in SUBSET Targets
    /\ discarded \in SUBSET Targets
    /\ queries \in SUBSET Answers

\* Payment and Order never tell different stories, whichever of callback, query
\* and effect completion settles them and in whatever order: they change in one
\* transaction (GJ-04: order, payment and events settle together).
BooksAgree ==
    order.status \in
        CASE payment.status = "absent" -> {"absent"}
          [] payment.status \in Unsettled -> {"pending_payment"}
          [] payment.status = "failed" -> {"payment_failed"}
          [] payment.status = "paid" -> {"paid", "partially_refunded", "refunded"}

\* The order's refunded amount is the sum of the completed refunds, each counted
\* once although a callback, a job and an administrator may all report it.
RefundsAddUp ==
    /\ order.refunded = SumOf({"completed"})
    /\ order.refunded <= Amount
    /\ order.status = "refunded" <=> order.refunded = Amount
    /\ order.status = "partially_refunded" <=> order.refunded \in 1 .. Amount - 1

\* Accepted, queued or executed is not paid and not refunded (payment/README.md):
\* the books show money only when the Provider has moved it, and a payment they
\* call failed was not and will not be made.
MoneyIsReal ==
    /\ payment.status = "paid" => trade.state = "paid"
    /\ payment.status = "failed" =>
          trade.state = "closed" \/ (trade.state # "paid" /\ ~payment.handoff)
    /\ \A r \in Refunds : refund[r].status = "completed" => moneyBack[r].state = "success"

\* A refund that failed finally gives its reserve back, so the money must not
\* have left and must not leave later (RequestRefund may grant it again).
FailedRefundReturnsNothing ==
    \A r \in Refunds :
        refund[r].status = "final_failed" =>
            /\ moneyBack[r].state \in {"none", "closed"}
            /\ moneyBack[r].state = "none" => effect[r] = "final_failed"

\* The Provider's answer to the call of a refund was outside 2xx, and the code
\* took that for the end of the refund (WeChatPay.Execute).
FailedByAnswer(r) == refund[r].status = "final_failed" /\ effect[r] = "final_failed"

\* Refunds and profit sharing draw on one payment from two domains: what is
\* reserved for refunds and for a receiver never exceeds what was paid, and all
\* that the Provider returned or may still return is part of it.  The one
\* exception is a refund that an answer of the Provider ended although it had
\* been performed: FailedRefundReturnsNothing does not hold.
NeverOvercommitted ==
    /\ ReservedRefundMinor + split <= Amount
    /\ \A r \in Refunds :
          moneyBack[r].state \in {"processing", "success"} =>
              refund[r].status \in NonTerminal \cup {"completed"} \/ FailedByAnswer(r)

\* Only its time can keep money that was received from being booked: payment and
\* order wait for it, no receipt has used up the notice, and a time that the
\* payment admits is one that the order admits too.
ReceivedIsBookable ==
    trade.state = "paid" =>
        \/ payment.status = "paid"
        \/ /\ payment.status = "awaiting_payment"
           /\ order.status = "pending_payment"
           /\ order.updatedAt <= payment.updatedAt
           /\ "payment" \notin receipts

\* The books are true in every committed state: Payment, Order and the refunds
\* agree with each other and with the Provider.
BooksAreTrue == TypeOK /\ BooksAgree /\ RefundsAddUp /\ MoneyIsReal

\* Only its time can keep a refund from being booked: the order is in the right
\* status and has room for it for as long as it is under way.
RefundHasRoom ==
    \A r \in Refunds :
        refund[r].status \in NonTerminal =>
            /\ order.status \in {"paid", "partially_refunded"}
            /\ order.refunded + refund[r].amount <= Amount
            /\ r \notin receipts

\* Money that has moved finds its place in the books waiting for it, and nothing
\* but the Provider's time, compared with the row's, can refuse it.
MovedIsBookable == ReceivedIsBookable /\ RefundHasRoom

\* A settled payment or refund stays as it is: a late completion of the effect,
\* a repeated notice or a stale answer takes nothing back.
SettledIsFinal ==
    [][/\ payment.status \in {"paid", "failed"} => payment' = payment
       /\ \A r \in Refunds : refund[r].status \in {"completed", "final_failed"} =>
             refund'[r] = refund[r]]_vars

\* The checkout implements MoneyLedger: the order follows the money.
Ledger == INSTANCE MoneyLedger WITH
    received <- trade.state = "paid",
    returned <- {r \in Refunds : moneyBack[r].state = "success"},
    status   <- order.status,
    refunded <- order.refunded,
    booked   <- {r \in Refunds : refund[r].status = "completed"},
    worth    <- [r \in Refunds |-> refund[r].amount]

ImplementsLedger == Ledger!LSpec

\* Money that was received at a time the payment admits is booked in the end,
\* unless River gave its job up.
ReceivedIsBooked ==
    (trade.state = "paid" /\ trade.at >= payment.updatedAt) ~>
        (payment.status = "paid" \/ "payment" \in discarded)

\* A trade that the Provider closed ends the pending order, if the effect's
\* completion left a job behind and River did not give it up.
ClosedIsFailed ==
    (trade.state = "closed" /\ "payment" \in jobs) ~>
        (payment.status = "failed" \/ "payment" \in discarded)

\* Whatever the Provider has decided about the trade reaches the books, although
\* no notice may ever come: the job asks until the row is terminal.
TradeIsBooked == ReceivedIsBooked /\ ClosedIsFailed

\* The same whatever time the Provider gives.  It does not hold: a payment timed
\* before its row is refused by every notice and every answer.
AnyPaymentIsBooked ==
    trade.state = "paid" ~> (payment.status = "paid" \/ "payment" \in discarded)

\* payment/README.md:8: an uncertain refund enters a durable job that asks with
\* the original refund number, and so a refund the Provider has made would reach
\* the books.  It does not hold, for the same reason.
RefundIsBooked ==
    \A r \in Refunds :
        (moneyBack[r].state = "success" /\ r \in jobs) ~>
            (refund[r].status = "completed" \/ r \in discarded)
=============================================================================
