------------------------------ MODULE Entitlements ------------------------------
(***************************************************************************)
(* The service period one customer has of one product: what paid orders add *)
(* to it, what their refunds take back and what an imported history leaves  *)
(* untouched (internal/order/store/entitlement.go, called by                *)
(* applyCheckoutSettlement inside the settlement's transaction).            *)
(*                                                                         *)
(* Times are days.  An order is paid at the Provider's time, which may lie  *)
(* before the day on which the notice is processed, and is refunded at the  *)
(* Provider's time too.                                                     *)
(***************************************************************************)
EXTENDS Integers, FiniteSetsExt

CONSTANTS Orders,
          Durations,  \* days an order may buy
          MaxTime,    \* bound on the clock
          MaxRefunds, \* bound on the refunds of an order
          MaxDelay    \* bound on the days between an event and its notice

ASSUME EntitlementConstants ==
    /\ MaxTime \in Nat /\ MaxRefunds \in Nat /\ MaxDelay \in Nat
    /\ Durations \subseteq Nat \ {0}

Rows == {"native", "history"}

VARIABLES clock,
          order,       \* [Orders -> [status, paidAt, days, updatedAt, refunds]]
          period,      \* [Rows -> row of order_service_entitlements]
          grant,       \* [Orders -> the order's grant receipt]
          refunded,    \* orders with a refund receipt
          mappedEnd,   \* source_end_at of the mapped historical order, 0 if none
          baseline     \* end of the imported period, 0 if none (for the properties)

vars == <<clock, order, period, grant, refunded, mappedEnd, baseline>>

NoGrant == [row |-> "none", days |-> 0, priorHistorical |-> 0]

Init ==
    /\ clock = 1
    /\ order = [o \in Orders |-> [status |-> "pending", paidAt |-> 0, days |-> 0,
                                  updatedAt |-> 1, refunds |-> 0]]
    /\ period = [row \in Rows |-> [status |-> "none", start |-> 0, end |-> 0]]
    /\ grant = [o \in Orders |-> NoGrant]
    /\ refunded = {}
    /\ mappedEnd = 0
    /\ baseline = 0

-----------------------------------------------------------------------------
(* History                                                                   *)

\* ImportHistoricalEntitlement of a period that still runs.
Import(end) ==
    /\ period["history"].status = "none"
    /\ end > clock
    /\ period' = [period EXCEPT !["history"] =
          [status |-> "active", start |-> clock, end |-> end]]
    /\ baseline' = end
    /\ UNCHANGED <<clock, order, grant, refunded, mappedEnd>>

\* RecordHistoricalServicePeriodSource: a migrated order accounts for it.
MapSource(end) ==
    /\ period["history"].status # "none"
    /\ mappedEnd = 0
    /\ mappedEnd' = end
    /\ UNCHANGED <<clock, order, period, grant, refunded, baseline>>

\* The row of history has a source that is not refunded.
Mapped(row) == row = "history" /\ mappedEnd > 0

Granted(row) == {o \in Orders : grant[o].row = row}

\* Fault: a renewed period counts as history of its own.
ReclassifiedBaseline(row, processedAt) ==
    IF row = "native" \/ Mapped(row) \/ period[row].end <= processedAt THEN 0
    ELSE period[row].end

\* independentHistoricalBaselineEnd, 0 for none.
HistoricalBaselineEnd(row, processedAt) ==
    LET prior == Max({0} \cup {grant[o].priorHistorical : o \in Granted(row)})
        end   == IF Granted(row) # {} THEN prior ELSE period[row].end
    IN  IF row = "history" /\ ~Mapped(row) /\ end > processedAt THEN end ELSE 0

-----------------------------------------------------------------------------
(* Grants                                                                    *)

\* latestServicePeriodEntitlement.  A history imported later has the larger id.
Latest ==
    IF period["history"].status # "none" /\ period["history"].end >= period["native"].end
    THEN "history" ELSE "native"

\* Fault: whoever pays again starts again.
NeverRuns(row) == FALSE

Runs(row) == period[row].status = "active" /\ period[row].end > clock

\* SettlePaymentWithin for a paid service period: GrantPaidServicePeriod.
Pay(o, days, paidAt) ==
    /\ order[o].status = "pending"
    /\ paidAt >= order[o].updatedAt
    /\ order' = [order EXCEPT ![o] = [@ EXCEPT !.status = "paid", !.paidAt = paidAt,
                                         !.days = days, !.updatedAt = paidAt]]
    /\ LET row == Latest
           renews == Runs(row)
       IN  /\ period' = [period EXCEPT ![row] =
                 [status |-> "active",
                  start  |-> IF renews THEN period[row].start ELSE paidAt,
                  end    |-> (IF renews THEN period[row].end ELSE paidAt) + days]]
           /\ grant' = [grant EXCEPT ![o] =
                 [row |-> row, days |-> days,
                  priorHistorical |->
                      IF renews THEN HistoricalBaselineEnd(row, clock) ELSE 0]]
    /\ UNCHANGED <<clock, refunded, mappedEnd, baseline>>

-----------------------------------------------------------------------------
(* Refunds                                                                   *)

OtherUnrefunded(o, row) == Granted(row) \ (refunded \cup {o}) # {} \/ Mapped(row)

\* Fault: only what the customer bought here is worth keeping.
KeptOfNative(row, processedAt) == processedAt

\* What history keeps covered, whatever is refunded.
KeptByHistory(row, processedAt) ==
    Max({processedAt, HistoricalBaselineEnd(row, processedAt),
         IF Mapped(row) THEN mappedEnd ELSE 0})

\* ApplyServicePeriodRefund for an order whose days have not been taken back.
Revoke(o, processedAt) ==
    LET row  == grant[o].row
        kept == KeptByHistory(row, processedAt)
        left == Max({kept, period[row].end - grant[o].days})
        end  == IF OtherUnrefunded(o, row) THEN left ELSE kept
    IN  period' = [period EXCEPT ![row].end = end,
                                 ![row].status =
                                     IF end > processedAt THEN "active"
                                     ELSE IF OtherUnrefunded(o, row) THEN "expired"
                                     ELSE "refunded"]

\* Fault: each partial refund takes the days back.
TakesEveryTime(o) == TRUE

FirstRefund(o) == o \notin refunded

\* SettlePaymentWithin for a refund, partial or not.
RefundOrder(o, processedAt) ==
    /\ order[o].status = "paid"
    /\ order[o].refunds < MaxRefunds
    /\ processedAt >= order[o].updatedAt
    /\ order' = [order EXCEPT ![o].refunds = @ + 1, ![o].updatedAt = processedAt]
    /\ IF FirstRefund(o) THEN Revoke(o, processedAt) ELSE UNCHANGED period
    /\ refunded' = refunded \cup {o}
    /\ UNCHANGED <<clock, grant, mappedEnd, baseline>>

Tick ==
    /\ clock < MaxTime
    /\ clock' = clock + 1
    /\ UNCHANGED <<order, period, grant, refunded, mappedEnd, baseline>>

Next ==
    \/ \E end \in 1 .. MaxTime + 1 : Import(end) \/ MapSource(end)
    \/ \E o \in Orders, days \in Durations, paidAt \in clock - MaxDelay .. clock :
          Pay(o, days, paidAt)
    \/ \E o \in Orders, processedAt \in clock - MaxDelay .. clock :
          RefundOrder(o, processedAt)
    \/ Tick

Spec == Init /\ [][Next]_vars

-----------------------------------------------------------------------------
(* Properties                                                                *)

TypeOK ==
    /\ clock \in Nat
    /\ order \in [Orders -> [status : {"pending", "paid"}, paidAt : Nat,
                             days : Durations \cup {0}, updatedAt : Nat, refunds : Nat]]
    /\ period \in [Rows -> [status : {"none", "active", "expired", "refunded"},
                            start : Nat, end : Nat]]
    /\ grant \in [Orders -> [row : Rows \cup {"none"}, days : Durations \cup {0},
                             priorHistorical : Nat]]
    /\ refunded \in SUBSET Orders
    /\ mappedEnd \in Nat
    /\ baseline \in Nat

\* Nobody has more days than are paid for: a running period is no longer than
\* the imported one and the orders on it that are not refunded, whatever was
\* renewed, refunded, lapsed and bought again.
PaidFor ==
    \A row \in Rows :
        Runs(row) =>
            period[row].end <=
                (IF row = "history" THEN Max({baseline, mappedEnd, period[row].start})
                 ELSE period[row].start)
                + SumFunctionOnSet([o \in Orders |-> grant[o].days],
                                   Granted(row) \ refunded)

\* Every period is well formed and paid for.
PeriodsArePaidFor == TypeOK /\ PaidFor

\* As long as nothing was refunded, every order gives the days it was paid for,
\* counted from the payment, even when its notice comes late or two orders are
\* paid at once.
PaidIsCovered ==
    refunded = {} =>
        \A o \in Orders :
            order[o].status = "paid" /\ order[o].paidAt + order[o].days > clock =>
                LET row == grant[o].row IN
                /\ period[row].status = "active"
                /\ period[row].end >= order[o].paidAt + order[o].days

\* docs/prd/2026-09-05-v3-parity/04-entitlement-coupon.md section 7: an imported
\* period that still runs survives every renewal on it and every refund of one.
HistoryIsKept ==
    baseline > clock /\ mappedEnd = 0 =>
        period["history"].status = "active" /\ period["history"].end >= baseline

\* A second refund of an order takes nothing more: days are lost only to the
\* first refund of an order, or with a period that had run out.
TakenBackOnce ==
    [][\A row \in Rows :
          period'[row].end < period[row].end =>
              refunded' # refunded \/ period[row].end <= clock
                                   \/ period[row].status # "active"]_vars
=============================================================================
