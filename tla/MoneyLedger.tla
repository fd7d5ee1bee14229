------------------------------ MODULE MoneyLedger ------------------------------
(***************************************************************************)
(* What a paid checkout promises: the order follows the money.  Money is    *)
(* received only for an order that waits for it; an order is paid once the  *)
(* money is there and fails only if it never will be; and each return of    *)
(* money is booked at most once, never beyond what was received.  Nothing   *)
(* of effects, callbacks, queries or time.                                  *)
(***************************************************************************)
EXTENDS Naturals

CONSTANTS Refunds, Amount

VARIABLES received,  \* has the Provider the buyer's money?
          returned,  \* refunds the Provider has made
          status,    \* the order's status
          refunded,  \* the order's refunded amount
          booked,    \* refunds the order counts
          worth      \* [Refunds -> amount asked for, 0 before]

lvars == <<received, returned, status, refunded, booked, worth>>

LInit ==
    /\ received = FALSE
    /\ returned = {}
    /\ status = "absent"
    /\ refunded = 0
    /\ booked = {}
    /\ worth = [r \in Refunds |-> 0]

Open ==
    /\ status = "absent" /\ status' = "pending_payment"
    /\ UNCHANGED <<received, returned, refunded, booked, worth>>

Receive ==
    /\ status = "pending_payment" /\ ~received /\ received' = TRUE
    /\ UNCHANGED <<returned, status, refunded, booked, worth>>

BookPayment ==
    /\ status = "pending_payment"
    /\ status' = IF received THEN "paid" ELSE "payment_failed"
    /\ UNCHANGED <<received, returned, refunded, booked, worth>>

AskFor(r, amount) ==
    /\ received /\ worth[r] = 0
    /\ worth' = [worth EXCEPT ![r] = amount]
    /\ UNCHANGED <<received, returned, status, refunded, booked>>

Return(r) ==
    /\ worth[r] > 0
    /\ r \notin returned /\ returned' = returned \cup {r}
    /\ UNCHANGED <<received, status, refunded, booked, worth>>

BookReturn(r) ==
    /\ r \in returned \ booked
    /\ refunded + worth[r] <= Amount
    /\ booked' = booked \cup {r}
    /\ refunded' = refunded + worth[r]
    /\ status' = IF refunded' = Amount THEN "refunded" ELSE "partially_refunded"
    /\ UNCHANGED <<received, returned, worth>>

LNext ==
    \/ Open \/ Receive \/ BookPayment
    \/ \E r \in Refunds : Return(r) \/ BookReturn(r)
    \/ \E r \in Refunds, amount \in 1 .. Amount : AskFor(r, amount)

LSpec == LInit /\ [][LNext]_lvars
=============================================================================
