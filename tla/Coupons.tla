-------------------------------- MODULE Coupons --------------------------------
(***************************************************************************)
(* One coupon rule, the coupons that customers claim under it and the       *)
(* orders that spend them (internal/coupon with the checkout of             *)
(* internal/order).  Claims are named by the idempotency key of the request *)
(* and orders by their merchant number: a repeated request finds its        *)
(* receipt and changes nothing.                                             *)
(***************************************************************************)
EXTENDS Naturals, FiniteSets

CONSTANTS Claims, Customers, Orders,
          Gross,      \* price of the product
          Limits,     \* issue limits an administrator may set
          ClaimEnds,  \* end of the claim window
          Validity,   \* how long a claimed coupon is valid
          MaxTime,    \* bound on the clock
          None        \* no claim, no customer

ASSUME CouponConstants ==
    /\ Gross \in Nat /\ ClaimEnds \in Nat /\ MaxTime \in Nat
    /\ Validity \in Nat \ {0}
    /\ Limits \subseteq Nat \ {0}
    /\ None \notin Claims \cup Customers

VARIABLES clock,
          rule,       \* row of coupon_rules
          claim,      \* [Claims -> row of coupon_customer_claims]
          redemption, \* [Orders -> row of coupon_order_redemptions]
          order       \* [Orders -> order with its checkout snapshot]

vars == <<clock, rule, claim, redemption, order>>

RuleStatuses == {"draft", "published", "stopped", "archived", "deleted"}
ClaimStatuses == {"none", "available", "reserved", "redeemed", "expired"}

Init ==
    /\ clock = 0
    /\ rule \in [status : {"draft"}, discount : 1 .. Gross, limit : Limits,
                 perUser : Limits, issued : {0}]
    /\ rule.perUser <= rule.limit
    /\ claim = [k \in Claims |-> [status |-> "none", holder |-> None, until |-> 0]]
    /\ redemption = [o \in Orders |-> [status |-> "none", claim |-> None]]
    /\ order = [o \in Orders |-> [status |-> "none", claim |-> None, payable |-> 0,
                                  updatedAt |-> 0]]

-----------------------------------------------------------------------------
(* Rules: mutate and ruleMutation, on the locked row                         *)

UpdateDraft(discount, limit, perUser) ==
    /\ rule.status = "draft" /\ rule.issued = 0
    /\ perUser <= limit
    /\ rule' = [rule EXCEPT !.discount = discount, !.limit = limit,
                            !.perUser = perUser]
    /\ UNCHANGED <<clock, claim, redemption, order>>

claimedUpdateAllowed(discount, limit, perUser) ==
    /\ limit >= rule.limit
    /\ discount = rule.discount /\ perUser = rule.perUser

Update(discount, limit, perUser) ==
    /\ rule.status \notin {"archived", "deleted"}
    /\ rule.issued = 0 => rule.status = "draft"
    /\ rule.issued > 0 => claimedUpdateAllowed(discount, limit, perUser)
    /\ perUser <= limit
    /\ rule' = [rule EXCEPT !.discount = discount, !.limit = limit,
                            !.perUser = perUser]
    /\ UNCHANGED <<clock, claim, redemption, order>>

\* validateProducts: the coupon is worth less than the product.
Publish ==
    /\ rule.status = "draft"
    /\ rule.discount < Gross
    /\ rule' = [rule EXCEPT !.status = "published"]
    /\ UNCHANGED <<clock, claim, redemption, order>>

Stop ==
    /\ rule.status = "published"
    /\ rule' = [rule EXCEPT !.status = "stopped"]
    /\ UNCHANGED <<clock, claim, redemption, order>>

Archive ==
    /\ rule.status \in {"draft", "published", "stopped"}
    /\ rule' = [rule EXCEPT !.status = "archived"]
    /\ UNCHANGED <<clock, claim, redemption, order>>

Delete ==
    /\ rule.status = "draft" /\ rule.issued = 0
    /\ rule' = [rule EXCEPT !.status = "deleted"]
    /\ UNCHANGED <<clock, claim, redemption, order>>

-----------------------------------------------------------------------------
(* Claims                                                                    *)

Held(c) == {k \in Claims : claim[k].status # "none" /\ claim[k].holder = c}

\* Fault: a coupon that was spent makes room for another.
HeldUnspent(c) ==
    Cardinality({k \in Held(c) : claim[k].status \in {"available", "reserved"}})
        < rule.perUser

UnderUserLimit(c) == Cardinality(Held(c)) < rule.perUser

InStock == rule.issued < rule.limit

ClaimCoupon(k, c) ==
    /\ claim[k].status = "none"
    /\ rule.status = "published"
    /\ clock < ClaimEnds
    /\ InStock
    /\ UnderUserLimit(c)
    /\ rule' = [rule EXCEPT !.issued = @ + 1]
    /\ claim' = [claim EXCEPT ![k] =
          [status |-> "available", holder |-> c, until |-> clock + Validity]]
    /\ UNCHANGED <<clock, redemption, order>>

-----------------------------------------------------------------------------
(* The checkout: Order's transactions, in which the coupon takes part        *)

\* Fault: a coupon of an order that is still unpaid may be taken again.
EligibleUntilSpent(c) ==
    {k \in Held(c) : /\ claim[k].status \in {"available", "reserved"}
                     /\ clock < claim[k].until
                     /\ rule.status = "published"}

\* selectReservationClaim.
Eligible(c) ==
    {k \in Held(c) : /\ claim[k].status = "available"
                     /\ clock < claim[k].until
                     /\ rule.status = "published"
                     /\ rule.discount < Gross}

\* ReserveCoupon for the claim that was named or selected.
Reserve(o, k) ==
    /\ claim' = [claim EXCEPT ![k].status = "reserved"]
    /\ redemption' = [redemption EXCEPT ![o] = [status |-> "reserved", claim |-> k]]

\* CreatePaymentOrderWithin with a coupon, or at the original price: nobody has
\* to use one, and the selection skips a row that another checkout has locked.
CreateOrder(o, c) ==
    /\ order[o].status = "none"
    /\ \/ \E k \in Eligible(c) :
             /\ Reserve(o, k)
             /\ order' = [order EXCEPT ![o] =
                   [status |-> "pending", claim |-> k,
                    payable |-> Gross - rule.discount, updatedAt |-> clock]]
       \/ /\ order' = [order EXCEPT ![o] =
                [status |-> "pending", claim |-> None, payable |-> Gross,
                 updatedAt |-> clock]]
          /\ UNCHANGED <<claim, redemption>>
    /\ UNCHANGED <<clock, rule>>

\* ConsumeCoupon; its guards refuse the whole settlement.
Consume(o) ==
    LET k == order[o].claim IN
    IF k = None THEN UNCHANGED <<claim, redemption>>
    ELSE /\ redemption[o].status = "reserved" /\ claim[k].status = "reserved"
         /\ order[o].payable = Gross - rule.discount
         /\ redemption' = [redemption EXCEPT ![o].status = "consumed"]
         /\ claim' = [claim EXCEPT ![k].status = "redeemed"]

\* Fault: a coupon that comes back is good again, however late.
AlwaysAvailable(k, at) == "available"

\* The status a released coupon returns to.
ReleasedAs(k, at) == IF at < claim[k].until THEN "available" ELSE "expired"

\* ReleaseCoupon.
Release(o, at) ==
    LET k == order[o].claim IN
    IF k = None THEN UNCHANGED <<claim, redemption>>
    ELSE /\ redemption[o].status = "reserved" /\ claim[k].status = "reserved"
         /\ redemption' = [redemption EXCEPT ![o].status = "released"]
         /\ claim' = [claim EXCEPT ![k].status = ReleasedAs(k, at)]

\* SettlePaymentWithin and applyCheckoutSettlement, at the time of the
\* Provider's event, which may be long ago.
SettlePaid(o, at) ==
    /\ order[o].status = "pending"
    /\ at >= order[o].updatedAt
    /\ order' = [order EXCEPT ![o].status = "paid", ![o].updatedAt = at]
    /\ Consume(o)
    /\ UNCHANGED <<clock, rule>>

SettleFailed(o, at) ==
    /\ order[o].status = "pending"
    /\ at >= order[o].updatedAt
    /\ order' = [order EXCEPT ![o].status = "failed", ![o].updatedAt = at]
    /\ Release(o, at)
    /\ UNCHANGED <<clock, rule>>

Tick ==
    /\ clock < MaxTime
    /\ clock' = clock + 1
    /\ UNCHANGED <<rule, claim, redemption, order>>

Next ==
    \/ \E discount \in 1 .. Gross, limit, perUser \in Limits :
          \/ UpdateDraft(discount, limit, perUser)
          \/ Update(discount, limit, perUser)
    \/ Publish \/ Stop \/ Archive \/ Delete
    \/ \E k \in Claims, c \in Customers : ClaimCoupon(k, c)
    \/ \E o \in Orders, c \in Customers : CreateOrder(o, c)
    \/ \E o \in Orders, at \in 0 .. clock : SettlePaid(o, at) \/ SettleFailed(o, at)
    \/ Tick

Spec == Init /\ [][Next]_vars

-----------------------------------------------------------------------------
(* Properties                                                                *)

TypeOK ==
    /\ clock \in Nat
    /\ rule \in [status : RuleStatuses, discount : 1 .. Gross, limit : Nat,
                 perUser : Nat, issued : Nat]
    /\ claim \in [Claims -> [status : ClaimStatuses, holder : Customers \cup {None},
                             until : Nat]]
    /\ redemption \in [Orders ->
          [status : {"none", "reserved", "consumed", "released"},
           claim : Claims \cup {None}]]
    /\ order \in [Orders ->
          [status : {"none", "pending", "paid", "failed"}, claim : Claims \cup {None},
           payable : Nat, updatedAt : Nat]]

\* The stock and each customer's share are never oversold, whatever has been
\* spent, released or expired since and however often the limits were changed.
NeverOversold ==
    /\ rule.issued = Cardinality({k \in Claims : claim[k].status # "none"})
    /\ rule.issued <= rule.limit
    /\ \A c \in Customers : Cardinality(Held(c)) <= rule.perUser

\* What the order calls its coupon, what the coupon calls its claim and what the
\* claim says of itself agree in every committed state (coupon/README.md: an
\* unknown payment does not release a reservation), so no settlement that
\* Payment reports is refused because of the coupon.
CouponFollowsOrder ==
    \A o \in Orders :
        order[o].claim # None =>
            LET k == order[o].claim IN
            /\ redemption[o].claim = k
            /\ order[o].status = "pending" =>
                  /\ redemption[o].status = "reserved" /\ claim[k].status = "reserved"
                  /\ order[o].payable = Gross - rule.discount
            /\ order[o].status = "paid" =>
                  redemption[o].status = "consumed" /\ claim[k].status = "redeemed"
            /\ order[o].status = "failed" => redemption[o].status = "released"

\* A coupon is the price of at most one order that is paid or may still be, and
\* only of its holder's; a claim that is taken is taken by an order.
OneOrderPerCoupon ==
    \A k \in Claims :
        LET users == {o \in Orders : order[o].claim = k
                                     /\ order[o].status \in {"pending", "paid"}}
        IN  /\ Cardinality(users) <= 1
            /\ claim[k].status \in {"reserved", "redeemed"} <=> users # {}

\* The four tables of a checkout with a coupon agree.
TablesAgree == TypeOK /\ CouponFollowsOrder /\ OneOrderPerCoupon

\* A close after expiry marks the claim expired (coupon/README.md): a coupon that
\* no order holds and whose time had run out when its order closed cannot be
\* spent again, and one that is spent or expired stays so.
SpentStaysSpent ==
    [][\A k \in Claims :
          /\ claim[k].status \in {"redeemed", "expired"} => claim'[k] = claim[k]
          /\ (claim[k].status = "reserved" /\ claim'[k].status = "available") =>
                \E o \in Orders : /\ order[o].claim = k
                                  /\ order'[o].status = "failed"
                                  /\ order'[o].updatedAt < claim[k].until]_vars
=============================================================================
