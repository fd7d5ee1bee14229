------------------------------ MODULE CouponsProofs ------------------------------
(***************************************************************************)
(* Theorems about coupons, for every set of claims, customers and orders,   *)
(* every price and every limit an administrator may set.                    *)
(***************************************************************************)
EXTENDS Coupons, FiniteSetTheorems, TLAPS

-----------------------------------------------------------------------------
(* The inductive invariant                                                   *)

Issued == {k \in Claims : claim[k].status # "none"}

\* The issue counter counts the claims, which are finitely many, and the limits
\* bound it.  This is what makes a discount final once a coupon is out.
StockInv ==
    /\ IsFiniteSet(Issued)
    /\ rule.issued = Cardinality(Issued)
    /\ rule.issued <= rule.limit
    /\ \A c \in Customers : Cardinality(Held(c)) <= rule.perUser

Using(k) == {o \in Orders : order[o].claim = k /\ order[o].status \in {"pending", "paid"}}

\* An order that may still be paid and one that is do not share a coupon.
NotShared ==
    \A o, p \in Orders :
        /\ order[o].claim # None /\ order[o].claim = order[p].claim
        /\ order[o].status \in {"pending", "paid"}
        /\ order[p].status \in {"pending", "paid"}
        => o = p

\* A coupon that is taken is taken by an order.
TakenIsUsed ==
    \A k \in Claims :
        claim[k].status \in {"reserved", "redeemed"} => Using(k) # {}

IInv ==
    /\ TypeOK /\ StockInv /\ CouponFollowsOrder /\ NotShared /\ TakenIsUsed
    /\ \A o \in Orders : order[o].status = "none" => order[o].claim = None

\* A coupon that some order names has been issued.
LEMMA NamedIsIssued ==
    ASSUME IInv, NEW o \in Orders, order[o].claim # None, order[o].status = "pending"
    PROVE  rule.issued > 0
<1>1. order[o].claim \in Issued
  BY DEF IInv, TypeOK, CouponFollowsOrder, Issued
<1>2. Cardinality(Issued) # 0 /\ Cardinality(Issued) \in Nat
  BY <1>1, FS_EmptySet, FS_CardinalityType DEF IInv, StockInv
<1> QED BY <1>2 DEF IInv, StockInv

\* Whatever leaves every claim with its holder and no claim unissued again leaves
\* the stock as it is.
LEMMA StockKept ==
    ASSUME IInv, rule' = rule,
           \A k \in Claims : /\ claim'[k].holder = claim[k].holder
                             /\ claim'[k].status = "none" <=> claim[k].status = "none"
    PROVE  StockInv'
<1>1. Issued' = Issued
  BY DEF Issued
<1>2. \A c \in Customers : Held(c)' = Held(c)
  BY DEF Held
<1> QED BY <1>1, <1>2 DEF IInv, StockInv

-----------------------------------------------------------------------------
(* Rules                                                                     *)

\* A rule may change its amounts only while nothing is issued, and afterwards
\* only raise its limit.
LEMMA RuleKeeps ==
    ASSUME IInv, UNCHANGED <<clock, claim, redemption, order>>,
           rule' \in [status : RuleStatuses, discount : 1 .. Gross, limit : Nat,
                      perUser : Nat, issued : Nat],
           rule'.issued = rule.issued,
           rule.issued > 0 => /\ rule'.discount = rule.discount
                              /\ rule'.perUser = rule.perUser
                              /\ rule'.limit >= rule.limit
    PROVE  IInv'
<1>1. TypeOK'
  BY DEF IInv, TypeOK
<1>2. Issued' = Issued /\ \A c \in Customers : Held(c)' = Held(c)
  BY DEF Issued, Held
<1>3. StockInv'
  <2>1. rule.issued \in Nat /\ rule.limit \in Nat /\ rule.perUser \in Nat
    BY DEF IInv, TypeOK
  <2>2. rule'.issued <= rule'.limit
    BY <2>1 DEF IInv, StockInv
  <2>3. \A c \in Customers : Cardinality(Held(c)) <= rule'.perUser
    <3>1. CASE rule.issued > 0
      BY <3>1 DEF IInv, StockInv
    <3>2. CASE rule.issued = 0
      <4>1. Issued = {}
        BY <3>2, FS_EmptySet DEF IInv, StockInv
      <4>2. \A c \in Customers : Held(c) = {}
        BY <4>1 DEF Held, Issued
      <4>3. Cardinality({}) = 0 /\ rule'.perUser \in Nat
        BY FS_EmptySet
      <4> QED BY <4>2, <4>3
    <3> QED BY <2>1, <3>1, <3>2
  <2> QED BY <1>2, <2>2, <2>3 DEF IInv, StockInv
<1>4. CouponFollowsOrder'
  <2>1. \A o \in Orders : order[o].claim # None /\ order[o].status = "pending" =>
           rule'.discount = rule.discount
    BY NamedIsIssued
  <2> QED BY <2>1 DEF IInv, CouponFollowsOrder
<1>5. NotShared' /\ TakenIsUsed'
  BY DEF IInv, NotShared, TakenIsUsed, Using
<1> QED BY <1>1, <1>3, <1>4, <1>5 DEF IInv

\* Editing, publishing, stopping, archiving and deleting a rule keep the
\* invariant.
LEMMA RuleActions ==
    ASSUME IInv,
           \/ \E discount \in 1 .. Gross, limit, perUser \in Limits :
                 UpdateDraft(discount, limit, perUser) \/ Update(discount, limit, perUser)
           \/ Publish \/ Stop \/ Archive \/ Delete
    PROVE  IInv'
<1>1. rule \in [status : RuleStatuses, discount : 1 .. Gross, limit : Nat,
                perUser : Nat, issued : Nat]
  BY DEF IInv, TypeOK
<1>2. ASSUME NEW discount \in 1 .. Gross, NEW limit \in Limits, NEW perUser \in Limits,
             UpdateDraft(discount, limit, perUser) \/ Update(discount, limit, perUser)
      PROVE  IInv'
  <2>1. limit \in Nat /\ perUser \in Nat
    BY CouponConstants
  <2>2. rule' = [rule EXCEPT !.discount = discount, !.limit = limit, !.perUser = perUser]
        /\ UNCHANGED <<clock, claim, redemption, order>>
    BY <1>2 DEF UpdateDraft, Update
  <2>3. rule'.discount = discount /\ rule'.perUser = perUser /\ rule'.limit = limit
    BY <1>1, <2>2
  <2>4. rule.issued > 0 => rule.issued # 0
    BY <1>1
  <2>5. rule.issued > 0 => claimedUpdateAllowed(discount, limit, perUser)
    BY <1>2, <2>4, Zenon DEF UpdateDraft, Update
  <2>6. rule.issued > 0 => /\ rule'.discount = rule.discount
                           /\ rule'.perUser = rule.perUser
                           /\ rule'.limit >= rule.limit
    BY <2>3, <2>5 DEF claimedUpdateAllowed
  <2>7. rule' \in [status : RuleStatuses, discount : 1 .. Gross, limit : Nat,
                   perUser : Nat, issued : Nat] /\ rule'.issued = rule.issued
    BY <1>1, <2>1, <2>2
  <2> QED BY <2>2, <2>6, <2>7, RuleKeeps
<1>3. ASSUME Publish \/ Stop \/ Archive \/ Delete PROVE IInv'
  <2>1. PICK status \in RuleStatuses : rule' = [rule EXCEPT !.status = status]
    BY <1>3 DEF Publish, Stop, Archive, Delete, RuleStatuses
  <2>2. /\ rule' \in [status : RuleStatuses, discount : 1 .. Gross, limit : Nat,
                      perUser : Nat, issued : Nat]
        /\ rule'.issued = rule.issued /\ rule'.discount = rule.discount
        /\ rule'.perUser = rule.perUser /\ rule'.limit >= rule.limit
    BY <1>1, <2>1
  <2> QED BY <1>3, <2>2, RuleKeeps DEF Publish, Stop, Archive, Delete
<1> QED BY <1>2, <1>3

-----------------------------------------------------------------------------
(* Claims                                                                    *)

\* A claim within the limits keeps the invariant.
LEMMA ClaimKeeps ==
    ASSUME IInv, NEW k \in Claims, NEW c \in Customers, ClaimCoupon(k, c)
    PROVE  IInv'
<1> DEFINE row == [status |-> "available", holder |-> c, until |-> clock + Validity]
<1>1. /\ rule' = [rule EXCEPT !.issued = @ + 1]
      /\ claim' = [claim EXCEPT ![k] = row]
      /\ clock' = clock /\ redemption' = redemption /\ order' = order
      /\ claim[k].status = "none" /\ rule.issued < rule.limit
      /\ Cardinality(Held(c)) < rule.perUser
  BY DEF ClaimCoupon, InStock, UnderUserLimit
<1>2. /\ claim \in [Claims -> [status : ClaimStatuses, holder : Customers \cup {None},
                               until : Nat]]
      /\ rule \in [status : RuleStatuses, discount : 1 .. Gross, limit : Nat,
                   perUser : Nat, issued : Nat]
      /\ clock + Validity \in Nat
  BY CouponConstants DEF IInv, TypeOK
<1>3. /\ claim'[k] = row
      /\ \A j \in Claims \ {k} : claim'[j] = claim[j]
  BY <1>1, <1>2
<1>4. /\ rule'.issued = rule.issued + 1 /\ rule'.limit = rule.limit
      /\ rule'.perUser = rule.perUser /\ rule'.discount = rule.discount
      /\ rule' \in [status : RuleStatuses, discount : 1 .. Gross, limit : Nat,
                    perUser : Nat, issued : Nat]
  BY <1>1, <1>2
<1>5. row \in [status : ClaimStatuses, holder : Customers \cup {None}, until : Nat]
  BY <1>2 DEF ClaimStatuses
<1>6. TypeOK'
  BY <1>1, <1>2, <1>4, <1>5 DEF IInv, TypeOK
<1>7. Issued' = Issued \cup {k} /\ k \notin Issued
  BY <1>1, <1>3 DEF Issued
<1>8. \A d \in Customers : Held(d)' = IF d = c THEN Held(d) \cup {k} ELSE Held(d)
  BY <1>1, <1>3 DEF Held
<1>9. \A d \in Customers : IsFiniteSet(Held(d)) /\ Cardinality(Held(d)) \in Nat
  <2> TAKE d \in Customers
  <2>1. Held(d) \in SUBSET Issued
    BY DEF Held, Issued
  <2>2. IsFiniteSet(Held(d))
    BY <2>1, FS_Subset DEF IInv, StockInv
  <2> QED BY <2>2, FS_CardinalityType
<1>10. StockInv'
  <2>1. IsFiniteSet(Issued') /\ Cardinality(Issued') = Cardinality(Issued) + 1
    BY <1>7, FS_AddElement DEF IInv, StockInv
  <2>2. Cardinality(Held(c) \cup {k}) = Cardinality(Held(c)) + 1
    <3>1. k \notin Held(c)
      BY <1>1 DEF Held
    <3> QED BY <1>9, <3>1, FS_AddElement
  <2>3. \A d \in Customers : Cardinality(Held(d)') <= rule'.perUser
    <3> TAKE d \in Customers
    <3>1. CASE d = c
      <4>1. Held(d)' = Held(c) \cup {k}
        BY <1>8, <3>1
      <4>2. Cardinality(Held(c)) \in Nat /\ rule.perUser \in Nat
        BY <1>2, <1>9
      <4> QED BY <1>1, <1>4, <2>2, <4>1, <4>2
    <3>2. CASE d # c
      BY <1>4, <1>8, <3>2 DEF IInv, StockInv
    <3> QED BY <3>1, <3>2
  <2>4. rule'.issued = Cardinality(Issued') /\ rule'.issued <= rule'.limit
    BY <1>1, <1>2, <1>4, <2>1 DEF IInv, StockInv
  <2> QED BY <2>1, <2>3, <2>4 DEF StockInv
<1>11. CouponFollowsOrder'
  <2> SUFFICES ASSUME NEW o \in Orders, order[o].claim # None
               PROVE  LET j == order[o].claim IN
                      /\ redemption[o].claim = j
                      /\ order[o].status = "pending" =>
                            /\ redemption[o].status = "reserved"
                            /\ claim'[j].status = "reserved"
                            /\ order[o].payable = Gross - rule'.discount
                      /\ order[o].status = "paid" =>
                            /\ redemption[o].status = "consumed"
                            /\ claim'[j].status = "redeemed"
                      /\ order[o].status = "failed" => redemption[o].status = "released"
    BY <1>1 DEF CouponFollowsOrder
  <2>1. order[o].claim \in Claims
    BY DEF IInv, TypeOK
  <2> QED BY <1>1, <1>3, <1>4, <2>1 DEF IInv, CouponFollowsOrder
<1>12. NotShared' /\ TakenIsUsed'
  BY <1>1, <1>3 DEF IInv, NotShared, TakenIsUsed, Using
<1> QED BY <1>1, <1>6, <1>10, <1>11, <1>12 DEF IInv

-----------------------------------------------------------------------------
(* The checkout                                                              *)

ClaimRows == [status : ClaimStatuses, holder : Customers \cup {None}, until : Nat]
RedemptionRows == [status : {"none", "reserved", "consumed", "released"},
                   claim : Claims \cup {None}]
OrderRows == [status : {"none", "pending", "paid", "failed"}, claim : Claims \cup {None},
              payable : Nat, updatedAt : Nat]

\* What an order says of its coupon, for one order.
Follows(o) ==
    order[o].claim # None =>
        LET k == order[o].claim IN
        /\ redemption[o].claim = k
        /\ order[o].status = "pending" =>
              /\ redemption[o].status = "reserved" /\ claim[k].status = "reserved"
              /\ order[o].payable = Gross - rule.discount
        /\ order[o].status = "paid" =>
              redemption[o].status = "consumed" /\ claim[k].status = "redeemed"
        /\ order[o].status = "failed" => redemption[o].status = "released"

\* A coupon that is not taken is the price of no order that counts.
LEMMA FreeIsUnused ==
    ASSUME IInv, NEW k \in Claims, claim[k].status \notin {"reserved", "redeemed"}
    PROVE  Using(k) = {}
BY CouponConstants DEF IInv, CouponFollowsOrder, Using

\* Nobody has to use a coupon.
LEMMA PlainOrderKeeps ==
    ASSUME IInv, NEW o \in Orders, order[o].status = "none",
           order' = [order EXCEPT ![o] = [status |-> "pending", claim |-> None,
                                          payable |-> Gross, updatedAt |-> clock]],
           UNCHANGED <<clock, rule, claim, redemption>>
    PROVE  IInv'
<1> DEFINE row == [status |-> "pending", claim |-> None, payable |-> Gross,
                   updatedAt |-> clock]
<1>1. order \in [Orders -> OrderRows] /\ row \in OrderRows
  BY CouponConstants DEF IInv, TypeOK, OrderRows
<1>2. order'[o] = row /\ \A p \in Orders \ {o} : order'[p] = order[p]
  BY <1>1
<1>3. order' \in [Orders -> OrderRows]
  BY <1>1
<1>4. TypeOK'
  BY <1>3 DEF IInv, TypeOK, OrderRows
<1>5. StockInv'
  BY StockKept
<1>6. CouponFollowsOrder'
  BY <1>2 DEF IInv, CouponFollowsOrder
<1>7. NotShared'
  BY <1>2 DEF IInv, NotShared
<1>8. TakenIsUsed'
  <2> SUFFICES ASSUME NEW k \in Claims, Using(k) # {} PROVE Using(k)' # {}
    BY DEF IInv, TakenIsUsed
  <2>1. PICK p \in Using(k) : TRUE
    OBVIOUS
  <2>2. p # o
    BY DEF Using
  <2> QED BY <1>2, <2>2 DEF Using
<1> QED BY <1>2, <1>4, <1>5, <1>6, <1>7, <1>8 DEF IInv

\* A coupon that is free is taken by the new order and by no other.
LEMMA CouponOrderKeeps ==
    ASSUME IInv, NEW o \in Orders, order[o].status = "none", NEW c \in Customers,
           NEW k \in Eligible(c), Reserve(o, k),
           order' = [order EXCEPT ![o] = [status |-> "pending", claim |-> k,
                         payable |-> Gross - rule.discount, updatedAt |-> clock]],
           UNCHANGED <<clock, rule>>
    PROVE  IInv'
<1> DEFINE row == [status |-> "pending", claim |-> k, payable |-> Gross - rule.discount,
                   updatedAt |-> clock]
<1>1. k \in Claims /\ claim[k].status = "available"
  BY DEF Eligible, Held
<1>2. /\ order \in [Orders -> OrderRows] /\ claim \in [Claims -> ClaimRows]
      /\ redemption \in [Orders -> RedemptionRows]
      /\ Gross - rule.discount \in Nat /\ clock \in Nat
  BY CouponConstants DEF IInv, TypeOK, OrderRows, ClaimRows, RedemptionRows
<1>3. row \in OrderRows
  BY <1>1, <1>2 DEF OrderRows
<1>4. order'[o] = row /\ \A p \in Orders \ {o} : order'[p] = order[p]
  BY <1>2
<1>5. /\ claim' = [claim EXCEPT ![k].status = "reserved"]
      /\ redemption' = [redemption EXCEPT ![o] = [status |-> "reserved", claim |-> k]]
  BY DEF Reserve
<1>6. /\ claim'[k].status = "reserved" /\ claim'[k].holder = claim[k].holder
      /\ claim' \in [Claims -> ClaimRows]
      /\ \A j \in Claims \ {k} : claim'[j] = claim[j]
  BY <1>1, <1>2, <1>5 DEF ClaimRows, ClaimStatuses
<1>7. /\ redemption'[o].status = "reserved" /\ redemption'[o].claim = k
      /\ redemption' \in [Orders -> RedemptionRows]
      /\ \A p \in Orders \ {o} : redemption'[p] = redemption[p]
  BY <1>1, <1>2, <1>5 DEF RedemptionRows
<1>8. order' \in [Orders -> OrderRows]
  BY <1>2, <1>3
<1>9. TypeOK'
  BY <1>6, <1>7, <1>8 DEF IInv, TypeOK, OrderRows, ClaimRows, RedemptionRows
<1>10. StockInv'
  BY <1>1, <1>6, StockKept
<1>11. Using(k) = {}
  BY <1>1, FreeIsUnused
<1>12. CouponFollowsOrder'
  <2> SUFFICES ASSUME NEW p \in Orders PROVE Follows(p)'
    BY DEF CouponFollowsOrder, Follows
  <2>1. CASE p = o
    BY <1>4, <1>6, <1>7, <2>1 DEF Follows
  <2>2. CASE p # o
    <3>1. Follows(p)
      BY DEF IInv, CouponFollowsOrder, Follows
    <3>2. order[p].claim \in Claims \cup {None}
      BY <1>2 DEF OrderRows
    <3>3. order[p].claim = k => order[p].status \notin {"pending", "paid"}
      BY <1>11 DEF Using
    <3> QED BY <1>4, <1>6, <1>7, <2>2, <3>1, <3>2, <3>3 DEF Follows
  <2> QED BY <2>1, <2>2
<1>13. NotShared'
  BY <1>4, <1>11 DEF IInv, NotShared, Using
<1>14. TakenIsUsed'
  <2> SUFFICES ASSUME NEW j \in Claims, claim'[j].status \in {"reserved", "redeemed"}
               PROVE  Using(j)' # {}
    BY DEF TakenIsUsed
  <2>1. CASE j = k
    BY <1>4, <2>1 DEF Using
  <2>2. CASE j # k
    <3>1. PICK p \in Using(j) : TRUE
      BY <1>6, <2>2 DEF IInv, TakenIsUsed
    <3>2. p # o
      BY DEF Using
    <3> QED BY <1>4, <3>2 DEF Using
  <2> QED BY <2>1, <2>2
<1> QED BY <1>4, <1>9, <1>10, <1>12, <1>13, <1>14 DEF IInv

\* Settling an order changes its status and time alone.
LEMMA OrderSettled ==
    ASSUME order \in [Orders -> OrderRows], NEW o \in Orders, NEW at \in Nat,
           NEW next \in {"paid", "failed"},
           order' = [order EXCEPT ![o].status = next, ![o].updatedAt = at]
    PROVE  /\ order' \in [Orders -> OrderRows]
           /\ order'[o].status = next /\ order'[o].claim = order[o].claim
           /\ \A p \in Orders \ {o} : order'[p] = order[p]
<1>1. order'[o] = [[order[o] EXCEPT !.status = next] EXCEPT !.updatedAt = at]
  OBVIOUS
<1>2. order[o] \in OrderRows
  OBVIOUS
<1>3. order'[o] \in OrderRows /\ order'[o].status = next /\ order'[o].claim = order[o].claim
  BY <1>1, <1>2 DEF OrderRows
<1>4. \A p \in Orders \ {o} : order'[p] = order[p]
  OBVIOUS
<1>5. order' = [p \in Orders |-> order'[p]]
  OBVIOUS
<1> QED BY <1>3, <1>4, <1>5

\* The order that is settled is the only one its coupon is the price of, so the
\* coupon may be spent or set free.
LEMMA SettlementKeeps ==
    ASSUME IInv, NEW o \in Orders, NEW at \in Nat, order[o].status = "pending",
           NEW next \in {"paid", "failed"}, NEW status \in ClaimStatuses,
           status \in IF next = "paid" THEN {"redeemed"} ELSE {"available", "expired"},
           order' = [order EXCEPT ![o].status = next, ![o].updatedAt = at],
           order[o].claim = None => UNCHANGED <<claim, redemption>>,
           order[o].claim # None =>
              /\ redemption' = [redemption EXCEPT ![o].status =
                                   IF next = "paid" THEN "consumed" ELSE "released"]
              /\ claim' = [claim EXCEPT ![order[o].claim].status = status],
           UNCHANGED <<clock, rule>>
    PROVE  IInv'
<1> DEFINE k == order[o].claim
<1>1. /\ order \in [Orders -> OrderRows] /\ claim \in [Claims -> ClaimRows]
      /\ redemption \in [Orders -> RedemptionRows]
  BY DEF IInv, TypeOK, OrderRows, ClaimRows, RedemptionRows
<1>2. /\ order' \in [Orders -> OrderRows]
      /\ order'[o].status = next /\ order'[o].claim = k
      /\ \A p \in Orders \ {o} : order'[p] = order[p]
  BY <1>1, OrderSettled
<1>3. k \in Claims \cup {None} /\ (k # None => claim[k].status = "reserved")
  BY <1>1 DEF IInv, CouponFollowsOrder, OrderRows
<1>4. /\ claim' \in [Claims -> ClaimRows]
      /\ \A j \in Claims \ {k} : claim'[j] = claim[j]
      /\ k # None => claim'[k].status = status /\ claim'[k].holder = claim[k].holder
  BY <1>1, <1>3 DEF ClaimRows
<1>5. /\ redemption' \in [Orders -> RedemptionRows]
      /\ \A p \in Orders \ {o} : redemption'[p] = redemption[p]
      /\ k # None => /\ redemption'[o].claim = redemption[o].claim
                     /\ redemption'[o].status =
                           IF next = "paid" THEN "consumed" ELSE "released"
  BY <1>1 DEF RedemptionRows
<1>6. TypeOK'
  BY <1>2, <1>4, <1>5 DEF IInv, TypeOK, OrderRows, ClaimRows, RedemptionRows
<1>7. StockInv'
  <2>1. \A j \in Claims : /\ claim'[j].holder = claim[j].holder
                          /\ claim'[j].status = "none" <=> claim[j].status = "none"
    BY <1>3, <1>4, CouponConstants
  <2> QED BY <2>1, StockKept
<1>8. \A p \in Orders \ {o} : k # None /\ order[p].claim = k =>
         order[p].status \notin {"pending", "paid"}
  BY DEF IInv, NotShared
<1>9. CouponFollowsOrder'
  <2> SUFFICES ASSUME NEW p \in Orders PROVE Follows(p)'
    BY DEF CouponFollowsOrder, Follows
  <2>1. Follows(p) /\ order[p].claim \in Claims \cup {None}
    BY <1>1 DEF IInv, CouponFollowsOrder, Follows, OrderRows
  <2>2. CASE p = o
    <3>1. SUFFICES ASSUME k # None
                   PROVE  /\ redemption'[o].claim = k
                          /\ next = "paid" => /\ redemption'[o].status = "consumed"
                                              /\ claim'[k].status = "redeemed"
                          /\ next = "failed" => redemption'[o].status = "released"
      BY <1>2, <2>2 DEF Follows
    <3> QED BY <1>4, <1>5, <2>1, <2>2, <3>1 DEF Follows
  <2>3. CASE p # o
    <3>1. order'[p] = order[p] /\ redemption'[p] = redemption[p]
      BY <1>2, <1>5, <2>3
    <3>2. order[p].claim = k /\ k # None => order[p].status \notin {"pending", "paid"}
      BY <1>8, <2>3
    <3>3. order[p].claim # k /\ order[p].claim # None =>
             claim'[order[p].claim] = claim[order[p].claim]
      BY <1>4, <2>1
    <3> HIDE DEF k
    <3> QED BY <2>1, <3>1, <3>2, <3>3 DEF Follows
  <2> QED BY <2>2, <2>3
<1>10. NotShared'
  BY <1>2 DEF IInv, NotShared
<1>11. TakenIsUsed'
  <2> SUFFICES ASSUME NEW j \in Claims, claim'[j].status \in {"reserved", "redeemed"}
               PROVE  \E p \in Orders : /\ order'[p].claim = j
                                        /\ order'[p].status \in {"pending", "paid"}
    BY DEF TakenIsUsed, Using
  <2>1. CASE j = k
    <3>1. j # None
      BY CouponConstants
    <3>2. next = "paid"
      BY <1>4, <2>1, <3>1
    <3> QED BY <1>2, <2>1, <3>2
  <2>2. CASE j # k
    <3>1. PICK p \in Orders : order[p].claim = j /\ order[p].status \in {"pending", "paid"}
      BY <1>4, <2>2 DEF IInv, TakenIsUsed, Using
    <3>2. p # o
      BY <2>2, <3>1
    <3> QED BY <1>2, <3>1, <3>2
  <2> QED BY <2>1, <2>2
<1>12. \A p \in Orders : order'[p].status = "none" => order'[p].claim = None
  BY <1>2 DEF IInv
<1> QED BY <1>6, <1>7, <1>9, <1>10, <1>11, <1>12 DEF IInv

\* Before any claim the invariant holds.
LEMMA InitIInv == Init => IInv
<1> SUFFICES ASSUME Init PROVE IInv
  OBVIOUS
<1>1. TypeOK
  <2>1. Limits \subseteq Nat
    BY CouponConstants
  <2>2. rule \in [status : RuleStatuses, discount : 1 .. Gross, limit : Nat,
                  perUser : Nat, issued : Nat]
    <3>1. {"draft"} \subseteq RuleStatuses /\ {0} \subseteq Nat
      BY DEF RuleStatuses
    <3>2. rule \in [status : {"draft"}, discount : 1 .. Gross, limit : Limits,
                    perUser : Limits, issued : {0}]
      BY DEF Init
    <3> QED BY <2>1, <3>1, <3>2
  <2> QED BY <2>2 DEF Init, TypeOK, ClaimStatuses
<1>2. Issued = {} /\ \A c \in Customers : Held(c) = {}
  BY DEF Init, Issued, Held
<1>3. IsFiniteSet({}) /\ Cardinality({}) = 0
  BY FS_EmptySet
<1>4. rule.issued = 0 /\ rule.limit \in Nat /\ rule.perUser \in Nat
  BY <1>1 DEF Init, TypeOK
<1>5. StockInv
  BY <1>2, <1>3, <1>4 DEF StockInv
<1>6. CouponFollowsOrder /\ NotShared /\ TakenIsUsed
      /\ \A o \in Orders : order[o].status = "none" => order[o].claim = None
  BY DEF Init, CouponFollowsOrder, NotShared, TakenIsUsed
<1> QED BY <1>1, <1>5, <1>6 DEF IInv

\* The invariant is inductive.
LEMMA NextIInv == IInv /\ [Next]_vars => IInv'
<1> SUFFICES ASSUME IInv, [Next]_vars PROVE IInv'
  OBVIOUS
<1>1. ASSUME NEW o \in Orders, NEW c \in Customers, CreateOrder(o, c) PROVE IInv'
  <2>1. order[o].status = "none" /\ UNCHANGED <<clock, rule>>
    BY <1>1 DEF CreateOrder
  <2>2. ASSUME NEW k \in Eligible(c), Reserve(o, k),
               order' = [order EXCEPT ![o] = [status |-> "pending", claim |-> k,
                             payable |-> Gross - rule.discount, updatedAt |-> clock]]
        PROVE  IInv'
    BY <2>1, <2>2, CouponOrderKeeps
  <2>3. ASSUME order' = [order EXCEPT ![o] = [status |-> "pending", claim |-> None,
                             payable |-> Gross, updatedAt |-> clock]],
               UNCHANGED <<claim, redemption>>
        PROVE  IInv'
    BY <2>1, <2>3, PlainOrderKeeps
  <2> QED BY <1>1, <2>2, <2>3 DEF CreateOrder
<1>2. ASSUME NEW o \in Orders, NEW at \in 0 .. clock, SettlePaid(o, at) PROVE IInv'
  <2>1. at \in Nat /\ "redeemed" \in ClaimStatuses
    BY DEF IInv, TypeOK, ClaimStatuses
  <2>2. /\ order[o].status = "pending"
        /\ order' = [order EXCEPT ![o].status = "paid", ![o].updatedAt = at]
        /\ UNCHANGED <<clock, rule>>
        /\ order[o].claim = None => UNCHANGED <<claim, redemption>>
        /\ order[o].claim # None =>
              /\ redemption' = [redemption EXCEPT ![o].status = "consumed"]
              /\ claim' = [claim EXCEPT ![order[o].claim].status = "redeemed"]
    BY <1>2 DEF SettlePaid, Consume
  <2> QED BY <2>1, <2>2, SettlementKeeps
<1>3. ASSUME NEW o \in Orders, NEW at \in 0 .. clock, SettleFailed(o, at) PROVE IInv'
  <2> DEFINE status == ReleasedAs(order[o].claim, at)
  <2>1. at \in Nat /\ status \in ClaimStatuses /\ status \in {"available", "expired"}
    BY DEF IInv, TypeOK, ClaimStatuses, ReleasedAs
  <2>2. /\ order[o].status = "pending"
        /\ order' = [order EXCEPT ![o].status = "failed", ![o].updatedAt = at]
        /\ UNCHANGED <<clock, rule>>
        /\ order[o].claim = None => UNCHANGED <<claim, redemption>>
        /\ order[o].claim # None =>
              /\ redemption' = [redemption EXCEPT ![o].status = "released"]
              /\ claim' = [claim EXCEPT ![order[o].claim].status = status]
    BY <1>3 DEF SettleFailed, Release
  <2> HIDE DEF status
  <2> QED BY <2>1, <2>2, SettlementKeeps
<1>4. ASSUME UNCHANGED <<rule, claim, redemption, order>>, clock' \in Nat PROVE IInv'
  <2>1. TypeOK'
    BY <1>4 DEF IInv, TypeOK
  <2>2. StockInv'
    BY <1>4, StockKept
  <2>3. CouponFollowsOrder' /\ NotShared' /\ TakenIsUsed'
    BY <1>4 DEF IInv, CouponFollowsOrder, NotShared, TakenIsUsed, Using
  <2> QED BY <1>4, <2>1, <2>2, <2>3 DEF IInv
<1>5. clock \in Nat /\ clock + 1 \in Nat
  BY DEF IInv, TypeOK
<1>6. CASE Tick
  BY <1>4, <1>5, <1>6 DEF Tick
<1>7. CASE UNCHANGED vars
  BY <1>4, <1>5, <1>7 DEF vars
<1> QED BY <1>1, <1>2, <1>3, <1>6, <1>7, RuleActions, ClaimKeeps DEF Next

-----------------------------------------------------------------------------
(* Theorems                                                                  *)

\* Every reachable state satisfies the invariant.
LEMMA Inductive == Spec => []IInv
BY InitIInv, NextIInv, PTL DEF Spec

\* Stock and each customer's share are never oversold, whatever limits the
\* administrator sets and however many customers claim (ClaimCoupon, mutate).
THEOREM StockHolds == Spec => []NeverOversold
<1>1. IInv => NeverOversold
  BY DEF IInv, StockInv, NeverOversold, Issued
<1> QED BY <1>1, Inductive, PTL

\* The rows of rule, claim, redemption and order agree, and a coupon pays for at
\* most one order (ReserveCoupon, ConsumeCoupon, ReleaseCoupon).
THEOREM CouponTablesAgree == Spec => []TablesAgree
<1>1. IInv => OneOrderPerCoupon
  <2> SUFFICES ASSUME IInv, NEW k \in Claims
               PROVE  /\ Cardinality(Using(k)) <= 1
                      /\ claim[k].status \in {"reserved", "redeemed"} <=> Using(k) # {}
    BY DEF OneOrderPerCoupon, Using
  <2>1. Cardinality(Using(k)) <= 1
    <3>1. CASE Using(k) = {}
      BY <3>1, FS_EmptySet
    <3>2. CASE Using(k) # {}
      <4>1. PICK o \in Using(k) : TRUE
        BY <3>2
      <4>2. Using(k) = {o}
        BY CouponConstants DEF IInv, NotShared, Using
      <4>3. Cardinality({o}) = 1
        BY FS_Singleton
      <4> QED BY <4>2, <4>3
    <3> QED BY <3>1, <3>2
  <2> QED BY <2>1, FreeIsUnused DEF IInv, TakenIsUsed
<1>2. IInv => TablesAgree
  BY <1>1 DEF IInv, TablesAgree
<1> QED BY <1>2, Inductive, PTL

\* A coupon that is spent or expired stays so, and one comes back only from an
\* order that failed before the coupon's time was over (ReleaseCoupon).
THEOREM SpentForGood == Spec => SpentStaysSpent
<1> DEFINE Stays(k) ==
        /\ claim[k].status \in {"redeemed", "expired"} => claim'[k] = claim[k]
        /\ (claim[k].status = "reserved" /\ claim'[k].status = "available") =>
              \E o \in Orders : /\ order[o].claim = k
                                /\ order'[o].status = "failed"
                                /\ order'[o].updatedAt < claim[k].until
<1>1. ASSUME IInv, [Next]_vars, NEW k \in Claims PROVE Stays(k)
  <2>1. claim \in [Claims -> ClaimRows] /\ order \in [Orders -> OrderRows]
    BY <1>1 DEF IInv, TypeOK, ClaimRows, OrderRows
  <2>2. CASE claim' = claim
    BY <2>2
  <2>3. ASSUME NEW j \in Claims, NEW c \in Customers, ClaimCoupon(j, c) PROVE Stays(k)
    BY <2>1, <2>3 DEF ClaimCoupon
  <2>4. ASSUME NEW o \in Orders, NEW c \in Customers, CreateOrder(o, c) PROVE Stays(k)
    <3>1. CASE \E j \in Eligible(c) : Reserve(o, j)
      BY <2>1, <3>1 DEF Reserve, Eligible, Held, ClaimRows
    <3> QED BY <2>2, <2>4, <3>1 DEF CreateOrder
  <2>5. ASSUME NEW o \in Orders, NEW at \in 0 .. clock, SettlePaid(o, at) PROVE Stays(k)
    <3>1. CASE order[o].claim = None
      BY <2>2, <2>5, <3>1 DEF SettlePaid, Consume
    <3>2. CASE order[o].claim # None
      BY <2>1, <2>5, <3>2 DEF SettlePaid, Consume, ClaimRows
    <3> QED BY <3>1, <3>2
  <2>6. ASSUME NEW o \in Orders, NEW at \in 0 .. clock, SettleFailed(o, at) PROVE Stays(k)
    <3>1. CASE order[o].claim = None
      BY <2>2, <2>6, <3>1 DEF SettleFailed, Release
    <3>2. CASE order[o].claim # None
      <4> DEFINE j == order[o].claim
      <4>1. /\ claim[j].status = "reserved" /\ j \in Claims
            /\ claim' = [claim EXCEPT ![j].status = ReleasedAs(j, at)]
        BY <2>1, <2>6, <3>2 DEF SettleFailed, Release, OrderRows
      <4>2. order'[o].status = "failed" /\ order'[o].updatedAt = at
        BY <2>1, <2>6 DEF SettleFailed, OrderRows
      <4>3. CASE k = j
        <5>1. claim'[k].status = ReleasedAs(k, at)
          BY <2>1, <4>1, <4>3 DEF ClaimRows
        <5>2. claim'[k].status = "available" => at < claim[k].until
          BY <5>1 DEF ReleasedAs
        <5> QED BY <4>1, <4>2, <4>3, <5>2
      <4>4. CASE k # j
        BY <2>1, <4>1, <4>4
      <4> QED BY <4>3, <4>4
    <3> QED BY <3>1, <3>2
  <2>7. ASSUME \/ \E discount \in 1 .. Gross, limit, perUser \in Limits :
                     \/ UpdateDraft(discount, limit, perUser)
                     \/ Update(discount, limit, perUser)
               \/ Publish \/ Stop \/ Archive \/ Delete \/ Tick \/ UNCHANGED vars
        PROVE  claim' = claim
    BY <2>7 DEF UpdateDraft, Update, Publish, Stop, Archive, Delete, Tick, vars
  <2> HIDE DEF Stays
  <2> QED BY <1>1, <2>2, <2>3, <2>4, <2>5, <2>6, <2>7 DEF Next
<1>2. IInv /\ [Next]_vars => [\A k \in Claims : Stays(k)]_vars
  BY <1>1
<1> QED BY <1>2, Inductive, PTL DEF Spec, SpentStaysSpent

=============================================================================
