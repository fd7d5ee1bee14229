---------------------------- MODULE PaymentsProofs ----------------------------
(***************************************************************************)
(* The checkout of Payments for any set of refund numbers, any price, any   *)
(* number of outstanding answers, any clock of the server and any of the    *)
(* Provider: the books are true, only the Provider's time can refuse what   *)
(* has moved, nothing settled changes, and the checkout implements          *)
(* MoneyLedger.  Refunds and splits are never granted beyond what was paid, *)
(* but for a refund that an answer outside 2xx ended wrongly.               *)
(***************************************************************************)
EXTENDS Payments, SumTheorems

-----------------------------------------------------------------------------
(* The inductive invariant                                                   *)

\* Only finitely many refunds were ever asked for, so their amounts have a sum.
Requested == {r \in Refunds : refund[r].status # "absent"}

\* The buyer can pay only with a credential, and it is never taken back.
CredentialIsIssued ==
    /\ payment.status \in {"absent", "awaiting_prepay"} => ~payment.handoff
    /\ trade.state = "paid" => payment.handoff

\* Until it is settled, a payment is no older than its order, and both were
\* written by the server's clock.
RowsInTime ==
    payment.status \in Unsettled =>
        order.updatedAt <= payment.updatedAt /\ payment.updatedAt <= clock

\* An answer may be stale, but what it says of an end is true for good.
AnswersAreTrue ==
    \A q \in queries :
        /\ q.target = "payment" =>
              /\ q.outcome = "success" => trade.state = "paid"
              /\ q.outcome = "closed" => trade.state = "closed"
        /\ \A r \in Refunds : q.target = r =>
              /\ q.outcome = "success" => moneyBack[r].state = "success"
              /\ q.outcome = "closed" => moneyBack[r].state = "closed"

\* The Provider hears of a refund only after it was asked for and reserved, and
\* refunds are asked for only of a payment that is paid.
RefundIsBacked(r) ==
    /\ refund[r].status = "absent" =>
          refund[r].amount = 0 /\ effect[r] = "absent" /\ moneyBack[r].state = "none"
    /\ refund[r].status # "absent" => refund[r].amount > 0 /\ payment.status = "paid"

RefundsAreBacked == \A r \in Refunds : RefundIsBacked(r)

ReceiptsAreBooked ==
    /\ "payment" \in receipts => payment.status = "paid"
    /\ \A r \in Refunds : r \in receipts => refund[r].status = "completed"

OneUnderWay ==
    \A r, s \in Refunds :
        refund[r].status \in NonTerminal /\ refund[s].status \in NonTerminal => r = s

ReserveFits == ReservedRefundMinor + split <= Amount

\* What single rows say.
RowInv ==
    /\ TypeOK
    /\ BooksAgree
    /\ MoneyIsReal
    /\ CredentialIsIssued
    /\ RowsInTime
    /\ AnswersAreTrue
    /\ RefundsAreBacked
    /\ ReceiptsAreBooked
    /\ OneUnderWay

\* What the refunds add up to.
SumInv == IsFiniteSet(Requested) /\ RefundsAddUp /\ ReserveFits

IInv == RowInv /\ SumInv

-----------------------------------------------------------------------------
(* Totals over the refunds' rows                                             *)

Counted(rows, statuses) == {r \in Refunds : rows[r].status \in statuses}

Total(rows, statuses) ==
    SumFunctionOnSet([r \in Refunds |-> rows[r].amount], Counted(rows, statuses))

\* The sums that the checkout reads are totals over the rows before and after a
\* step.
LEMMA SumIsTotal ==
    ASSUME NEW statuses
    PROVE  /\ SumOf(statuses) = Total(refund, statuses)
           /\ SumOf(statuses)' = Total(refund', statuses)
BY DEF SumOf, Total, Counted

\* A total of finitely many rows is a natural number.
LEMMA TotalType ==
    ASSUME NEW rows \in [Refunds -> RefundRows], NEW statuses,
           IsFiniteSet(Counted(rows, statuses))
    PROVE  Total(rows, statuses) \in Nat
<1> DEFINE f == [r \in Refunds |-> rows[r].amount]
<1>1. \A r \in Counted(rows, statuses) : f[r] \in Nat
  BY AmountAssumption DEF Counted, RefundRows
<1> HIDE DEF f
<1>2. SumFunctionOnSet(f, Counted(rows, statuses)) \in Nat
  BY <1>1, SumType
<1> QED BY <1>2 DEF Total, f

\* The same refunds counted with the same amounts make the same total, before a
\* step and after it, under one name and under another.
LEMMA TotalStays ==
    ASSUME NEW old \in [Refunds -> RefundRows], NEW new \in [Refunds -> RefundRows],
           NEW then, NEW now, IsFiniteSet(Counted(old, then)),
           Counted(new, now) = Counted(old, then),
           \A r \in Counted(old, then) : new[r].amount = old[r].amount
    PROVE  Total(new, now) = Total(old, then)
<1> DEFINE f == [r \in Refunds |-> old[r].amount]
           h == [r \in Refunds |-> new[r].amount]
           S == Counted(old, then)
<1>1. \A r \in S : h[r] = f[r]
  BY DEF Counted
<1> HIDE DEF f, h
<1>2. SumFunctionOnSet(h, S) = SumFunctionOnSet(f, S)
  BY <1>1, SumCongruent
<1> QED BY <1>2 DEF Total, f, h

\* One more refund is counted.
LEMMA TotalGrows ==
    ASSUME NEW old \in [Refunds -> RefundRows], NEW new \in [Refunds -> RefundRows],
           NEW then, NEW now, IsFiniteSet(Counted(old, then)),
           NEW r \in Refunds, r \notin Counted(old, then),
           Counted(new, now) = Counted(old, then) \cup {r},
           \A s \in Counted(old, then) : new[s].amount = old[s].amount
    PROVE  Total(new, now) = Total(old, then) + new[r].amount
<1> DEFINE f == [s \in Refunds |-> old[s].amount]
           h == [s \in Refunds |-> new[s].amount]
           S == Counted(old, then)
<1>1. \A s \in S : h[s] = f[s]
  BY DEF Counted
<1>2. /\ \A s \in S \cup {r} : h[s] \in Nat
      /\ \A s \in S : f[s] \in Nat
      /\ h[r] = new[r].amount
  BY AmountAssumption DEF Counted, RefundRows
<1> HIDE DEF f, h
<1>3. SumFunctionOnSet(h, S) = SumFunctionOnSet(f, S)
  BY <1>1, SumCongruent
<1>4. SumFunctionOnSet(h, S \cup {r}) = h[r] + SumFunctionOnSet(h, S)
  BY <1>2, SumAdd
<1>5. SumFunctionOnSet(f, S) \in Nat
  BY <1>2, SumType
<1>6. h[r] + SumFunctionOnSet(f, S) = SumFunctionOnSet(f, S) + h[r]
  BY <1>2, <1>5
<1>7. Total(new, now) = SumFunctionOnSet(h, S \cup {r})
  BY DEF Total, h
<1>8. Total(old, then) = SumFunctionOnSet(f, S)
  BY DEF Total, f
<1> QED BY <1>2, <1>3, <1>4, <1>6, <1>7, <1>8

-----------------------------------------------------------------------------
(* What a step does to the refunds and to their totals                       *)

Reserving == NonTerminal \cup {"completed"}

\* Finitely many refunds were requested, so finitely many have any status but
\* absent.
LEMMA CountedIsFinite ==
    ASSUME IsFiniteSet(Requested), NEW statuses, "absent" \notin statuses
    PROVE  IsFiniteSet(Counted(refund, statuses))
<1>1. Counted(refund, statuses) \in SUBSET Requested
  BY DEF Counted, Requested
<1> QED BY <1>1, FS_Subset

\* What was returned and what is reserved are amounts.
LEMMA SumsAreNat ==
    ASSUME TypeOK, IsFiniteSet(Requested)
    PROVE  SumOf({"completed"}) \in Nat /\ ReservedRefundMinor \in Nat
<1>1. refund \in [Refunds -> RefundRows]
  BY DEF TypeOK
<1>2. "absent" \notin {"completed"} /\ "absent" \notin Reserving
  BY DEF Reserving, NonTerminal
<1>3. /\ IsFiniteSet(Counted(refund, {"completed"}))
      /\ IsFiniteSet(Counted(refund, Reserving))
  BY <1>2, CountedIsFinite
<1>4. Total(refund, {"completed"}) \in Nat /\ Total(refund, Reserving) \in Nat
  BY <1>1, <1>3, TotalType
<1> QED BY <1>4, SumIsTotal DEF ReservedRefundMinor, Reserving

\* So is what is reserved after a step.
LEMMA TotalAfter ==
    ASSUME refund' \in [Refunds -> RefundRows], IsFiniteSet(Requested')
    PROVE  ReservedRefundMinor' \in Nat
<1>1. Counted(refund', Reserving) \in SUBSET Requested'
  BY DEF Counted, Requested, Reserving, NonTerminal
<1>2. IsFiniteSet(Counted(refund', Reserving))
  BY <1>1, FS_Subset
<1>3. Total(refund', Reserving) \in Nat
  BY <1>2, TotalType
<1> QED BY <1>3, SumIsTotal DEF ReservedRefundMinor, Reserving

\* The refund under way is the difference between what is reserved and what is
\* booked; without one there is none.
LEMMA ReserveIsBookedAndOpen ==
    ASSUME TypeOK, IsFiniteSet(Requested), OneUnderWay
    PROVE  /\ \A r \in Refunds : refund[r].status \in NonTerminal =>
                 ReservedRefundMinor = SumOf({"completed"}) + refund[r].amount
           /\ ~HasNonTerminalRefund => ReservedRefundMinor = SumOf({"completed"})
<1>1. refund \in [Refunds -> RefundRows]
  BY DEF TypeOK
<1>2. IsFiniteSet(Counted(refund, {"completed"}))
  BY CountedIsFinite
<1>3. ASSUME NEW r \in Refunds, refund[r].status \in NonTerminal
      PROVE  Total(refund, Reserving) = Total(refund, {"completed"}) + refund[r].amount
  <2>1. r \notin Counted(refund, {"completed"})
    BY <1>3 DEF Counted, NonTerminal
  <2>2. Counted(refund, Reserving) = Counted(refund, {"completed"}) \cup {r}
    BY <1>3 DEF Counted, Reserving, OneUnderWay
  <2> QED BY <1>1, <1>2, <2>1, <2>2, TotalGrows
<1>4. ASSUME ~HasNonTerminalRefund
      PROVE  Total(refund, Reserving) = Total(refund, {"completed"})
  <2>1. Counted(refund, Reserving) = Counted(refund, {"completed"})
    BY <1>4 DEF Counted, Reserving, HasNonTerminalRefund
  <2> QED BY <1>1, <1>2, <2>1, TotalStays
<1> QED BY <1>3, <1>4, SumIsTotal DEF ReservedRefundMinor, Reserving

\* A step that leaves the refunds alone.
LEMMA SumsUnchanged ==
    ASSUME UNCHANGED refund
    PROVE  /\ Requested' = Requested
           /\ SumOf({"completed"})' = SumOf({"completed"})
           /\ ReservedRefundMinor' = ReservedRefundMinor
           /\ HasNonTerminalRefund' = HasNonTerminalRefund
BY SumIsTotal DEF Requested, ReservedRefundMinor, HasNonTerminalRefund

\* A step that moves one refund to another status.
LEMMA RefundMoves ==
    ASSUME TypeOK, NEW r \in Refunds, NEW next \in RefundStatuses, NEW at \in Nat,
           refund' = [refund EXCEPT ![r].status = next, ![r].updatedAt = at]
    PROVE  /\ refund' \in [Refunds -> RefundRows]
           /\ refund'[r].status = next
           /\ refund'[r].amount = refund[r].amount
           /\ \A s \in Refunds : s # r => refund'[s] = refund[s]
<1>1. refund \in [Refunds -> RefundRows] /\ refund[r] \in RefundRows
  BY DEF TypeOK
<1>2. /\ refund'[r] = [[refund[r] EXCEPT !.status = next] EXCEPT !.updatedAt = at]
      /\ \A s \in Refunds : s # r => refund'[s] = refund[s]
      /\ refund' = [s \in Refunds |-> refund'[s]]
  BY <1>1
<1>3. /\ refund'[r] \in RefundRows
      /\ refund'[r].status = next /\ refund'[r].amount = refund[r].amount
  BY <1>1, <1>2 DEF RefundRows
<1>4. \A s \in Refunds : refund'[s] \in RefundRows
  BY <1>1, <1>2, <1>3
<1> QED BY <1>2, <1>3, <1>4

\* What a refund that moves on does to the totals.
LEMMA SumsAfterMove ==
    ASSUME TypeOK, IsFiniteSet(Requested), refund' \in [Refunds -> RefundRows],
           NEW r \in Refunds, refund[r].status \in NonTerminal,
           refund'[r].status \in RefundStatuses \ {"absent"},
           refund'[r].amount = refund[r].amount,
           \A s \in Refunds : s # r => refund'[s] = refund[s]
    PROVE  /\ Requested' = Requested
           /\ refund'[r].status = "completed" =>
                 /\ SumOf({"completed"})' = SumOf({"completed"}) + refund[r].amount
                 /\ ReservedRefundMinor' = ReservedRefundMinor
           /\ refund'[r].status # "completed" =>
                 SumOf({"completed"})' = SumOf({"completed"})
           /\ refund'[r].status \in NonTerminal =>
                 ReservedRefundMinor' = ReservedRefundMinor
           /\ refund'[r].status = "final_failed" =>
                 ReservedRefundMinor = ReservedRefundMinor' + refund[r].amount
<1>1. refund \in [Refunds -> RefundRows]
  BY DEF TypeOK
<1>2. /\ IsFiniteSet(Counted(refund, {"completed"}))
      /\ IsFiniteSet(Counted(refund, Reserving))
  BY CountedIsFinite DEF Reserving, NonTerminal
<1>3. Requested' = Requested
  BY DEF Requested, NonTerminal
<1>4. \A s \in Refunds : refund'[s].amount = refund[s].amount
  OBVIOUS
<1>5. ASSUME refund'[r].status = "completed"
      PROVE  Total(refund', {"completed"}) = Total(refund, {"completed"}) + refund[r].amount
  <2>1. r \notin Counted(refund, {"completed"})
    BY DEF Counted, NonTerminal
  <2>2. Counted(refund', {"completed"}) = Counted(refund, {"completed"}) \cup {r}
    BY <1>5 DEF Counted
  <2>3. \A s \in Counted(refund, {"completed"}) : refund'[s].amount = refund[s].amount
    BY <1>4 DEF Counted
  <2> QED BY <1>1, <1>2, <2>1, <2>2, <2>3, TotalGrows
<1>6. ASSUME refund'[r].status # "completed"
      PROVE  Total(refund', {"completed"}) = Total(refund, {"completed"})
  <2>1. Counted(refund', {"completed"}) = Counted(refund, {"completed"})
    BY <1>6 DEF Counted, NonTerminal
  <2>2. \A s \in Counted(refund, {"completed"}) : refund'[s].amount = refund[s].amount
    BY <1>4 DEF Counted
  <2> QED BY <1>1, <1>2, <2>1, <2>2, TotalStays
<1>7. ASSUME refund'[r].status \in Reserving
      PROVE  Total(refund', Reserving) = Total(refund, Reserving)
  <2>1. Counted(refund', Reserving) = Counted(refund, Reserving)
    BY <1>7 DEF Counted, Reserving
  <2>2. \A s \in Counted(refund, Reserving) : refund'[s].amount = refund[s].amount
    BY <1>4 DEF Counted
  <2> QED BY <1>1, <1>2, <2>1, <2>2, TotalStays
<1>8. ASSUME refund'[r].status = "final_failed"
      PROVE  Total(refund, Reserving) = Total(refund', Reserving) + refund[r].amount
  <2>1. r \notin Counted(refund', Reserving)
    BY <1>8 DEF Counted, Reserving, NonTerminal
  <2>2. Counted(refund, Reserving) = Counted(refund', Reserving) \cup {r}
    BY <1>8 DEF Counted, Reserving, NonTerminal
  <2>3. \A s \in Counted(refund', Reserving) : refund[s].amount = refund'[s].amount
    BY <1>4 DEF Counted
  <2>4. IsFiniteSet(Counted(refund', Reserving))
    <3>1. Counted(refund', Reserving) \in SUBSET Counted(refund, Reserving)
      BY <2>2
    <3> QED BY <1>2, <3>1, FS_Subset
  <2> QED BY <1>1, <2>1, <2>2, <2>3, <2>4, TotalGrows
<1>9. /\ SumOf({"completed"}) = Total(refund, {"completed"})
      /\ SumOf({"completed"})' = Total(refund', {"completed"})
      /\ ReservedRefundMinor = Total(refund, Reserving)
      /\ ReservedRefundMinor' = Total(refund', Reserving)
  BY SumIsTotal DEF ReservedRefundMinor, Reserving
<1>10. "completed" \in Reserving /\ NonTerminal \subseteq Reserving
  BY DEF Reserving
<1> QED BY <1>3, <1>5, <1>6, <1>7, <1>8, <1>9, <1>10

\* A refund that is asked for, and what it does to the totals.
LEMMA RefundAppears ==
    ASSUME TypeOK, NEW r \in Refunds, NEW amount \in 1 .. Amount,
           refund' = [refund EXCEPT ![r] =
               [status |-> "effect_accepted", amount |-> amount, updatedAt |-> clock]]
    PROVE  /\ refund' \in [Refunds -> RefundRows]
           /\ refund'[r].status = "effect_accepted" /\ refund'[r].amount = amount
           /\ \A s \in Refunds : s # r => refund'[s] = refund[s]
<1>1. refund \in [Refunds -> RefundRows] /\ clock \in Nat
  BY DEF TypeOK
<1>2. /\ refund'[r].status = "effect_accepted" /\ refund'[r].amount = amount
      /\ \A s \in Refunds : s # r => refund'[s] = refund[s]
  BY <1>1
<1>3. refund' \in [Refunds -> RefundRows]
  BY <1>1, AmountAssumption DEF RefundRows, RefundStatuses
<1> QED BY <1>2, <1>3

\* A new request reserves its own amount and returns nothing yet.
LEMMA SumsAfterRequest ==
    ASSUME TypeOK, IsFiniteSet(Requested), refund' \in [Refunds -> RefundRows],
           NEW r \in Refunds, refund[r].status = "absent",
           refund'[r].status = "effect_accepted",
           \A s \in Refunds : s # r => refund'[s] = refund[s]
    PROVE  /\ IsFiniteSet(Requested')
           /\ SumOf({"completed"})' = SumOf({"completed"})
           /\ ReservedRefundMinor' = ReservedRefundMinor + refund'[r].amount
<1>1. refund \in [Refunds -> RefundRows]
  BY DEF TypeOK
<1>2. IsFiniteSet(Requested')
  <2>1. Requested' = Requested \cup {r}
    BY DEF Requested
  <2> QED BY <2>1, FS_AddElement
<1>3. /\ IsFiniteSet(Counted(refund, {"completed"}))
      /\ IsFiniteSet(Counted(refund, Reserving))
  BY CountedIsFinite DEF Reserving, NonTerminal
<1>4. Total(refund', {"completed"}) = Total(refund, {"completed"})
  <2>1. /\ Counted(refund', {"completed"}) = Counted(refund, {"completed"})
        /\ \A s \in Counted(refund, {"completed"}) : refund'[s].amount = refund[s].amount
    BY DEF Counted
  <2> QED BY <1>1, <1>3, <2>1, TotalStays
<1>5. Total(refund', Reserving) = Total(refund, Reserving) + refund'[r].amount
  <2>1. /\ r \notin Counted(refund, Reserving)
        /\ Counted(refund', Reserving) = Counted(refund, Reserving) \cup {r}
        /\ \A s \in Counted(refund, Reserving) : refund'[s].amount = refund[s].amount
    BY DEF Counted, Reserving, NonTerminal
  <2> QED BY <1>1, <1>3, <2>1, TotalGrows
<1> QED BY <1>2, <1>4, <1>5, SumIsTotal DEF ReservedRefundMinor, Reserving

-----------------------------------------------------------------------------
(* The initial states                                                        *)

\* The rows agree before anything was created.
LEMMA InitRows == Init => RowInv
<1> SUFFICES ASSUME Init PROVE RowInv
  OBVIOUS
<1>1. TypeOK
  BY AmountAssumption DEF Init, TypeOK, PaymentRows, OrderRows, RefundRows, Trades,
     Returns, PaymentStatuses, OrderStatuses, RefundStatuses, EffectStates
<1>2. \A r \in Refunds : refund[r].status = "absent" /\ RefundIsBacked(r)
  BY DEF Init, RefundIsBacked, Targets
<1>3. BooksAgree /\ CredentialIsIssued /\ RowsInTime
  BY DEF Init, BooksAgree, CredentialIsIssued, RowsInTime, Unsettled
<1>4. MoneyIsReal
  BY <1>2 DEF Init, MoneyIsReal
<1> QED BY <1>1, <1>2, <1>3, <1>4 DEF Init, RowInv, AnswersAreTrue, RefundsAreBacked,
           ReceiptsAreBooked, OneUnderWay, NonTerminal

\* Nothing was requested at first, and nothing is reserved.
LEMMA InitSums == Init => SumInv
<1> SUFFICES ASSUME Init PROVE SumInv
  OBVIOUS
<1>1. \A r \in Refunds : refund[r].status = "absent"
  BY DEF Init
<1>2. Requested = {}
  BY <1>1 DEF Requested
<1>3. Counted(refund, {"completed"}) = {} /\ Counted(refund, Reserving) = {}
  BY <1>1 DEF Counted, Reserving, NonTerminal
<1>4. SumOf({"completed"}) = 0 /\ ReservedRefundMinor = 0
  BY <1>3, SumIsTotal, SumEmpty DEF Total, ReservedRefundMinor, Reserving
<1>5. RefundsAddUp
  BY <1>4, AmountAssumption DEF Init, RefundsAddUp
<1>6. ReserveFits
  BY <1>4, AmountAssumption DEF Init, ReserveFits
<1> QED BY <1>2, <1>5, <1>6, FS_EmptySet DEF SumInv

-----------------------------------------------------------------------------
(* Steps that leave the refunds alone                                        *)

\* Nothing the totals depend on changes.
LEMMA SumsKept ==
    ASSUME SumInv, UNCHANGED <<refund, order, split>>
    PROVE  SumInv'
<1>1. /\ Requested' = Requested
      /\ SumOf({"completed"})' = SumOf({"completed"})
      /\ ReservedRefundMinor' = ReservedRefundMinor
  BY SumsUnchanged
<1>2. RefundsAddUp'
  BY <1>1 DEF SumInv, RefundsAddUp
<1>3. ReserveFits'
  BY <1>1 DEF SumInv, ReserveFits
<1> QED BY <1>1, <1>2, <1>3 DEF SumInv

\* Creating the checkout (payment, order and prepay effect in one transaction)
\* keeps the invariant.
LEMMA CreateInv == IInv /\ Create => IInv'
<1> SUFFICES ASSUME RowInv, SumInv, Create PROVE IInv'
  BY DEF IInv
<1>1. TypeOK'
  BY DEF RowInv, Create, TypeOK, PaymentRows, OrderRows, PaymentStatuses, OrderStatuses,
     EffectStates
<1>2. \A r \in Refunds : refund[r].status = "absent" /\ RefundIsBacked(r)'
  BY RefundAssumption DEF RowInv, RefundsAreBacked, RefundIsBacked, Create, Targets, TypeOK
<1>3. BooksAgree' /\ CredentialIsIssued' /\ RowsInTime'
  BY DEF RowInv, Create, BooksAgree, CredentialIsIssued, RowsInTime, TypeOK, PaymentRows,
     OrderRows, Unsettled
<1>4. MoneyIsReal'
  BY <1>2 DEF RowInv, Create, MoneyIsReal, TypeOK, PaymentRows
<1>5. AnswersAreTrue' /\ OneUnderWay'
  BY DEF RowInv, Create, AnswersAreTrue, OneUnderWay
<1>6. ReceiptsAreBooked'
  BY DEF RowInv, Create, ReceiptsAreBooked
<1>7. SumInv'
  <2>1. /\ Requested' = Requested
        /\ SumOf({"completed"})' = SumOf({"completed"})
        /\ ReservedRefundMinor' = ReservedRefundMinor
    BY SumsUnchanged DEF Create
  <2>2. order.status = "absent" /\ order.refunded = order'.refunded
        /\ order'.status = "pending_payment"
    BY DEF RowInv, BooksAgree, Create, TypeOK, OrderRows, Unsettled
  <2>3. RefundsAddUp'
    BY <2>1, <2>2 DEF SumInv, RefundsAddUp
  <2>4. ReserveFits'
    BY <2>1 DEF SumInv, ReserveFits, Create
  <2> QED BY <2>1, <2>3, <2>4 DEF SumInv
<1> QED BY <1>1, <1>2, <1>3, <1>4, <1>5, <1>6, <1>7 DEF IInv, RowInv, RefundsAreBacked

\* The rest of the rows when only the clock, the reserve of a split, the effects,
\* the jobs or the answers change.
LEMMA RowsKept ==
    ASSUME RowInv, UNCHANGED <<payment, order, refund, trade, moneyBack, receipts>>,
           clock' \in Nat, clock' >= clock,
           \A r \in Refunds : effect[r] = "absent" => effect'[r] = "absent"
    PROVE  /\ BooksAgree' /\ MoneyIsReal' /\ CredentialIsIssued' /\ RowsInTime'
           /\ RefundsAreBacked' /\ ReceiptsAreBooked' /\ OneUnderWay'
<1>1. BooksAgree' /\ MoneyIsReal' /\ CredentialIsIssued' /\ OneUnderWay'
  BY DEF RowInv, BooksAgree, MoneyIsReal, CredentialIsIssued, OneUnderWay
<1>2. RowsInTime'
  BY DEF RowInv, RowsInTime, TypeOK, PaymentRows, OrderRows
<1>3. RefundsAreBacked' /\ ReceiptsAreBooked'
  BY DEF RowInv, RefundsAreBacked, RefundIsBacked, ReceiptsAreBooked
<1> QED BY <1>1, <1>2, <1>3

\* Profit sharing reserves what refunds have left.
LEMMA ReserveSplitInv == ASSUME NEW amount \in 1 .. Amount
                         PROVE  IInv /\ ReserveSplit(amount) => IInv'
<1> SUFFICES ASSUME RowInv, SumInv, ReserveSplit(amount) PROVE IInv'
  BY DEF IInv
<1>1. TypeOK'
  BY AmountAssumption DEF RowInv, ReserveSplit, TypeOK
<1>2. AnswersAreTrue'
  BY DEF RowInv, AnswersAreTrue, ReserveSplit
<1>3. clock \in Nat
  BY DEF RowInv, TypeOK
<1>4. RowInv'
  BY <1>1, <1>2, <1>3, RowsKept DEF RowInv, ReserveSplit
<1>5. SumInv'
  <2>1. /\ Requested' = Requested
        /\ SumOf({"completed"})' = SumOf({"completed"})
        /\ ReservedRefundMinor' = ReservedRefundMinor
    BY SumsUnchanged DEF ReserveSplit
  <2>2. ReservedRefundMinor = SumOf({"completed"}) /\ SumOf({"completed"}) \in Nat
    BY ReserveIsBookedAndOpen, SumsAreNat
       DEF RowInv, SumInv, ReserveSplit, NoRefundExposure
  <2>3. RefundsAddUp'
    BY <2>1 DEF SumInv, RefundsAddUp, ReserveSplit
  <2>4. ReserveFits'
    BY <2>1, <2>2 DEF ReserveFits, ReserveSplit
  <2> QED BY <2>1, <2>3, <2>4 DEF SumInv
<1> QED BY <1>4, <1>5 DEF IInv

\* Releasing the split's reserve keeps the invariant.
LEMMA ReleaseSplitInv == IInv /\ ReleaseSplit => IInv'
<1> SUFFICES ASSUME RowInv, SumInv, ReleaseSplit PROVE IInv'
  BY DEF IInv
<1>1. TypeOK'
  BY AmountAssumption DEF RowInv, ReleaseSplit, TypeOK
<1>2. AnswersAreTrue'
  BY DEF RowInv, AnswersAreTrue, ReleaseSplit
<1>3. clock \in Nat
  BY DEF RowInv, TypeOK
<1>4. RowInv'
  BY <1>1, <1>2, <1>3, RowsKept DEF RowInv, ReleaseSplit
<1>5. SumInv'
  <2>1. /\ Requested' = Requested
        /\ SumOf({"completed"})' = SumOf({"completed"})
        /\ ReservedRefundMinor' = ReservedRefundMinor
    BY SumsUnchanged DEF ReleaseSplit
  <2>2. RefundsAddUp'
    BY <2>1 DEF SumInv, RefundsAddUp, ReleaseSplit
  <2>3. ReservedRefundMinor \in Nat /\ split \in Nat /\ split' = 0
    BY SumsAreNat, AmountAssumption DEF RowInv, SumInv, ReleaseSplit, TypeOK
  <2>4. ReserveFits'
    BY <2>1, <2>3, AmountAssumption DEF SumInv, ReserveFits
  <2> QED BY <2>1, <2>2, <2>4 DEF SumInv
<1> QED BY <1>4, <1>5 DEF IInv

\* Time passes.
LEMMA TickInv == IInv /\ Tick => IInv'
<1> SUFFICES ASSUME RowInv, SumInv, Tick PROVE IInv'
  BY DEF IInv
<1>1. TypeOK' /\ clock \in Nat
  BY DEF RowInv, Tick, TypeOK
<1>2. AnswersAreTrue'
  BY DEF RowInv, AnswersAreTrue, Tick
<1>3. RowInv'
  BY <1>1, <1>2, RowsKept DEF RowInv, Tick
<1>4. SumInv'
  BY SumsKept DEF Tick
<1> QED BY <1>3, <1>4 DEF IInv

\* An effect that moves was accepted: no refund gains one it did not ask for.
LEMMA EffectMovesOn ==
    ASSUME RowInv, NEW x \in Targets, NEW next \in EffectStates,
           effect[x] # "absent", effect' = [effect EXCEPT ![x] = next]
    PROVE  /\ effect' \in [Targets -> EffectStates]
           /\ \A r \in Refunds : effect[r] = "absent" => effect'[r] = "absent"
BY DEF RowInv, TypeOK, Targets

\* The kernel claims an effect.
LEMMA AttemptInv == ASSUME NEW x \in Targets PROVE IInv /\ Attempt(x) => IInv'
<1> SUFFICES ASSUME RowInv, SumInv, Attempt(x) PROVE IInv'
  BY DEF IInv
<1>1. /\ effect' \in [Targets -> EffectStates]
      /\ \A r \in Refunds : effect[r] = "absent" => effect'[r] = "absent"
  <2>1. "attempted" \in EffectStates
    BY DEF EffectStates
  <2> QED BY <2>1, EffectMovesOn DEF Attempt
<1>2. TypeOK' /\ clock \in Nat
  BY <1>1 DEF RowInv, Attempt, TypeOK
<1>3. AnswersAreTrue'
  BY DEF RowInv, AnswersAreTrue, Attempt
<1>4. RowInv'
  BY <1>1, <1>2, <1>3, RowsKept DEF RowInv, Attempt
<1>5. SumInv'
  BY SumsKept DEF Attempt
<1> QED BY <1>4, <1>5 DEF IInv

\* The kernel cancels, retries or recovers an effect without telling Payment.
LEMMA EffectMovesInv == ASSUME NEW x \in Targets PROVE IInv /\ EffectMoves(x) => IInv'
<1> SUFFICES ASSUME RowInv, SumInv, EffectMoves(x) PROVE IInv'
  BY DEF IInv
<1>1. /\ effect' \in [Targets -> EffectStates]
      /\ \A r \in Refunds : effect[r] = "absent" => effect'[r] = "absent"
  <2>1. PICK next \in EffectStates : effect' = [effect EXCEPT ![x] = next]
    BY DEF EffectMoves, EffectStates
  <2>2. effect[x] # "absent"
    BY DEF EffectMoves
  <2> QED BY <2>1, <2>2, EffectMovesOn
<1>2. TypeOK' /\ clock \in Nat
  BY <1>1 DEF RowInv, EffectMoves, TypeOK
<1>3. AnswersAreTrue'
  BY DEF RowInv, AnswersAreTrue, EffectMoves
<1>4. RowInv'
  BY <1>1, <1>2, <1>3, RowsKept DEF RowInv, EffectMoves
<1>5. SumInv'
  BY SumsKept DEF EffectMoves
<1> QED BY <1>4, <1>5 DEF IInv

\* A query reads the Provider; what it read is true when it was read.
LEMMA AskInv == ASSUME NEW x \in Targets PROVE IInv /\ Ask(x) => IInv'
<1> SUFFICES ASSUME RowInv, SumInv, Ask(x) PROVE IInv'
  BY DEF IInv
<1> DEFINE a == IF x = "payment" THEN PaymentAnswer ELSE RefundAnswer(x)
<1>1. a \in Answers
  BY DEF RowInv, TypeOK, Trades, Returns, Targets, Answers, PaymentAnswer, RefundAnswer
<1>2. queries' = queries \cup {a}
  BY DEF Ask
<1>3. /\ a.target = x
      /\ x = "payment" => /\ a.outcome = "success" => trade.state = "paid"
                          /\ a.outcome = "closed" => trade.state = "closed"
      /\ x # "payment" => /\ a.outcome = "success" => moneyBack[x].state = "success"
                          /\ a.outcome = "closed" => moneyBack[x].state = "closed"
  BY DEF RowInv, TypeOK, Trades, Returns, Targets, PaymentAnswer, RefundAnswer
<1> HIDE DEF a
<1>4. AnswersAreTrue'
  BY <1>2, <1>3, RefundAssumption DEF RowInv, AnswersAreTrue, Ask
<1>5. TypeOK' /\ clock \in Nat
  BY <1>1, <1>2 DEF RowInv, Ask, TypeOK
<1>6. RowInv'
  BY <1>4, <1>5, RowsKept DEF RowInv, Ask
<1>7. SumInv'
  BY SumsKept DEF Ask
<1> QED BY <1>6, <1>7 DEF IInv

\* A query is lost.
LEMMA ForgetInv == ASSUME NEW q \in queries PROVE IInv /\ Forget(q) => IInv'
<1> SUFFICES ASSUME RowInv, SumInv, Forget(q) PROVE IInv'
  BY DEF IInv
<1>1. AnswersAreTrue'
  BY DEF RowInv, AnswersAreTrue, Forget
<1>2. TypeOK' /\ clock \in Nat
  BY DEF RowInv, Forget, TypeOK
<1>3. RowInv'
  BY <1>1, <1>2, RowsKept DEF RowInv, Forget
<1>4. SumInv'
  BY SumsKept DEF Forget
<1> QED BY <1>3, <1>4 DEF IInv

-----------------------------------------------------------------------------
(* The Provider moves                                                        *)

\* The Provider's time is a time.
LEMMA WholeSecondType == ASSUME NEW t \in Nat PROVE WholeSecond(t) \in Nat
<1>1. Second \in Nat /\ Second > 0
  BY ClockAssumption
<1>2. t % Second \in 0 .. Second - 1
  BY <1>1
<1>3. t = Second * (t \div Second) + (t % Second)
  BY <1>1
<1>4. t \div Second \in Nat
  BY <1>1
<1>5. Second * (t \div Second) \in Nat
  BY <1>1, <1>4
<1>6. t - (t % Second) \in Nat
  BY <1>1, <1>2, <1>3, <1>5
<1> QED BY <1>6 DEF WholeSecond

\* A step of the Provider that takes back nothing it has said.
LEMMA ProviderMoves ==
    ASSUME RowInv,
           UNCHANGED <<clock, payment, order, refund, split, effect, receipts, jobs,
                       discarded, queries>>,
           trade' \in Trades, moneyBack' \in [Refunds -> Returns],
           trade.state = "paid" => trade' = trade,
           trade.state = "closed" => trade'.state = "closed",
           \A r \in Refunds :
               /\ moneyBack[r].state = "success" => moneyBack'[r].state = "success"
               /\ moneyBack[r].state = "closed" => moneyBack'[r].state = "closed"
               /\ refund[r].status = "absent" => moneyBack'[r].state = "none",
           trade'.state = "paid" /\ trade.state # "paid" =>
               trade.state = "open" /\ payment.handoff
    PROVE  RowInv'
<1>1. TypeOK'
  BY DEF RowInv, TypeOK
<1>2. BooksAgree' /\ OneUnderWay' /\ ReceiptsAreBooked'
  BY DEF RowInv, BooksAgree, OneUnderWay, ReceiptsAreBooked
<1>3. MoneyIsReal'
  BY DEF RowInv, MoneyIsReal
<1>4. CredentialIsIssued' /\ RowsInTime'
  BY DEF RowInv, CredentialIsIssued, RowsInTime
<1>5. AnswersAreTrue'
  BY DEF RowInv, AnswersAreTrue
<1>6. RefundsAreBacked'
  BY DEF RowInv, RefundsAreBacked, RefundIsBacked
<1> QED BY <1>1, <1>2, <1>3, <1>4, <1>5, <1>6 DEF RowInv

\* The Provider performs a call.
LEMMA PerformInv == ASSUME NEW x \in Targets PROVE IInv /\ Perform(x) => IInv'
<1> SUFFICES ASSUME RowInv, SumInv, Perform(x) PROVE IInv'
  BY DEF IInv
<1>1. /\ UNCHANGED <<clock, payment, order, refund, split, effect, receipts, jobs,
                   discarded, queries>>
      /\ trade \in Trades /\ moneyBack \in [Refunds -> Returns]
  BY DEF RowInv, TypeOK, Perform
<1>2. CASE x = "payment"
  <2>1. /\ trade.state = "none" /\ trade' = [trade EXCEPT !.state = "open"]
        /\ moneyBack' = moneyBack
    BY <1>2 DEF Perform, Performed
  <2>2. trade' \in Trades /\ trade'.state = "open"
    BY <1>1, <2>1 DEF Trades
  <2>3. \A r \in Refunds : refund[r].status = "absent" => moneyBack[r].state = "none"
    BY DEF RowInv, RefundsAreBacked, RefundIsBacked
  <2> QED BY <1>1, <2>1, <2>2, <2>3, ProviderMoves, SumsKept DEF IInv
<1>3. CASE x # "payment"
  <2>1. /\ x \in Refunds /\ moneyBack[x].state = "none" /\ trade' = trade
        /\ moneyBack' = [moneyBack EXCEPT ![x].state = "processing"]
        /\ effect[x] # "absent"
    BY <1>3 DEF Perform, Performed, Targets
  <2>2. /\ moneyBack'[x].state = "processing" /\ moneyBack'[x] \in Returns
        /\ \A r \in Refunds : r # x => moneyBack'[r] = moneyBack[r]
        /\ moneyBack' \in [Refunds -> Returns]
    BY <1>1, <2>1 DEF Returns
  <2>3. refund[x].status # "absent"
    BY <2>1 DEF RowInv, RefundsAreBacked, RefundIsBacked
  <2>4. \A r \in Refunds : refund[r].status = "absent" => moneyBack[r].state = "none"
    BY DEF RowInv, RefundsAreBacked, RefundIsBacked
  <2>5. \A r \in Refunds :
               /\ moneyBack[r].state = "success" => moneyBack'[r].state = "success"
               /\ moneyBack[r].state = "closed" => moneyBack'[r].state = "closed"
               /\ refund[r].status = "absent" => moneyBack'[r].state = "none"
    BY <2>1, <2>2, <2>3, <2>4
  <2> QED BY <1>1, <2>1, <2>2, <2>5, ProviderMoves, SumsKept DEF IInv
<1> QED BY <1>2, <1>3

\* So are the times the Provider may report.
LEMMA ProviderTimesType == ProviderTimes \subseteq Nat
BY WholeSecondType, ClockAssumption DEF ProviderTimes

\* The buyer pays what was handed over.
LEMMA BuyerPaysInv == ASSUME NEW at \in ProviderTimes PROVE IInv /\ BuyerPays(at) => IInv'
<1> SUFFICES ASSUME RowInv, SumInv, BuyerPays(at) PROVE IInv'
  BY DEF IInv
<1>1. /\ UNCHANGED <<clock, payment, order, refund, split, effect, receipts, jobs,
                   discarded, queries>>
      /\ moneyBack' = moneyBack /\ moneyBack \in [Refunds -> Returns]
      /\ trade.state = "open" /\ payment.handoff
      /\ trade' = [state |-> "paid", at |-> at]
  BY DEF RowInv, TypeOK, BuyerPays
<1>2. trade' \in Trades
  BY <1>1, ProviderTimesType DEF Trades
<1>3. \A r \in Refunds : refund[r].status = "absent" => moneyBack[r].state = "none"
  BY DEF RowInv, RefundsAreBacked, RefundIsBacked
<1> QED BY <1>1, <1>2, <1>3, ProviderMoves, SumsKept DEF IInv

\* The Provider closes an unpaid trade.
LEMMA TradeClosesInv == IInv /\ TradeCloses => IInv'
<1> SUFFICES ASSUME RowInv, SumInv, TradeCloses PROVE IInv'
  BY DEF IInv
<1>1. /\ UNCHANGED <<clock, payment, order, refund, split, effect, receipts, jobs,
                   discarded, queries>>
      /\ moneyBack' = moneyBack /\ moneyBack \in [Refunds -> Returns]
      /\ trade.state = "open" /\ trade \in Trades
      /\ trade' = [trade EXCEPT !.state = "closed"]
  BY DEF RowInv, TypeOK, TradeCloses
<1>2. trade' \in Trades /\ trade'.state = "closed"
  BY <1>1 DEF Trades
<1>3. \A r \in Refunds : refund[r].status = "absent" => moneyBack[r].state = "none"
  BY DEF RowInv, RefundsAreBacked, RefundIsBacked
<1> QED BY <1>1, <1>2, <1>3, ProviderMoves, SumsKept DEF IInv

\* The Provider finishes a refund it took.
LEMMA RefundEndsInv == ASSUME NEW r \in Refunds PROVE IInv /\ RefundEnds(r) => IInv'
<1> SUFFICES ASSUME RowInv, SumInv, RefundEnds(r) PROVE IInv'
  BY DEF IInv
<1>1. /\ UNCHANGED <<clock, payment, order, refund, split, effect, receipts, jobs,
                   discarded, queries>>
      /\ trade' = trade /\ trade \in Trades /\ moneyBack \in [Refunds -> Returns]
      /\ moneyBack[r].state = "processing"
  BY DEF RowInv, TypeOK, RefundEnds
<1>2. ProviderTimes \subseteq Nat
  BY ProviderTimesType
<1>3. /\ moneyBack' \in [Refunds -> Returns]
      /\ \A s \in Refunds : s # r => moneyBack'[s] = moneyBack[s]
  BY <1>1, <1>2 DEF RefundEnds, Returns
<1>4. \A s \in Refunds : refund[s].status = "absent" => moneyBack[s].state = "none"
  BY DEF RowInv, RefundsAreBacked, RefundIsBacked
<1>5. \A s \in Refunds :
               /\ moneyBack[s].state = "success" => moneyBack'[s].state = "success"
               /\ moneyBack[s].state = "closed" => moneyBack'[s].state = "closed"
               /\ refund[s].status = "absent" => moneyBack'[s].state = "none"
  BY <1>1, <1>3, <1>4
<1> QED BY <1>1, <1>3, <1>5, ProviderMoves, SumsKept DEF IInv

-----------------------------------------------------------------------------
(* The payment is settled: by the effect, by a notice or by an answer        *)

\* What every such step has in common, whichever of the three makes it.
LEMMA PaymentSettles ==
    ASSUME RowInv, SumInv, NEW next \in {"paid", "failed"}, NEW at \in Nat,
           payment.status \in Unsettled,
           payment' = [payment EXCEPT !.status = next, !.updatedAt = at],
           order' = [order EXCEPT !.status = IF next = "paid" THEN "paid" ELSE "payment_failed",
                                  !.updatedAt = at],
           UNCHANGED <<clock, refund, split, trade, moneyBack>>,
           effect' \in [Targets -> EffectStates],
           \A r \in Refunds : effect[r] = "absent" => effect'[r] = "absent",
           next = "paid" => trade.state = "paid",
           next = "failed" =>
               trade.state = "closed" \/ (trade.state # "paid" /\ ~payment.handoff),
           receipts' \in SUBSET Targets,
           "payment" \in receipts' => next = "paid",
           \A r \in Refunds : r \in receipts' => r \in receipts,
           jobs' \in SUBSET Targets, UNCHANGED discarded, queries' \in SUBSET queries
    PROVE  IInv'
<1>1. payment \in PaymentRows /\ order \in OrderRows
  BY DEF RowInv, TypeOK
<1>2. /\ payment' \in PaymentRows
      /\ payment'.status = next /\ payment'.handoff = payment.handoff
  BY <1>1 DEF PaymentRows, PaymentStatuses
<1>3. /\ order' \in OrderRows /\ order'.refunded = order.refunded
      /\ order'.status = IF next = "paid" THEN "paid" ELSE "payment_failed"
  BY <1>1 DEF OrderRows, OrderStatuses
<1>4. order.status = "pending_payment"
  BY DEF RowInv, BooksAgree, Unsettled
<1>5. TypeOK'
  BY <1>2, <1>3 DEF RowInv, TypeOK
<1>6. BooksAgree'
  BY <1>2, <1>3 DEF BooksAgree, Unsettled
<1>7. MoneyIsReal'
  BY <1>2 DEF RowInv, MoneyIsReal
<1>8. CredentialIsIssued'
  BY <1>2 DEF RowInv, CredentialIsIssued
<1>9. RowsInTime'
  BY <1>2 DEF RowsInTime, Unsettled
<1>10. AnswersAreTrue'
  BY DEF RowInv, AnswersAreTrue
<1>11. \A r \in Refunds : refund[r].status = "absent"
  BY DEF RowInv, RefundsAreBacked, RefundIsBacked, Unsettled
<1>12. RefundsAreBacked'
  BY <1>11 DEF RowInv, RefundsAreBacked, RefundIsBacked
<1>13. ReceiptsAreBooked' /\ OneUnderWay'
  BY <1>2 DEF RowInv, ReceiptsAreBooked, OneUnderWay
<1>14. SumInv'
  <2>1. /\ Requested' = Requested
        /\ SumOf({"completed"})' = SumOf({"completed"})
        /\ ReservedRefundMinor' = ReservedRefundMinor
    BY SumsUnchanged
  <2>2. RefundsAddUp'
    BY <1>3, <1>4, <2>1 DEF SumInv, RefundsAddUp
  <2>3. ReserveFits'
    BY <2>1 DEF SumInv, ReserveFits
  <2> QED BY <2>1, <2>2, <2>3 DEF SumInv
<1> QED BY <1>5, <1>6, <1>7, <1>8, <1>9, <1>10, <1>12, <1>13, <1>14 DEF IInv, RowInv

\* The completion of the prepay effect keeps the invariant.
LEMMA PrepayCompletesInv ==
    ASSUME NEW completion \in Completions
    PROVE  IInv /\ CompleteEffect("payment", completion) => IInv'
<1> SUFFICES ASSUME RowInv, SumInv, CompleteEffect("payment", completion) PROVE IInv'
  BY DEF IInv
<1>1. /\ UNCHANGED <<clock, split, trade, moneyBack, receipts, discarded, queries, refund>>
      /\ effect["payment"] = "attempted"
      /\ effect' = [effect EXCEPT !["payment"] = completion]
      /\ PrepayCompletes(completion)
  BY DEF CompleteEffect
<1>2. "payment" \in Targets /\ completion \in EffectStates
  BY DEF Targets, Completions, EffectStates
<1>3. /\ effect' \in [Targets -> EffectStates]
      /\ \A r \in Refunds : effect[r] = "absent" => effect'[r] = "absent"
  BY <1>1, <1>2, EffectMovesOn
<1>4. clock \in Nat /\ receipts \in SUBSET Targets /\ jobs \in SUBSET Targets
  BY DEF RowInv, TypeOK
<1>5. CASE completion = "executed"
  <2>1. /\ payment.status = "awaiting_prepay" /\ UNCHANGED order
        /\ payment' = [status |-> "awaiting_payment", updatedAt |-> clock, handoff |-> TRUE]
        /\ jobs' = jobs \cup {"payment"}
    BY <1>1, <1>5 DEF PrepayCompletes, PrepayPending
  <2>2. TypeOK'
    BY <1>1, <1>2, <1>3, <1>4, <2>1 DEF RowInv, TypeOK, PaymentRows, PaymentStatuses
  <2>3. trade.state # "paid"
    BY <2>1 DEF RowInv, CredentialIsIssued
  <2>4. \A r \in Refunds : refund[r].status = "absent"
    BY <2>1 DEF RowInv, RefundsAreBacked, RefundIsBacked
  <2>5. BooksAgree' /\ MoneyIsReal' /\ CredentialIsIssued'
    BY <1>1, <2>1, <2>3 DEF RowInv, BooksAgree, MoneyIsReal, CredentialIsIssued, Unsettled
  <2>6. RowsInTime'
    <3>1. /\ order.updatedAt \in Nat /\ payment.updatedAt \in Nat
          /\ order.updatedAt <= payment.updatedAt /\ payment.updatedAt <= clock
      BY <2>1 DEF RowInv, TypeOK, PaymentRows, OrderRows, RowsInTime, Unsettled
    <3> QED BY <1>1, <1>4, <2>1, <2>3, <3>1 DEF RowsInTime
  <2>7. AnswersAreTrue' /\ OneUnderWay' /\ ReceiptsAreBooked'
    BY <1>1, <2>1 DEF RowInv, AnswersAreTrue, OneUnderWay, ReceiptsAreBooked
  <2>8. RefundsAreBacked'
    BY <1>1, <1>3, <2>4 DEF RowInv, RefundsAreBacked, RefundIsBacked
  <2>9. SumInv'
    BY <1>1, <2>1, SumsKept
  <2> QED BY <2>2, <2>5, <2>6, <2>7, <2>8, <2>9 DEF IInv, RowInv
<1>6. CASE completion \in {"outcome_unknown", "retryable_failed"}
  <2>1. UNCHANGED <<payment, order>> /\ jobs' \in SUBSET Targets
    BY <1>1, <1>2, <1>4, <1>6 DEF PrepayCompletes
  <2>2. TypeOK'
    BY <1>1, <1>3, <2>1 DEF RowInv, TypeOK
  <2>3. AnswersAreTrue'
    BY <1>1 DEF RowInv, AnswersAreTrue
  <2>4. RowInv'
    BY <1>1, <1>3, <1>4, <2>1, <2>2, <2>3, RowsKept DEF RowInv
  <2> QED BY <1>1, <2>1, <2>4, SumsKept DEF IInv
<1>7. CASE completion = "final_failed"
  <2>1. /\ payment.status = "awaiting_prepay"
        /\ payment' = [payment EXCEPT !.status = "failed", !.updatedAt = clock]
        /\ order' = [order EXCEPT !.status = "payment_failed", !.updatedAt = clock]
        /\ jobs' = jobs
    BY <1>1, <1>7 DEF PrepayCompletes, PrepayPending, SettlePayment
  <2>2. ~payment.handoff /\ trade.state # "paid" /\ "payment" \notin receipts
    BY <2>1 DEF RowInv, CredentialIsIssued, ReceiptsAreBooked
  <2>3. payment.status \in Unsettled
    BY <2>1 DEF Unsettled
  <2>4. order' = [order EXCEPT !.status = IF "failed" = "paid" THEN "paid" ELSE "payment_failed",
                               !.updatedAt = clock]
    BY <2>1
  <2> QED BY <1>1, <1>3, <1>4, <2>1, <2>2, <2>3, <2>4, PaymentSettles
<1> QED BY <1>5, <1>6, <1>7 DEF Completions

\* The notice of a payment settles payment and order together.
LEMMA PaymentCallbackInv == IInv /\ PaymentCallback => IInv'
<1> SUFFICES ASSUME RowInv, SumInv, PaymentCallback PROVE IInv'
  BY DEF IInv
<1>1. /\ UNCHANGED <<clock, refund, split, effect, trade, moneyBack, jobs, discarded,
                   queries>>
      /\ receipts' = receipts \cup {"payment"} /\ trade.state = "paid"
  BY DEF PaymentCallback
<1>2. /\ clock \in Nat /\ receipts' \in SUBSET Targets /\ jobs \in SUBSET Targets
      /\ effect \in [Targets -> EffectStates] /\ trade.at \in Nat
  BY <1>1 DEF RowInv, TypeOK, Targets, Trades
<1>3. \A r \in Refunds : r \in receipts' => r \in receipts
  BY <1>1, RefundAssumption
<1>4. CASE payment.status = "paid"
  <2>1. UNCHANGED <<payment, order>>
    BY <1>4 DEF PaymentCallback
  <2>2. TypeOK'
    BY <1>1, <1>2, <2>1 DEF RowInv, TypeOK
  <2>3. BooksAgree' /\ MoneyIsReal' /\ CredentialIsIssued' /\ OneUnderWay'
    BY <1>1, <2>1 DEF RowInv, BooksAgree, MoneyIsReal, CredentialIsIssued, OneUnderWay
  <2>4. RowsInTime' /\ AnswersAreTrue' /\ RefundsAreBacked'
    BY <1>1, <2>1 DEF RowInv, RowsInTime, AnswersAreTrue, RefundsAreBacked, RefundIsBacked
  <2>5. ReceiptsAreBooked'
    BY <1>1, <1>3, <1>4, <2>1 DEF RowInv, ReceiptsAreBooked
  <2> QED BY <1>1, <2>1, <2>2, <2>3, <2>4, <2>5, SumsKept DEF IInv, RowInv
<1>5. CASE payment.status # "paid"
  <2>1. /\ payment.status \in Unsettled
        /\ payment' = [payment EXCEPT !.status = "paid", !.updatedAt = trade.at]
        /\ order' = [order EXCEPT !.status = "paid", !.updatedAt = trade.at]
    BY <1>5 DEF PaymentCallback, SettlePaid, Settle, SettlePayment
  <2>2. order' = [order EXCEPT !.status = IF "paid" = "paid" THEN "paid" ELSE "payment_failed",
                               !.updatedAt = trade.at]
    BY <2>1
  <2> QED BY <1>1, <1>2, <1>3, <2>1, <2>2, PaymentSettles
<1> QED BY <1>4, <1>5

\* So does an answer about the payment that counts and settles.
LEMMA SettlesPaymentInv ==
    ASSUME NEW q \in queries, q.target = "payment", AnswerCounts(q), Settles(q), Apply(q)
    PROVE  IInv => IInv'
<1> SUFFICES ASSUME RowInv, SumInv PROVE IInv'
  BY DEF IInv
<1>1. UNCHANGED <<clock, split, effect, trade, moneyBack, receipts, discarded, refund>>
  BY DEF Apply, Settles
<1>2. /\ clock \in Nat /\ receipts \in SUBSET Targets
      /\ effect \in [Targets -> EffectStates] /\ q.at \in Nat
      /\ q.outcome \in {"pending", "success", "closed"}
  BY DEF RowInv, TypeOK, Answers
<1>3. jobs' \in SUBSET Targets /\ queries' \in SUBSET queries
  BY DEF RowInv, TypeOK, Apply
<1>4. payment.status \in Unsettled
  BY DEF Settles, SettlePaid, Settle
<1>5. "payment" \notin receipts
  BY <1>4 DEF RowInv, ReceiptsAreBooked, Unsettled
<1>6. CASE q.outcome = "success"
  <2>1. /\ payment' = [payment EXCEPT !.status = "paid", !.updatedAt = q.at]
        /\ order' = [order EXCEPT !.status = "paid", !.updatedAt = q.at]
    BY <1>6 DEF Settles, SettlePaid, Settle, SettlePayment
  <2>2. order' = [order EXCEPT !.status = IF "paid" = "paid" THEN "paid" ELSE "payment_failed",
                               !.updatedAt = q.at]
    BY <2>1
  <2>3. trade.state = "paid"
    BY <1>6 DEF RowInv, AnswersAreTrue
  <2> QED BY <1>1, <1>2, <1>3, <1>4, <1>5, <2>1, <2>2, <2>3, PaymentSettles
<1>7. CASE q.outcome = "closed"
  <2>1. /\ payment' = [payment EXCEPT !.status = "failed", !.updatedAt = q.at]
        /\ order' = [order EXCEPT !.status = "payment_failed", !.updatedAt = q.at]
    BY <1>7 DEF Settles, SettlePaid, Settle, SettlePayment
  <2>2. order' = [order EXCEPT !.status = IF "failed" = "paid" THEN "paid" ELSE "payment_failed",
                               !.updatedAt = q.at]
    BY <2>1
  <2>3. trade.state = "closed"
    BY <1>7 DEF RowInv, AnswersAreTrue
  <2> QED BY <1>1, <1>2, <1>3, <1>4, <1>5, <2>1, <2>2, <2>3, PaymentSettles
<1> QED BY <1>2, <1>6, <1>7 DEF AnswerCounts

-----------------------------------------------------------------------------
(* Refunds                                                                   *)

\* A refund is requested within what is left of the payment.
LEMMA RequestRefundInv ==
    ASSUME NEW r \in Refunds, NEW amount \in 1 .. Amount
    PROVE  IInv /\ RequestRefund(r, amount) => IInv'
<1> SUFFICES ASSUME RowInv, SumInv, RequestRefund(r, amount) PROVE IInv'
  BY DEF IInv
<1>1. /\ UNCHANGED <<clock, payment, order, split, trade, moneyBack, receipts, jobs,
                   discarded, queries>>
      /\ refund[r].status = "absent" /\ payment.status = "paid" /\ ~HasNonTerminalRefund
      /\ amount + ReservedRefundMinor + split <= Amount
      /\ refund' = [refund EXCEPT ![r] =
            [status |-> "effect_accepted", amount |-> amount, updatedAt |-> clock]]
      /\ effect' = [effect EXCEPT ![r] = "queued"]
  BY DEF RequestRefund
<1>2. TypeOK /\ IsFiniteSet(Requested)
  BY DEF RowInv, SumInv
<1>3. /\ refund' \in [Refunds -> RefundRows]
      /\ refund'[r].status = "effect_accepted" /\ refund'[r].amount = amount
      /\ \A s \in Refunds : s # r => refund'[s] = refund[s]
  BY <1>1, <1>2, RefundAppears
<1>4. /\ effect' \in [Targets -> EffectStates]
      /\ \A s \in Refunds : s # r => effect'[s] = effect[s]
  BY <1>1, <1>2 DEF TypeOK, Targets, EffectStates
<1>5. TypeOK'
  BY <1>1, <1>2, <1>3, <1>4 DEF TypeOK
<1>6. BooksAgree' /\ CredentialIsIssued' /\ RowsInTime' /\ AnswersAreTrue'
  BY <1>1 DEF RowInv, BooksAgree, CredentialIsIssued, RowsInTime, AnswersAreTrue
<1>7. MoneyIsReal'
  BY <1>1, <1>3 DEF RowInv, MoneyIsReal
<1>8. RefundsAreBacked'
  BY <1>1, <1>3, <1>4 DEF RowInv, RefundsAreBacked, RefundIsBacked
<1>9. ReceiptsAreBooked' /\ OneUnderWay'
  BY <1>1, <1>3 DEF RowInv, ReceiptsAreBooked, OneUnderWay, HasNonTerminalRefund
<1>10. /\ IsFiniteSet(Requested')
       /\ SumOf({"completed"})' = SumOf({"completed"})
       /\ ReservedRefundMinor' = ReservedRefundMinor + amount
  BY <1>1, <1>2, <1>3, SumsAfterRequest
<1>11. RefundsAddUp'
  BY <1>1, <1>10 DEF SumInv, RefundsAddUp
<1>12. ReserveFits'
  <2>1. ReservedRefundMinor \in Nat /\ split \in Nat /\ Amount \in Nat
    BY <1>2, SumsAreNat, AmountAssumption DEF TypeOK
  <2> QED BY <1>1, <1>10, <2>1 DEF ReserveFits
<1> QED BY <1>5, <1>6, <1>7, <1>8, <1>9, <1>10, <1>11, <1>12 DEF IInv, RowInv, SumInv

\* A refund under way moves on: its effect ends, its notice comes, its answer is
\* applied.  What the order books is what the refund was granted.
LEMMA RefundSettles ==
    ASSUME RowInv, SumInv, NEW r \in Refunds, refund[r].status \in NonTerminal,
           NEW next \in {"outcome_unknown", "completed", "final_failed"}, NEW at \in Nat,
           refund' = [refund EXCEPT ![r].status = next, ![r].updatedAt = at],
           UNCHANGED <<clock, payment, split, trade, moneyBack>>,
           next = "completed" =>
               moneyBack[r].state = "success" /\ SettleRefund(refund[r].amount, at),
           next # "completed" => UNCHANGED order,
           effect' \in [Targets -> EffectStates],
           \A s \in Refunds : effect[s] = "absent" => effect'[s] = "absent",
           receipts' \in SUBSET Targets,
           "payment" \in receipts' => "payment" \in receipts,
           \A s \in Refunds : s \in receipts' =>
               s \in receipts \/ (s = r /\ next = "completed"),
           jobs' \in SUBSET Targets, UNCHANGED discarded, queries' \in SUBSET queries
    PROVE  IInv'
<1>1. TypeOK /\ IsFiniteSet(Requested) /\ next \in RefundStatuses
  BY DEF RowInv, SumInv, RefundStatuses
<1>2. /\ refund' \in [Refunds -> RefundRows]
      /\ refund'[r].status = next
      /\ refund'[r].amount = refund[r].amount
      /\ \A s \in Refunds : s # r => refund'[s] = refund[s]
  BY <1>1, RefundMoves
<1>3. payment.status = "paid" /\ refund[r].amount > 0 /\ refund[r].amount \in Nat
  BY <1>1, AmountAssumption
     DEF RowInv, RefundsAreBacked, RefundIsBacked, NonTerminal, TypeOK, RefundRows
<1>4. order \in OrderRows
  BY <1>1 DEF TypeOK
<1>5. /\ order' \in OrderRows
      /\ order'.status \in {"paid", "partially_refunded", "refunded"}
  <2>1. CASE next = "completed"
    <3>1. order.refunded + refund[r].amount \in Nat
      BY <1>3, <1>4 DEF OrderRows
    <3>2. order' = [status |-> IF order.refunded + refund[r].amount = Amount
                               THEN "refunded" ELSE "partially_refunded",
                    refunded |-> order.refunded + refund[r].amount, updatedAt |-> at]
      BY <2>1 DEF SettleRefund, RefundBooked
    <3> QED BY <3>1, <3>2 DEF OrderRows, OrderStatuses
  <2>2. CASE next # "completed"
    BY <1>3, <1>4, <2>2 DEF RowInv, BooksAgree, Unsettled
  <2> QED BY <2>1, <2>2
<1>6. TypeOK'
  BY <1>1, <1>2, <1>5 DEF TypeOK
<1>7. BooksAgree'
  BY <1>3, <1>5 DEF BooksAgree, Unsettled
<1>8. MoneyIsReal'
  BY <1>2 DEF RowInv, MoneyIsReal
<1>9. CredentialIsIssued' /\ AnswersAreTrue'
  BY DEF RowInv, CredentialIsIssued, AnswersAreTrue
<1>10. RowsInTime'
  BY <1>3 DEF RowsInTime, Unsettled
<1>11. RefundsAreBacked'
  BY <1>2, <1>3 DEF RowInv, RefundsAreBacked, RefundIsBacked
<1>12. ReceiptsAreBooked'
  BY <1>2 DEF RowInv, ReceiptsAreBooked, NonTerminal
<1>13. OneUnderWay'
  BY <1>2 DEF RowInv, OneUnderWay
<1>14. /\ Requested' = Requested
       /\ next = "completed" =>
             /\ SumOf({"completed"})' = SumOf({"completed"}) + refund[r].amount
             /\ ReservedRefundMinor' = ReservedRefundMinor
       /\ next # "completed" => SumOf({"completed"})' = SumOf({"completed"})
       /\ next = "outcome_unknown" => ReservedRefundMinor' = ReservedRefundMinor
       /\ next = "final_failed" =>
             ReservedRefundMinor = ReservedRefundMinor' + refund[r].amount
  <2>1. next \in RefundStatuses \ {"absent"} /\ "outcome_unknown" \in NonTerminal
    BY <1>1 DEF NonTerminal
  <2> QED BY <1>1, <1>2, <2>1, SumsAfterMove
<1>15. RefundsAddUp'
  <2>1. CASE next = "completed"
    <3>1. /\ order.refunded + refund[r].amount <= Amount
          /\ order'.refunded = order.refunded + refund[r].amount
          /\ order'.status = IF order.refunded + refund[r].amount = Amount
                             THEN "refunded" ELSE "partially_refunded"
      BY <2>1 DEF SettleRefund, RefundBooked, RefundAdmitted
    <3>2. order.refunded = SumOf({"completed"}) /\ order.refunded \in Nat
      BY <1>4 DEF SumInv, RefundsAddUp, OrderRows
    <3> QED BY <1>3, <1>14, <2>1, <3>1, <3>2, AmountAssumption DEF RefundsAddUp
  <2>2. CASE next # "completed"
    BY <1>14, <2>2 DEF SumInv, RefundsAddUp
  <2> QED BY <2>1, <2>2
<1>16. ReserveFits'
  <2>1. ReservedRefundMinor \in Nat /\ split \in Nat /\ Amount \in Nat
    BY <1>1, SumsAreNat, AmountAssumption DEF TypeOK
  <2>2. ReservedRefundMinor' \in Nat
    <3>1. IsFiniteSet(Requested')
      BY <1>1, <1>14
    <3> QED BY <1>2, <3>1, TotalAfter
  <2> QED BY <1>3, <1>14, <2>1, <2>2 DEF SumInv, ReserveFits
<1> QED BY <1>1, <1>6, <1>7, <1>8, <1>9, <1>10, <1>11, <1>12, <1>13, <1>14, <1>15, <1>16
    DEF IInv, RowInv, SumInv

\* The notice of a refund completes it and books it in the order.
LEMMA RefundCallbackInv == ASSUME NEW r \in Refunds PROVE IInv /\ RefundCallback(r) => IInv'
<1> SUFFICES ASSUME RowInv, SumInv, RefundCallback(r) PROVE IInv'
  BY DEF IInv
<1>1. /\ UNCHANGED <<clock, payment, split, effect, trade, moneyBack, jobs, discarded,
                   queries>>
      /\ moneyBack[r].state = "success" /\ receipts' = receipts \cup {r}
      /\ refund[r].status \in NonTerminal
      /\ refund' = [refund EXCEPT ![r].status = "completed", ![r].updatedAt = moneyBack[r].at]
      /\ SettleRefund(refund[r].amount, moneyBack[r].at)
  BY DEF RefundCallback, Complete
<1>2. /\ moneyBack[r].at \in Nat /\ effect \in [Targets -> EffectStates]
      /\ receipts' \in SUBSET Targets /\ jobs \in SUBSET Targets
  BY <1>1 DEF RowInv, TypeOK, Returns, Targets
<1>3. /\ "payment" \in receipts' => "payment" \in receipts
      /\ \A s \in Refunds : s \in receipts' => s \in receipts \/ s = r
  BY <1>1, RefundAssumption
<1> QED BY <1>1, <1>2, <1>3, RefundSettles

\* The completion of a refund's effect keeps the invariant.
LEMMA RefundCompletesInv ==
    ASSUME NEW r \in Refunds, NEW completion \in Completions
    PROVE  IInv /\ CompleteEffect(r, completion) => IInv'
<1> SUFFICES ASSUME RowInv, SumInv, CompleteEffect(r, completion) PROVE IInv'
  BY DEF IInv
<1>1. /\ UNCHANGED <<clock, split, trade, moneyBack, receipts, discarded, queries,
                   payment, order>>
      /\ effect[r] = "attempted" /\ effect' = [effect EXCEPT ![r] = completion]
      /\ RefundCompletes(r, completion)
  BY RefundAssumption DEF CompleteEffect
<1>2. r \in Targets /\ completion \in EffectStates
  BY DEF Targets, Completions, EffectStates
<1>3. /\ effect' \in [Targets -> EffectStates]
      /\ \A s \in Refunds : effect[s] = "absent" => effect'[s] = "absent"
  BY <1>1, <1>2, EffectMovesOn
<1>4. clock \in Nat /\ receipts \in SUBSET Targets /\ jobs' \in SUBSET Targets
  BY <1>1, <1>2 DEF RowInv, TypeOK, RefundCompletes
<1>5. CASE completion \in {"outcome_unknown", "final_failed"} /\ AwaitsOutcome(r)
  <2>1. /\ refund[r].status \in NonTerminal
        /\ refund' = [refund EXCEPT ![r].status = completion, ![r].updatedAt = clock]
    BY <1>1, <1>5 DEF RefundCompletes, AwaitsOutcome, NonTerminal
  <2>2. completion \in {"outcome_unknown", "completed", "final_failed"}
        /\ completion # "completed"
    BY <1>5
  <2> QED BY <1>1, <1>3, <1>4, <2>1, <2>2, RefundSettles
<1>6. CASE ~(completion \in {"outcome_unknown", "final_failed"} /\ AwaitsOutcome(r))
  <2>1. UNCHANGED refund
    BY <1>1, <1>6 DEF RefundCompletes
  <2>2. TypeOK'
    BY <1>1, <1>3, <1>4, <2>1 DEF RowInv, TypeOK
  <2>3. AnswersAreTrue'
    BY <1>1 DEF RowInv, AnswersAreTrue
  <2>4. RowInv'
    BY <1>1, <1>3, <1>4, <2>1, <2>2, <2>3, RowsKept DEF RowInv
  <2> QED BY <1>1, <2>1, <2>4, SumsKept DEF IInv
<1> QED BY <1>5, <1>6

\* An answer about a refund that counts and settles books it.
LEMMA SettlesRefundInv ==
    ASSUME NEW q \in queries, q.target \in Refunds, AnswerCounts(q), Settles(q), Apply(q)
    PROVE  IInv => IInv'
<1> SUFFICES ASSUME RowInv, SumInv PROVE IInv'
  BY DEF IInv
<1> DEFINE r == q.target
<1>1. UNCHANGED <<clock, split, effect, trade, moneyBack, receipts, discarded, payment>>
  BY RefundAssumption DEF Apply, Settles
<1>2. /\ receipts \in SUBSET Targets
      /\ effect \in [Targets -> EffectStates] /\ q.at \in Nat
      /\ q.outcome \in {"pending", "success", "closed"}
  BY DEF RowInv, TypeOK, Answers
<1>3. jobs' \in SUBSET Targets /\ queries' \in SUBSET queries
  BY DEF RowInv, TypeOK, Apply
<1>4. CASE q.outcome = "success"
  <2>1. /\ refund[r].status \in NonTerminal
        /\ refund' = [refund EXCEPT ![r].status = "completed", ![r].updatedAt = q.at]
        /\ SettleRefund(refund[r].amount, q.at)
    BY <1>4, RefundAssumption DEF Settles, Complete
  <2>2. moneyBack[r].state = "success"
    BY <1>4 DEF RowInv, AnswersAreTrue
  <2> QED BY <1>1, <1>2, <1>3, <2>1, <2>2, RefundSettles
<1>5. CASE q.outcome = "closed"
  <2>1. /\ refund[r].status \in NonTerminal /\ UNCHANGED order
        /\ refund' = [refund EXCEPT ![r].status = "final_failed", ![r].updatedAt = q.at]
    BY <1>5, RefundAssumption DEF Settles, Complete
  <2> QED BY <1>1, <1>2, <1>3, <2>1, RefundSettles
<1> QED BY <1>2, <1>4, <1>5 DEF AnswerCounts

\* Whatever an answer says, applying it keeps the invariant.
LEMMA ApplyInv == ASSUME NEW q \in queries PROVE IInv /\ Apply(q) => IInv'
<1> SUFFICES ASSUME RowInv, SumInv, Apply(q) PROVE IInv'
  BY DEF IInv
<1>1. q.target \in Targets
  BY DEF RowInv, TypeOK, Answers
<1>2. CASE AnswerCounts(q)
  <2>1. Settles(q)
    BY <1>2 DEF Apply
  <2> QED BY <1>1, <1>2, <2>1, SettlesPaymentInv, SettlesRefundInv DEF Targets, IInv
<1>3. CASE ~AnswerCounts(q)
  <2>1. /\ UNCHANGED <<clock, split, effect, trade, moneyBack, receipts, discarded, payment,
                     order, refund>>
        /\ queries' = queries \ {q} /\ jobs' \in SUBSET jobs
    BY <1>3 DEF Apply
  <2>2. TypeOK' /\ clock \in Nat
    BY <2>1 DEF RowInv, TypeOK
  <2>3. AnswersAreTrue'
    BY <2>1 DEF RowInv, AnswersAreTrue
  <2>4. RowInv'
    BY <2>1, <2>2, <2>3, RowsKept DEF RowInv
  <2> QED BY <2>1, <2>4, SumsKept DEF IInv
<1> QED BY <1>2, <1>3

\* River gives a job up.
LEMMA DiscardJobInv == ASSUME NEW x \in Targets PROVE IInv /\ DiscardJob(x) => IInv'
<1> SUFFICES ASSUME RowInv, SumInv, DiscardJob(x) PROVE IInv'
  BY DEF IInv
<1>1. AnswersAreTrue'
  BY DEF RowInv, AnswersAreTrue, DiscardJob
<1>2. TypeOK' /\ clock \in Nat
  BY DEF RowInv, DiscardJob, TypeOK
<1>3. RowInv'
  BY <1>1, <1>2, RowsKept DEF RowInv, DiscardJob
<1>4. SumInv'
  BY SumsKept DEF DiscardJob
<1> QED BY <1>3, <1>4 DEF IInv

-----------------------------------------------------------------------------
(* The invariants                                                            *)

\* So does a step that changes nothing.
LEMMA StutterInv == IInv /\ UNCHANGED vars => IInv'
<1> SUFFICES ASSUME RowInv, SumInv, UNCHANGED vars PROVE IInv'
  BY DEF IInv
<1>1. UNCHANGED <<clock, payment, order, refund, split, effect, trade, moneyBack, receipts,
                  jobs, discarded, queries>>
  BY DEF vars
<1>2. TypeOK' /\ clock \in Nat
  BY <1>1 DEF RowInv, TypeOK
<1>3. AnswersAreTrue'
  BY <1>1 DEF RowInv, AnswersAreTrue
<1>4. RowInv'
  BY <1>1, <1>2, <1>3, RowsKept DEF RowInv
<1> QED BY <1>1, <1>4, SumsKept DEF IInv

\* The invariant is inductive.
LEMMA NextInv == IInv /\ [Next]_vars => IInv'
<1> SUFFICES ASSUME IInv, [Next]_vars PROVE IInv'
  OBVIOUS
<1>1. CASE UNCHANGED vars
  BY <1>1, StutterInv
<1>2. CASE Create
  BY <1>2, CreateInv
<1>3. CASE \E r \in Refunds, amount \in 1 .. Amount : RequestRefund(r, amount)
  BY <1>3, RequestRefundInv
<1>4. CASE \E amount \in 1 .. Amount : ReserveSplit(amount)
  BY <1>4, ReserveSplitInv
<1>5. CASE ReleaseSplit
  BY <1>5, ReleaseSplitInv
<1>6. CASE \E x \in Targets : Perform(x)
  BY <1>6, PerformInv
<1>7. CASE \E at \in ProviderTimes : BuyerPays(at)
  BY <1>7, BuyerPaysInv
<1>8. CASE TradeCloses
  BY <1>8, TradeClosesInv
<1>9. CASE \E r \in Refunds : RefundEnds(r)
  BY <1>9, RefundEndsInv
<1>10. CASE \E x \in Targets : Attempt(x)
  BY <1>10, AttemptInv
<1>11. CASE \E x \in Targets, completion \in Completions : CompleteEffect(x, completion)
  BY <1>11, PrepayCompletesInv, RefundCompletesInv DEF Targets
<1>12. CASE \E x \in Targets : EffectMoves(x)
  BY <1>12, EffectMovesInv
<1>13. CASE PaymentCallback
  BY <1>13, PaymentCallbackInv
<1>14. CASE \E r \in Refunds : RefundCallback(r)
  BY <1>14, RefundCallbackInv
<1>15. CASE \E x \in Targets : Ask(x)
  BY <1>15, AskInv
<1>16. CASE \E q \in queries : Forget(q)
  BY <1>16, ForgetInv
<1>17. CASE \E q \in queries : Apply(q)
  BY <1>17, ApplyInv
<1>18. CASE Tick
  BY <1>18, TickInv
<1>19. CASE \E x \in Targets : DiscardJob(x)
  BY <1>19, DiscardJobInv
<1> QED BY <1>1, <1>2, <1>3, <1>4, <1>5, <1>6, <1>7, <1>8, <1>9, <1>10, <1>11, <1>12, <1>13,
           <1>14, <1>15, <1>16, <1>17, <1>18, <1>19 DEF Next

\* Every reachable state of the checkout satisfies the inductive invariant.
THEOREM CheckoutInvariant == Spec => []IInv
<1>1. Init => IInv
  BY InitRows, InitSums DEF IInv
<1> QED BY <1>1, NextInv, PTL DEF Spec

\* Payment, Order and the refunds agree with each other and with the Provider in
\* every committed state, for any price and any set of refunds, although a
\* completion, a notice and an answer may each bring the news, late and twice.
THEOREM BooksAreAlwaysTrue == Spec => []BooksAreTrue
<1>1. IInv => BooksAreTrue
  BY DEF IInv, RowInv, SumInv, BooksAreTrue
<1> QED BY <1>1, CheckoutInvariant, PTL

\* The invariant leaves nothing but its time to refuse money that moved.
LEMMA InvIsBookable == IInv => MovedIsBookable
<1> SUFFICES ASSUME RowInv, SumInv PROVE MovedIsBookable
  BY DEF IInv
<1>1. TypeOK /\ IsFiniteSet(Requested) /\ OneUnderWay
  BY DEF RowInv, SumInv
<1>2. ReceivedIsBookable
  <2> SUFFICES ASSUME trade.state = "paid", payment.status # "paid"
               PROVE  /\ payment.status = "awaiting_payment"
                      /\ order.status = "pending_payment"
                      /\ order.updatedAt <= payment.updatedAt
                      /\ "payment" \notin receipts
    BY DEF ReceivedIsBookable
  <2>1. payment.status \in PaymentStatuses
    BY <1>1 DEF TypeOK, PaymentRows
  <2>2. payment.status = "awaiting_payment"
    BY <2>1 DEF RowInv, CredentialIsIssued, MoneyIsReal, PaymentStatuses
  <2>3. order.status = "pending_payment" /\ order.updatedAt <= payment.updatedAt
    BY <2>2 DEF RowInv, BooksAgree, RowsInTime, Unsettled
  <2>4. "payment" \notin receipts
    BY DEF RowInv, ReceiptsAreBooked
  <2> QED BY <2>2, <2>3, <2>4
<1>3. RefundHasRoom
  <2> SUFFICES ASSUME NEW r \in Refunds, refund[r].status \in NonTerminal
               PROVE  /\ order.status \in {"paid", "partially_refunded"}
                      /\ order.refunded + refund[r].amount <= Amount
                      /\ r \notin receipts
    BY DEF RefundHasRoom
  <2>1. /\ payment.status = "paid" /\ refund[r].amount > 0
        /\ refund[r].amount \in Nat /\ r \notin receipts
    BY <1>1, AmountAssumption DEF RowInv, RefundsAreBacked, RefundIsBacked, NonTerminal,
       ReceiptsAreBooked, TypeOK, RefundRows
  <2>2. ReservedRefundMinor = SumOf({"completed"}) + refund[r].amount
    BY <1>1, ReserveIsBookedAndOpen
  <2>3. /\ SumOf({"completed"}) \in Nat /\ order.refunded = SumOf({"completed"})
        /\ split \in Nat /\ Amount \in Nat
    BY <1>1, SumsAreNat, AmountAssumption DEF SumInv, RefundsAddUp, TypeOK
  <2>4. order.refunded + refund[r].amount <= Amount
    BY <2>1, <2>2, <2>3 DEF SumInv, ReserveFits
  <2>5. order.refunded # Amount
    BY <2>1, <2>3, <2>4
  <2>6. order.status \in {"paid", "partially_refunded"}
    BY <2>1, <2>5 DEF RowInv, BooksAgree, Unsettled, SumInv, RefundsAddUp
  <2> QED BY <2>1, <2>4, <2>6
<1> QED BY <1>2, <1>3 DEF MovedIsBookable

\* Nothing in the books stands in the way of money that has moved but its time:
\* payment and order wait for the money the buyer paid, no receipt has used up its
\* notice, and a refund under way has its room in the order, whatever was refunded,
\* reserved or split before and whatever clock the Provider goes by.
THEOREM MovedIsAlwaysBookable == Spec => []MovedIsBookable
BY InvIsBookable, CheckoutInvariant, PTL

-----------------------------------------------------------------------------
(* A refund that failed finally                                              *)

\* A refund fails finally because the Provider closed it or because its answer to
\* the call was outside 2xx.
FailureHasCause ==
    \A r \in Refunds :
        refund[r].status = "final_failed" =>
            moneyBack[r].state = "closed" \/ effect[r] = "final_failed"

\* No step makes a refund fail in another way or takes its cause back.
LEMMA FailureHasCauseInv ==
    ASSUME RowInv, FailureHasCause, [Next]_vars
    PROVE  FailureHasCause'
<1> DEFINE Safe(r) == refund[r].status = "final_failed" =>
                         moneyBack[r].state = "closed" \/ effect[r] = "final_failed"
<1> SUFFICES ASSUME NEW r \in Refunds PROVE Safe(r)'
  BY DEF FailureHasCause
<1>1. /\ Safe(r) /\ r # "payment" /\ r \in Targets
      /\ moneyBack \in [Refunds -> Returns] /\ refund \in [Refunds -> RefundRows]
      /\ effect \in [Targets -> EffectStates] /\ TypeOK
      /\ refund[r] \in RefundRows /\ moneyBack[r] \in Returns
  BY RefundAssumption DEF RowInv, FailureHasCause, TypeOK, Targets
<1>2. ASSUME UNCHANGED <<refund, moneyBack>>,
             effect[r] = "final_failed" => effect'[r] = "final_failed"
      PROVE  Safe(r)'
  BY <1>1, <1>2
<1>3. ASSUME UNCHANGED <<moneyBack, effect>>,
             refund'[r].status = "final_failed" =>
                 refund[r].status = "final_failed" \/ moneyBack[r].state = "closed"
      PROVE  Safe(r)'
  BY <1>1, <1>3
<1>4. ASSUME UNCHANGED <<refund, effect>>,
             moneyBack[r].state = "closed" => moneyBack'[r].state = "closed"
      PROVE  Safe(r)'
  BY <1>1, <1>4
<1>5. CASE UNCHANGED vars \/ ReleaseSplit \/ TradeCloses \/ PaymentCallback \/ Tick
  BY <1>2, <1>5 DEF vars, ReleaseSplit, TradeCloses, PaymentCallback, Tick
<1>6. CASE \E amount \in 1 .. Amount : ReserveSplit(amount)
  BY <1>2, <1>6 DEF ReserveSplit
<1>7. CASE \/ \E x \in Targets : Ask(x) \/ DiscardJob(x)
           \/ \E at \in ProviderTimes : BuyerPays(at)
           \/ \E q \in queries : Forget(q)
  BY <1>2, <1>7 DEF Ask, DiscardJob, BuyerPays, Forget
<1>8. CASE Create
  BY <1>1, <1>2, <1>8 DEF Create
<1>9. CASE \E x \in Targets : Attempt(x) \/ EffectMoves(x)
  BY <1>1, <1>2, <1>9 DEF Attempt, EffectMoves
<1>10. CASE \E s \in Refunds, amount \in 1 .. Amount : RequestRefund(s, amount)
  <2>1. PICK s \in Refunds, amount \in 1 .. Amount : RequestRefund(s, amount)
    BY <1>10
  <2>2. CASE s = r
    <3>1. refund'[r].status = "effect_accepted"
      BY <1>1, <2>1, <2>2 DEF RequestRefund
    <3> QED BY <3>1
  <2>3. CASE s # r
    BY <1>1, <2>1, <2>3 DEF RequestRefund
  <2> QED BY <2>2, <2>3
<1>11. CASE \E x \in Targets : Perform(x)
  <2>1. PICK x \in Targets : Perform(x)
    BY <1>11
  <2>2. CASE x = r
    <3>1. moneyBack[r].state = "none" /\ UNCHANGED <<refund, effect>>
      BY <1>1, <2>1, <2>2 DEF Perform, Performed
    <3> QED BY <1>1, <1>4, <3>1
  <2>3. CASE x # r
    BY <1>1, <1>4, <2>1, <2>3 DEF Perform
  <2> QED BY <2>2, <2>3
<1>12. CASE \E s \in Refunds : RefundEnds(s)
  <2>1. PICK s \in Refunds : RefundEnds(s)
    BY <1>12
  <2>2. moneyBack[r].state = "closed" => moneyBack'[r] = moneyBack[r]
    BY <1>1, <2>1 DEF RefundEnds
  <2> QED BY <1>4, <2>1, <2>2 DEF RefundEnds
<1>13. CASE \E s \in Refunds : RefundCallback(s)
  <2>1. PICK s \in Refunds : RefundCallback(s)
    BY <1>13
  <2>2. refund'[r].status = "final_failed" => refund[r].status = "final_failed"
    BY <1>1, <2>1 DEF RefundCallback, Complete
  <2> QED BY <1>3, <2>1, <2>2 DEF RefundCallback
<1>14. CASE \E x \in Targets, completion \in Completions : CompleteEffect(x, completion)
  <2>1. PICK x \in Targets, completion \in Completions : CompleteEffect(x, completion)
    BY <1>14
  <2>2. /\ effect[x] = "attempted" /\ Answered(x, completion)
        /\ effect' = [effect EXCEPT ![x] = completion] /\ UNCHANGED moneyBack
    BY <2>1 DEF CompleteEffect
  <2>3. CASE x = "payment"
    <3>1. UNCHANGED refund
      BY <2>1, <2>3 DEF CompleteEffect
    <3> QED BY <1>1, <1>2, <2>2, <2>3, <3>1
  <2>4. CASE x \in Refunds /\ x # r
    <3>1. refund'[r] = refund[r]
      BY <1>1, <2>1, <2>4, RefundAssumption DEF CompleteEffect, RefundCompletes
    <3>2. effect'[r] = effect[r]
      BY <1>1, <2>2, <2>4
    <3> QED BY <1>1, <2>2, <3>1, <3>2
  <2>5. CASE x = r
    <3>1. effect'[r] = completion
      BY <1>1, <2>2, <2>5
    <3>2. refund'[r].status = "final_failed" =>
             refund[r].status = "final_failed" \/ completion = "final_failed"
      <4>1. RefundCompletes(r, completion)
        BY <1>1, <2>1, <2>5 DEF CompleteEffect
      <4>2. clock \in Nat
        BY <1>1 DEF TypeOK
      <4>3. CASE completion \in {"outcome_unknown", "final_failed"} /\ AwaitsOutcome(r)
        <5>1. refund' = [refund EXCEPT ![r].status = completion, ![r].updatedAt = clock]
          BY <4>1, <4>3 DEF RefundCompletes
        <5>2. completion \in RefundStatuses
          BY <4>3 DEF RefundStatuses
        <5>3. refund'[r].status = completion
          BY <1>1, <4>2, <5>1, <5>2, RefundMoves
        <5> QED BY <5>3
      <4>4. CASE ~(completion \in {"outcome_unknown", "final_failed"} /\ AwaitsOutcome(r))
        BY <4>1, <4>4 DEF RefundCompletes
      <4> QED BY <4>3, <4>4
    <3>3. refund[r].status = "final_failed" => moneyBack[r].state = "closed"
      BY <1>1, <2>2, <2>5
    <3> QED BY <2>2, <3>1, <3>2, <3>3
  <2> QED BY <2>3, <2>4, <2>5 DEF Targets
<1>15. CASE \E q \in queries : Apply(q)
  <2>1. PICK q \in queries : Apply(q)
    BY <1>15
  <2>2. UNCHANGED <<moneyBack, effect>>
    BY <2>1 DEF Apply
  <2>3. CASE AnswerCounts(q) /\ q.target = r
    <3>1. refund'[r].status = "final_failed" => q.outcome # "success"
      <4> SUFFICES ASSUME q.outcome = "success" PROVE refund'[r].status = "completed"
        OBVIOUS
      <4>1. refund' = [refund EXCEPT ![r].status = "completed", ![r].updatedAt = q.at]
        BY <1>1, <2>1, <2>3 DEF Apply, Settles, Complete
      <4>2. q.at \in Nat /\ "completed" \in RefundStatuses
        BY <1>1 DEF TypeOK, Answers, RefundStatuses
      <4> QED BY <1>1, <4>1, <4>2, RefundMoves
    <3>2. q.outcome \in {"pending", "success", "closed"}
      BY <1>1 DEF TypeOK, Answers
    <3>3. q.outcome = "closed" => moneyBack[r].state = "closed"
      BY <2>3 DEF RowInv, AnswersAreTrue
    <3> QED BY <1>3, <2>2, <2>3, <3>1, <3>2, <3>3 DEF AnswerCounts
  <2>4. CASE ~(AnswerCounts(q) /\ q.target = r)
    <3>1. refund'[r] = refund[r]
      BY <1>1, <2>1, <2>4 DEF Apply, Settles, Complete
    <3> QED BY <1>3, <2>2, <3>1
  <2> QED BY <2>3, <2>4
<1> QED BY <1>5, <1>6, <1>7, <1>8, <1>9, <1>10, <1>11, <1>12, <1>13, <1>14, <1>15 DEF Next

\* Refunds and profit sharing draw on one payment and never commit more than was
\* paid, and whatever the Provider returned or may still return is reserved, but
\* for a refund that an answer outside 2xx ended although it was performed.
THEOREM NothingIsOvercommitted == Spec => []NeverOvercommitted
<1>1. Init => FailureHasCause
  BY DEF Init, FailureHasCause
<1>2. IInv /\ FailureHasCause /\ [Next]_vars => FailureHasCause'
  BY FailureHasCauseInv DEF IInv
<1>3. IInv /\ FailureHasCause => NeverOvercommitted
  <2> SUFFICES ASSUME RowInv, SumInv, FailureHasCause PROVE NeverOvercommitted
    BY DEF IInv
  <2>1. ASSUME NEW r \in Refunds, moneyBack[r].state \in {"processing", "success"}
        PROVE  refund[r].status \in NonTerminal \cup {"completed"} \/ FailedByAnswer(r)
    <3>1. refund[r].status # "absent"
      BY <2>1 DEF RowInv, RefundsAreBacked, RefundIsBacked
    <3>2. refund[r].status = "final_failed" => FailedByAnswer(r)
      BY <2>1 DEF FailureHasCause, FailedByAnswer
    <3>3. refund[r].status \in RefundStatuses
      BY DEF RowInv, TypeOK, RefundRows
    <3> QED BY <3>1, <3>2, <3>3 DEF RefundStatuses, NonTerminal
  <2> QED BY <2>1 DEF SumInv, ReserveFits, NeverOvercommitted
<1> QED BY <1>1, <1>2, <1>3, CheckoutInvariant, PTL DEF Spec

-----------------------------------------------------------------------------
(* Nothing settled changes                                                   *)

\* The refund a step may change is one that is asked for or one under way.
LEMMA SettledRefundStays ==
    ASSUME TypeOK, Next, NEW r \in Refunds,
           refund[r].status \in {"completed", "final_failed"}
    PROVE  refund'[r] = refund[r]
<1>1. r # "payment" /\ refund \in [Refunds -> RefundRows]
  BY RefundAssumption DEF TypeOK
<1>2. CASE \E s \in Refunds, amount \in 1 .. Amount : RequestRefund(s, amount)
  BY <1>1, <1>2 DEF RequestRefund
<1>3. CASE \E s \in Refunds : RefundCallback(s)
  BY <1>1, <1>3 DEF RefundCallback, Complete, NonTerminal
<1>4. CASE \E x \in Targets, completion \in Completions : CompleteEffect(x, completion)
  <2>1. PICK x \in Targets, completion \in Completions : CompleteEffect(x, completion)
    BY <1>4
  <2>2. CASE x = "payment"
    BY <2>1, <2>2 DEF CompleteEffect
  <2>3. CASE x # "payment" /\ x # r
    BY <1>1, <2>1, <2>3 DEF CompleteEffect, RefundCompletes
  <2>4. CASE x = r
    BY <1>1, <2>1, <2>4 DEF CompleteEffect, RefundCompletes, AwaitsOutcome
  <2> QED BY <2>2, <2>3, <2>4
<1>5. CASE \E q \in queries : Apply(q)
  <2>1. PICK q \in queries : Apply(q)
    BY <1>5
  <2>2. CASE q.target = r
    BY <1>1, <2>1, <2>2 DEF Apply, Settles, Complete, NonTerminal
  <2>3. CASE q.target # r
    BY <1>1, <2>1, <2>3 DEF Apply, Settles, Complete
  <2> QED BY <2>2, <2>3
<1>6. CASE Create \/ ReleaseSplit \/ TradeCloses \/ PaymentCallback \/ Tick
  BY <1>6 DEF Create, ReleaseSplit, TradeCloses, PaymentCallback, Tick
<1>7. CASE \/ \E amount \in 1 .. Amount : ReserveSplit(amount)
           \/ \E at \in ProviderTimes : BuyerPays(at)
  BY <1>7 DEF ReserveSplit, BuyerPays
<1>8. CASE \E x \in Targets : Perform(x) \/ Attempt(x) \/ EffectMoves(x) \/ Ask(x) \/ DiscardJob(x)
  BY <1>8 DEF Perform, Attempt, EffectMoves, Ask, DiscardJob
<1>9. CASE (\E s \in Refunds : RefundEnds(s)) \/ \E q \in queries : Forget(q)
  BY <1>9 DEF RefundEnds, Forget
<1> QED BY <1>2, <1>3, <1>4, <1>5, <1>6, <1>7, <1>8, <1>9 DEF Next

\* No step changes a payment that is paid or failed.
LEMMA SettledPaymentStays ==
    ASSUME Next, payment.status \in {"paid", "failed"}
    PROVE  payment' = payment
<1>1. CASE Create
  BY <1>1 DEF Create
<1>2. CASE PaymentCallback
  BY <1>2 DEF PaymentCallback, SettlePaid, Settle, Unsettled
<1>3. CASE \E x \in Targets, completion \in Completions : CompleteEffect(x, completion)
  BY <1>3 DEF CompleteEffect, PrepayCompletes, PrepayPending
<1>4. CASE \E q \in queries : Apply(q)
  BY <1>4 DEF Apply, Settles, SettlePaid, Settle, Unsettled
<1>5. CASE ReleaseSplit \/ TradeCloses \/ Tick
  BY <1>5 DEF ReleaseSplit, TradeCloses, Tick
<1>6. CASE \/ \E amount \in 1 .. Amount : ReserveSplit(amount)
           \/ \E at \in ProviderTimes : BuyerPays(at)
  BY <1>6 DEF ReserveSplit, BuyerPays
<1>7. CASE \E x \in Targets : Perform(x) \/ Attempt(x) \/ EffectMoves(x) \/ Ask(x) \/ DiscardJob(x)
  BY <1>7 DEF Perform, Attempt, EffectMoves, Ask, DiscardJob
<1>8. CASE \/ \E s \in Refunds : RefundEnds(s) \/ RefundCallback(s)
           \/ \E s \in Refunds, amount \in 1 .. Amount : RequestRefund(s, amount)
           \/ \E q \in queries : Forget(q)
  BY <1>8 DEF RefundEnds, RefundCallback, RequestRefund, Forget
<1> QED BY <1>1, <1>2, <1>3, <1>4, <1>5, <1>6, <1>7, <1>8 DEF Next

\* A payment or a refund that is settled keeps its status, its amount and its
\* time: no late completion, repeated notice or stale answer touches it.
THEOREM SettlementIsFinal == Spec => SettledIsFinal
<1> DEFINE Keeps == /\ payment.status \in {"paid", "failed"} => payment' = payment
                    /\ \A r \in Refunds :
                          refund[r].status \in {"completed", "final_failed"} =>
                              refund'[r] = refund[r]
<1>1. IInv /\ [Next]_vars => [Keeps]_vars
  BY SettledRefundStays, SettledPaymentStays DEF IInv, RowInv
<1>2. Spec => [][Keeps]_vars
  <2> HIDE DEF Keeps
  <2> QED BY <1>1, CheckoutInvariant, PTL DEF Spec
<1> QED BY <1>2 DEF SettledIsFinal

-----------------------------------------------------------------------------
(* The checkout implements MoneyLedger                                       *)

Returned == {r \in Refunds : moneyBack[r].state = "success"}
Booked == {r \in Refunds : refund[r].status = "completed"}
Worth == [r \in Refunds |-> refund[r].amount]

LedgerView == <<trade.state = "paid", Returned, order.status, order.refunded, Booked, Worth>>

\* The refinement mapping is the ledger's view of the tables.
LEMMA ViewIsMapping == Ledger!lvars = LedgerView /\ Ledger!lvars' = LedgerView'
BY DEF Ledger!lvars, LedgerView, Returned, Booked, Worth

\* The ledger's amounts stay when no row's amount changes.
LEMMA WorthStays ==
    ASSUME \A s \in Refunds : refund'[s].amount = refund[s].amount
    PROVE  Worth' = Worth
BY DEF Worth

\* A row's amount is set for that row alone.
LEMMA WorthIsSet ==
    ASSUME NEW r \in Refunds, \A s \in Refunds : s # r => refund'[s] = refund[s]
    PROVE  Worth' = [Worth EXCEPT ![r] = refund'[r].amount]
<1>1. \A s \in Refunds : Worth'[s] = [Worth EXCEPT ![r] = refund'[r].amount][s]
  BY DEF Worth
<1>2. Worth' = [s \in Refunds |-> Worth'[s]]
  BY DEF Worth
<1> QED BY <1>1, <1>2 DEF Worth

\* Steps that the ledger does not see.
LEMMA LedgerStutters ==
    ASSUME UNCHANGED <<order, refund, moneyBack>>,
           (trade'.state = "paid") = (trade.state = "paid")
    PROVE  UNCHANGED Ledger!lvars
<1>1. UNCHANGED LedgerView
  BY DEF LedgerView, Returned, Booked, Worth
<1> QED BY <1>1, ViewIsMapping

\* The three ways to settle a payment are one step of the ledger.
LEMMA PaymentIsBooked ==
    ASSUME UNCHANGED <<refund, moneyBack, trade>>, order.status = "pending_payment",
           order'.status = IF trade.state = "paid" THEN "paid" ELSE "payment_failed",
           order'.refunded = order.refunded
    PROVE  Ledger!LNext
<1>1. Ledger!BookPayment
  BY DEF Ledger!BookPayment
<1> QED BY <1>1 DEF Ledger!LNext

\* So are the three ways to book a refund; one that moves on or fails is none.
LEMMA RefundIsBookedOnce ==
    ASSUME TypeOK, NEW r \in Refunds, refund[r].status \in NonTerminal,
           NEW next \in {"outcome_unknown", "completed", "final_failed"}, NEW at \in Nat,
           refund' = [refund EXCEPT ![r].status = next, ![r].updatedAt = at],
           UNCHANGED <<trade, moneyBack>>,
           next = "completed" =>
               moneyBack[r].state = "success" /\ SettleRefund(refund[r].amount, at),
           next # "completed" => UNCHANGED order
    PROVE  [Ledger!LNext]_(Ledger!lvars)
<1>1. next \in RefundStatuses
  BY DEF RefundStatuses
<1>2. /\ refund'[r].status = next
      /\ refund'[r].amount = refund[r].amount
      /\ \A s \in Refunds : s # r => refund'[s] = refund[s]
  BY <1>1, RefundMoves
<1>3. Worth' = Worth /\ Returned' = Returned
  <2>1. \A s \in Refunds : refund'[s].amount = refund[s].amount
    BY <1>2
  <2> QED BY <2>1, WorthStays DEF Returned
<1>4. CASE next = "completed"
  <2>1. /\ order.refunded + refund[r].amount <= Amount
        /\ order'.refunded = order.refunded + refund[r].amount
        /\ order'.status = IF order'.refunded = Amount
                           THEN "refunded" ELSE "partially_refunded"
    BY <1>4 DEF SettleRefund, RefundAdmitted, RefundBooked
  <2>2. Booked' = Booked \cup {r} /\ r \in Returned \ Booked
    BY <1>2, <1>4 DEF Booked, Returned, NonTerminal
  <2>3. Worth[r] = refund[r].amount
    BY DEF Worth
  <2>4. Ledger!BookReturn(r)
    BY <1>3, <2>1, <2>2, <2>3 DEF Ledger!BookReturn, Booked, Returned, Worth
  <2> QED BY <2>4 DEF Ledger!LNext
<1>5. CASE next # "completed"
  <2>1. Booked' = Booked
    BY <1>2, <1>5 DEF Booked, NonTerminal
  <2>2. UNCHANGED LedgerView
    BY <1>3, <1>5, <2>1 DEF LedgerView
  <2> QED BY <2>2, ViewIsMapping
<1> QED BY <1>4, <1>5

\* The first state is the ledger's first state.
LEMMA LedgerInit == Init => Ledger!LInit
<1> SUFFICES ASSUME Init PROVE Ledger!LInit
  OBVIOUS
<1>1. /\ trade.state = "none" /\ order.status = "absent" /\ order.refunded = 0
      /\ Returned = {} /\ Booked = {}
      /\ Worth = [r \in Refunds |-> 0]
  BY DEF Init, Returned, Booked, Worth
<1> QED BY <1>1 DEF Ledger!LInit, Returned, Booked, Worth

\* Every step of the checkout is a step of the ledger or leaves it alone.
LEMMA LedgerStep == IInv /\ [Next]_vars => [Ledger!LNext]_(Ledger!lvars)
<1> SUFFICES ASSUME RowInv, SumInv, [Next]_vars PROVE [Ledger!LNext]_(Ledger!lvars)
  BY DEF IInv
<1>1. /\ TypeOK /\ refund \in [Refunds -> RefundRows] /\ order \in OrderRows
      /\ trade \in Trades /\ moneyBack \in [Refunds -> Returns]
  BY DEF RowInv, TypeOK
<1>2. CASE UNCHANGED vars \/ ReleaseSplit \/ TradeCloses \/ Tick
  BY <1>1, <1>2, LedgerStutters DEF vars, ReleaseSplit, TradeCloses, Tick, Trades
<1>3. CASE \E amount \in 1 .. Amount : ReserveSplit(amount)
  BY <1>3, LedgerStutters DEF ReserveSplit
<1>4. CASE \E x \in Targets : Attempt(x) \/ EffectMoves(x) \/ Ask(x) \/ DiscardJob(x)
  BY <1>4, LedgerStutters DEF Attempt, EffectMoves, Ask, DiscardJob
<1>5. CASE \E q \in queries : Forget(q)
  BY <1>5, LedgerStutters DEF Forget
<1>6. CASE Create
  <2>1. /\ UNCHANGED <<refund, moneyBack, trade>> /\ order.status = "absent"
        /\ order'.status = "pending_payment" /\ order'.refunded = order.refunded
    BY <1>1, <1>6 DEF Create, RowInv, BooksAgree, Unsettled, OrderRows
  <2>2. Ledger!Open
    BY <2>1 DEF Ledger!Open
  <2> QED BY <2>2 DEF Ledger!LNext
<1>7. CASE \E r \in Refunds, amount \in 1 .. Amount : RequestRefund(r, amount)
  <2>1. PICK r \in Refunds, amount \in 1 .. Amount : RequestRefund(r, amount)
    BY <1>7
  <2>2. /\ refund[r].status = "absent" /\ payment.status = "paid"
        /\ refund' = [refund EXCEPT ![r] =
              [status |-> "effect_accepted", amount |-> amount, updatedAt |-> clock]]
        /\ UNCHANGED <<order, trade, moneyBack>>
    BY <2>1 DEF RequestRefund
  <2>3. /\ refund'[r].status = "effect_accepted" /\ refund'[r].amount = amount
        /\ \A s \in Refunds : s # r => refund'[s] = refund[s]
    BY <1>1, <2>2, RefundAppears
  <2>4. trade.state = "paid" /\ Worth[r] = 0
    BY <2>2 DEF RowInv, MoneyIsReal, RefundsAreBacked, RefundIsBacked, Worth
  <2>5. Booked' = Booked /\ Returned' = Returned /\ Worth' = [Worth EXCEPT ![r] = amount]
    <3>1. Booked' = Booked
      BY <2>2, <2>3 DEF Booked
    <3> QED BY <2>2, <2>3, <3>1, WorthIsSet DEF Returned
  <2>6. Ledger!AskFor(r, amount)
    BY <2>2, <2>4, <2>5 DEF Ledger!AskFor, Booked, Returned, Worth
  <2> QED BY <2>6 DEF Ledger!LNext
<1>8. CASE \E x \in Targets : Perform(x)
  <2>1. PICK x \in Targets : Perform(x)
    BY <1>8
  <2>2. UNCHANGED <<order, refund>>
    BY <2>1 DEF Perform
  <2>3. CASE x = "payment"
    BY <1>1, <2>1, <2>2, <2>3, LedgerStutters DEF Perform, Performed, Trades
  <2>4. CASE x # "payment"
    <3>1. Returned' = Returned /\ UNCHANGED trade
      BY <1>1, <2>1, <2>4 DEF Perform, Performed, Targets, Returned, Returns
    <3>2. UNCHANGED LedgerView
      BY <2>2, <3>1 DEF LedgerView, Booked, Worth
    <3> QED BY <3>2, ViewIsMapping
  <2> QED BY <2>3, <2>4
<1>9. CASE \E at \in ProviderTimes : BuyerPays(at)
  <2>1. /\ trade.state = "open" /\ payment.handoff /\ trade'.state = "paid"
        /\ UNCHANGED <<order, refund, moneyBack>>
    BY <1>9 DEF BuyerPays
  <2>2. order.status = "pending_payment"
    <3>1. payment.status \in PaymentStatuses
      BY <1>1 DEF TypeOK, PaymentRows
    <3> QED BY <2>1, <3>1 DEF RowInv, CredentialIsIssued, MoneyIsReal, BooksAgree, Unsettled,
            PaymentStatuses
  <2>3. Ledger!Receive
    BY <2>1, <2>2 DEF Ledger!Receive
  <2> QED BY <2>3 DEF Ledger!LNext
<1>10. CASE \E r \in Refunds : RefundEnds(r)
  <2>1. PICK r \in Refunds : RefundEnds(r)
    BY <1>10
  <2>2. /\ moneyBack[r].state = "processing" /\ UNCHANGED <<order, refund, trade>>
        /\ \A s \in Refunds : s # r => moneyBack'[s] = moneyBack[s]
        /\ moneyBack'[r].state \in {"success", "closed"}
    BY <1>1, <2>1 DEF RefundEnds, Returns
  <2>3. Booked' = Booked /\ Worth' = Worth
    BY <2>2 DEF Booked, Worth
  <2>4. CASE moneyBack'[r].state = "success"
    <3>1. r \notin Returned /\ Returned' = Returned \cup {r}
      BY <2>2, <2>4 DEF Returned
    <3>2. Worth[r] > 0
      BY <2>2 DEF RowInv, RefundsAreBacked, RefundIsBacked, Worth
    <3>3. Ledger!Return(r)
      BY <2>2, <2>3, <3>1, <3>2 DEF Ledger!Return, Booked, Returned, Worth
    <3> QED BY <3>3 DEF Ledger!LNext
  <2>5. CASE moneyBack'[r].state = "closed"
    <3>1. Returned' = Returned
      BY <2>2, <2>5 DEF Returned
    <3>2. UNCHANGED LedgerView
      BY <2>2, <2>3, <3>1 DEF LedgerView
    <3> QED BY <3>2, ViewIsMapping
  <2> QED BY <2>2, <2>4, <2>5
<1>11. CASE PaymentCallback
  <2>1. /\ UNCHANGED <<refund, moneyBack, trade>> /\ trade.state = "paid"
    BY <1>11 DEF PaymentCallback
  <2>2. CASE payment.status = "paid"
    BY <1>11, <2>1, <2>2, LedgerStutters DEF PaymentCallback
  <2>3. CASE payment.status # "paid"
    <3>1. /\ order.status = "pending_payment"
          /\ order' = [order EXCEPT !.status = "paid", !.updatedAt = trade.at]
      BY <1>11, <2>3 DEF PaymentCallback, SettlePaid, SettlePayment
    <3>2. order'.status = "paid" /\ order'.refunded = order.refunded
      BY <1>1, <3>1 DEF OrderRows
    <3> QED BY <2>1, <3>1, <3>2, PaymentIsBooked
  <2> QED BY <2>2, <2>3
<1>12. CASE \E r \in Refunds : RefundCallback(r)
  <2>1. PICK r \in Refunds : RefundCallback(r)
    BY <1>12
  <2>2. /\ UNCHANGED <<trade, moneyBack>> /\ moneyBack[r].state = "success"
        /\ refund[r].status \in NonTerminal
        /\ refund' = [refund EXCEPT ![r].status = "completed", ![r].updatedAt = moneyBack[r].at]
        /\ SettleRefund(refund[r].amount, moneyBack[r].at)
    BY <2>1 DEF RefundCallback, Complete
  <2>3. moneyBack[r].at \in Nat
    BY <1>1 DEF Returns
  <2> QED BY <1>1, <2>2, <2>3, RefundIsBookedOnce
<1>13. CASE \E x \in Targets, completion \in Completions : CompleteEffect(x, completion)
  <2>1. PICK x \in Targets, completion \in Completions : CompleteEffect(x, completion)
    BY <1>13
  <2>2. UNCHANGED <<trade, moneyBack>>
    BY <2>1 DEF CompleteEffect
  <2>3. CASE x = "payment"
    <3>1. UNCHANGED refund /\ PrepayCompletes(completion)
      BY <2>1, <2>3 DEF CompleteEffect
    <3>2. CASE completion # "final_failed"
      BY <2>2, <3>1, <3>2, LedgerStutters DEF PrepayCompletes
    <3>3. CASE completion = "final_failed"
      <4>1. /\ payment.status = "awaiting_prepay" /\ order.status = "pending_payment"
            /\ order' = [order EXCEPT !.status = "payment_failed", !.updatedAt = clock]
        BY <3>1, <3>3 DEF PrepayCompletes, PrepayPending, SettlePayment
      <4>2. order'.status = "payment_failed" /\ order'.refunded = order.refunded
        BY <1>1, <4>1 DEF OrderRows
      <4>3. trade.state # "paid"
        BY <4>1 DEF RowInv, CredentialIsIssued
      <4> QED BY <2>2, <3>1, <4>1, <4>2, <4>3, PaymentIsBooked
    <3> QED BY <3>2, <3>3
  <2>4. CASE x # "payment"
    <3>1. x \in Refunds /\ RefundCompletes(x, completion) /\ UNCHANGED order
      BY <2>1, <2>4 DEF CompleteEffect, Targets
    <3>2. CASE completion \in {"outcome_unknown", "final_failed"} /\ AwaitsOutcome(x)
      <4>1. /\ refund' = [refund EXCEPT ![x].status = completion, ![x].updatedAt = clock]
            /\ refund[x].status \in NonTerminal /\ clock \in Nat
        BY <1>1, <3>1, <3>2 DEF RefundCompletes, AwaitsOutcome, NonTerminal, TypeOK
      <4>2. completion \in {"outcome_unknown", "completed", "final_failed"}
            /\ completion # "completed"
        BY <3>2
      <4> QED BY <1>1, <2>2, <3>1, <4>1, <4>2, RefundIsBookedOnce
    <3>3. CASE ~(completion \in {"outcome_unknown", "final_failed"} /\ AwaitsOutcome(x))
      BY <2>2, <3>1, <3>3, LedgerStutters DEF RefundCompletes
    <3> QED BY <3>2, <3>3
  <2> QED BY <2>3, <2>4
<1>14. CASE \E q \in queries : Apply(q)
  <2>1. PICK q \in queries : Apply(q)
    BY <1>14
  <2>2. UNCHANGED <<trade, moneyBack>>
    BY <2>1 DEF Apply
  <2>3. q.target \in Targets /\ q.at \in Nat /\ q.outcome \in {"pending", "success", "closed"}
    BY <1>1 DEF TypeOK, Answers
  <2>4. CASE ~AnswerCounts(q)
    BY <2>1, <2>2, <2>4, LedgerStutters DEF Apply
  <2>5. CASE AnswerCounts(q) /\ q.target = "payment"
    <3>1. Settles(q) /\ q.outcome \in {"success", "closed"}
      BY <2>1, <2>3, <2>5 DEF Apply, AnswerCounts
    <3>2. /\ UNCHANGED refund /\ order.status = "pending_payment"
          /\ order' = [order EXCEPT !.status = IF q.outcome = "success" THEN "paid"
                                               ELSE "payment_failed",
                                    !.updatedAt = q.at]
      BY <2>5, <3>1 DEF Settles, SettlePaid, SettlePayment
    <3>3. /\ order'.status = IF q.outcome = "success" THEN "paid" ELSE "payment_failed"
          /\ order'.refunded = order.refunded
      BY <1>1, <3>2 DEF OrderRows
    <3>4. q.outcome = "success" <=> trade.state = "paid"
      BY <2>5, <3>1 DEF RowInv, AnswersAreTrue
    <3> QED BY <2>2, <3>2, <3>3, <3>4, PaymentIsBooked
  <2>6. CASE AnswerCounts(q) /\ q.target \in Refunds
    <3> DEFINE r == q.target
    <3>1. Settles(q) /\ q.outcome \in {"success", "closed"} /\ r # "payment"
      BY <2>1, <2>3, <2>6, RefundAssumption DEF Apply, AnswerCounts
    <3>2. CASE q.outcome = "success"
      <4>1. /\ refund[r].status \in NonTerminal
            /\ refund' = [refund EXCEPT ![r].status = "completed", ![r].updatedAt = q.at]
            /\ SettleRefund(refund[r].amount, q.at)
        BY <3>1, <3>2 DEF Settles, Complete
      <4>2. moneyBack[r].state = "success"
        BY <2>6, <3>2 DEF RowInv, AnswersAreTrue
      <4> QED BY <1>1, <2>2, <2>3, <2>6, <4>1, <4>2, RefundIsBookedOnce
    <3>3. CASE q.outcome = "closed"
      <4>1. /\ refund[r].status \in NonTerminal /\ UNCHANGED order
            /\ refund' = [refund EXCEPT ![r].status = "final_failed", ![r].updatedAt = q.at]
        BY <3>1, <3>3 DEF Settles, Complete
      <4> QED BY <1>1, <2>2, <2>3, <2>6, <4>1, RefundIsBookedOnce
    <3> QED BY <3>1, <3>2, <3>3
  <2> QED BY <2>3, <2>4, <2>5, <2>6 DEF Targets
<1> QED BY <1>2, <1>3, <1>4, <1>5, <1>6, <1>7, <1>8, <1>9, <1>10, <1>11, <1>12, <1>13, <1>14
    DEF Next

\* Every behaviour of the checkout, with its callbacks, queries, retries and
\* crashes, is one of MoneyLedger: the order is paid once the money is there,
\* fails only if it never will be, and books each return of money once.
THEOREM CheckoutImplementsLedger == Spec => ImplementsLedger
<1> QED BY LedgerInit, LedgerStep, CheckoutInvariant, PTL
        DEF Spec, ImplementsLedger, Ledger!LSpec
=============================================================================
