------------------------- MODULE CallbackInboxProofs -------------------------
(***************************************************************************)
(* Proofs about CallbackInbox, for any callbacks, workers, contacts,       *)
(* customers and budgets.                                                  *)
(***************************************************************************)
EXTENDS CallbackInbox, FiniteSetTheorems, TLAPS

-----------------------------------------------------------------------------
(* The order of callbacks *)

(* What a callback says is a follow state with a positive instant, since   *)
(* decodeDelivery rejects the others.                                      *)
LEMMA FactType ==
    ASSUME NEW d \in Deliveries
    PROVE  /\ FactBy(d) \in FollowStates
           /\ FactBy(d).at > 0
           /\ FactBy(d).by = {d}
           /\ FactBy(d).at = FactOf[d].at
           /\ FactBy(d).active = FactOf[d].active
           /\ PairOf[d] \in Pairs
           /\ Event[d].contact \in Contacts
           /\ Event[d].employee \in Employees
  <1>1. Event[d] \in Events
    BY EventAssumption
  <1>2. Event[d].at \in Nat /\ Event[d].at > 0 /\ Event[d].contact \in Contacts
            /\ Event[d].employee \in Employees
    BY <1>1 DEF Events
  <1>3. FactOf[d] = [at |-> Event[d].at, active |-> ~deletesRelationship(d)]
    BY DEF FactOf
  <1>4. (~deletesRelationship(d)) \in BOOLEAN
    OBVIOUS
  <1>5. FactBy(d) = [at |-> Event[d].at, active |-> ~deletesRelationship(d), by |-> {d}]
    BY <1>3 DEF FactBy
  <1>6. PairOf[d] \in Pairs
    BY <1>2 DEF PairOf, Pairs
  <1> QED
    BY <1>2, <1>3, <1>4, <1>5, <1>6 DEF FollowStates

(* compareFollowEvent orders callbacks: what is not newer than a state     *)
(* that is not newer than a third is not newer than the third.             *)
LEMMA NewerOrder ==
    ASSUME NEW a \in FollowStates, NEW b \in FollowStates, NEW c \in FollowStates
    PROVE  /\ ~(Newer(a, b) /\ Newer(b, a))
           /\ ~Newer(a, b) /\ ~Newer(b, c) => ~Newer(a, c)
  BY DEF Newer, FollowStates

\* Every fact is newer than none.
LEMMA NothingIsOldest ==
    ASSUME NEW f \in FollowStates, f.at > 0
    PROVE  Newer(f, NoFollow) /\ ~Newer(NoFollow, f)
  BY DEF Newer, FollowStates, NoFollow

(* Advancing over one more fact keeps the latest of them.                  *)
LEMMA AdvanceIsLatest ==
    ASSUME NEW F, NEW v \in FollowStates, NEW f \in FollowStates,
           F \subseteq FollowStates, f.at > 0, LatestOf(F, v)
    PROVE  LatestOf(F \cup {f}, Advance(v, f))
  <1>1. CASE Newer(f, v)
    <2>1. Advance(v, f) = f
      BY <1>1 DEF Advance
    <2>2. \A g \in F : ~Newer(g, f)
      <3> SUFFICES ASSUME NEW g \in F PROVE ~Newer(g, f)
        OBVIOUS
      <3>1. ~Newer(g, v)
        BY DEF LatestOf
      <3>2. ~Newer(v, f)
        BY <1>1, NewerOrder
      <3> QED
        BY <3>1, <3>2, NewerOrder
    <2>3. ~Newer(f, f)
      BY NewerOrder
    <2> QED
      BY <2>1, <2>2, <2>3 DEF LatestOf
  <1>2. CASE ~Newer(f, v)
    <2>1. Advance(v, f) = v
      BY <1>2 DEF Advance
    <2>2. F # {}
      BY <1>2, NothingIsOldest DEF LatestOf
    <2> QED
      BY <1>2, <2>1, <2>2 DEF LatestOf
  <1> QED
    BY <1>1, <1>2

(* A fact that the latest one beats changes nothing.                       *)
LEMMA StaleIsLatest ==
    ASSUME NEW F, NEW v \in FollowStates, NEW f \in FollowStates,
           F \subseteq FollowStates, f.at > 0, LatestOf(F, v), Newer(v, f)
    PROVE  LatestOf(F \cup {f}, v)
  <1>1. ~Newer(f, v)
    BY NewerOrder
  <1>2. F # {}
    BY NothingIsOldest DEF LatestOf
  <1> QED
    BY <1>1, <1>2 DEF LatestOf

-----------------------------------------------------------------------------
(* Type correctness *)

(* The statements of the webhook store keep the shape of a row.            *)
LEMMA RowTypes ==
    ASSUME NEW row \in Rows
    PROVE  /\ ClaimedRow(row) \in Rows
           /\ RetriedRow(row) \in Rows
           /\ \A status \in Statuses : CompletedRow(row, status) \in Rows
           /\ [row EXCEPT !.lease = "expired"] \in Rows
           /\ [row EXCEPT !.due = TRUE] \in Rows
           /\ NoRow \in Rows
           /\ ReceivedRow(MaxAttempts) \in Rows
  <1> USE DEF Rows, Statuses, Leases
  <1>0. row.attempts \in Nat /\ row.max \in Nat /\ row.attempts + 1 \in Nat
    OBVIOUS
  <1>1. ClaimedRow(row) \in Rows
    BY <1>0 DEF ClaimedRow
  <1>2. RetriedRow(row) \in Rows
    <2>1. (IF row.max > row.attempts THEN row.max ELSE row.attempts + 1) \in Nat
      BY <1>0
    <2> QED
      BY <2>1 DEF RetriedRow
  <1>3. ASSUME NEW status \in Statuses PROVE CompletedRow(row, status) \in Rows
    <2>1. (row.due /\ status # "retryable") \in BOOLEAN
      OBVIOUS
    <2> QED
      BY <2>1 DEF CompletedRow
  <1>4. NoRow \in Rows /\ ReceivedRow(MaxAttempts) \in Rows
    BY BudgetAssumption DEF NoRow, ReceivedRow
  <1> QED
    BY <1>1, <1>2, <1>3, <1>4

\* Advancing over a callback's fact gives a follow state.
LEMMA AdvanceType ==
    ASSUME NEW v \in FollowStates, NEW d \in Deliveries
    PROVE  Advance(v, FactBy(d)) \in FollowStates
  BY FactType DEF Advance

(* What the lifecycle leaves has the shape of its tables.                  *)
LEMMA LifecycleType ==
    ASSUME TypeOK, NEW d \in Deliveries, NEW outcome \in Outcomes,
           NEW customers \in SUBSET Customers, ProcessWithin(d, outcome, customers)
    PROVE  /\ cursor' \in [Pairs -> FollowStates]
           /\ rel' \in [Customers \X Employees -> FollowStates]
           /\ identity' \in [Contacts -> SUBSET Customers]
           /\ writes' \in [Deliveries -> SUBSET Writes]
  <1> USE FactType DEF TypeOK
  <1>1. CASE Ignores(d, outcome, customers)
    BY <1>1 DEF Ignores
  <1>2. CASE Unmatched(d, outcome, customers)
    BY <1>2, AdvanceType DEF Unmatched
  <1>3. CASE Conflicts(d, outcome, customers)
    <2>1. (writes[d] \cup (IF entrant(d) THEN {"entrant"} ELSE {})) \in SUBSET Writes
      BY DEF Writes
    <2> QED
      BY <1>3, <2>1, AdvanceType DEF Conflicts
  <1>4. CASE Applies(d, outcome, customers)
    <2>1. (writes[d] \cup Written(d)) \in SUBSET Writes
      BY DEF Writes, Written
    <2>2. PICK k \in Customers :
             /\ Resolves(d, k)
             /\ rel' = [rel EXCEPT ![<<k, Event[d].employee>>] = Advance(@, FactBy(d))]
      BY <1>4 DEF Applies
    <2>3. rel' \in [Customers \X Employees -> FollowStates]
      BY <2>2, AdvanceType
    <2>4. identity' \in [Contacts -> SUBSET Customers]
      BY <2>2 DEF Resolves
    <2> QED
      BY <1>4, <2>1, <2>3, <2>4, AdvanceType DEF Applies
  <1> QED
    BY <1>1, <1>2, <1>3, <1>4 DEF ProcessWithin

(* The receipts finalize appends, and the row it closes.                   *)
LEMMA FinalizeType ==
    ASSUME TypeOK, NEW h \in Held, NEW receipt \in Receipts, finalize(h, receipt)
    PROVE  /\ receipts' \subseteq Receipts
           /\ inbox' \in [Deliveries -> Rows]
  <1>1. h.del \in Deliveries /\ receipt.status \in Statuses
    BY DEF Held, Receipts, Statuses
  <1>2. inbox[h.del] \in Rows
    BY <1>1 DEF TypeOK
  <1>3. CompletedRow(inbox[h.del], receipt.status) \in Rows
    BY <1>1, <1>2, RowTypes
  <1> QED
    BY <1>1, <1>3 DEF TypeOK, finalize

\* Every step keeps the types.
LEMMA TypeStep ==
    ASSUME TypeOK, [Next]_vars
    PROVE  TypeOK'
  <1> USE DEF TypeOK
  <1>1. ASSUME NEW d \in Deliveries, Ingest(d) PROVE TypeOK'
    BY <1>1, RowTypes DEF Ingest
  <1>2. ASSUME NEW d \in Deliveries, LeaseExpires(d) PROVE TypeOK'
    BY <1>2, RowTypes DEF LeaseExpires
  <1>3. ASSUME NEW d \in Deliveries, BecomesDue(d) PROVE TypeOK'
    BY <1>3, RowTypes DEF BecomesDue
  <1>4. ASSUME NEW w \in Workers, NEW S \in SUBSET Deliveries, ClaimBatch(w, S) PROVE TypeOK'
    <2>1. inbox' \in [Deliveries -> Rows]
      BY <1>4, RowTypes DEF ClaimBatch
    <2>2. \A d \in S : [del |-> d, attempt |-> inbox'[d].attempts, max |-> inbox'[d].max] \in Held
      BY <2>1 DEF Held, Rows
    <2> QED
      BY <1>4, <2>1, <2>2 DEF ClaimBatch
  <1>5. ASSUME NEW w \in Workers, NEW h \in batch[w], ProcessDelivery(w, h) PROVE TypeOK'
    <2>1. h \in Held /\ h.del \in Deliveries /\ h.attempt \in Nat
      BY DEF Held
    <2>2. PICK outcome \in Outcomes, customers \in SUBSET Customers :
             /\ ProcessWithin(h.del, outcome, customers)
             /\ finalize(h, [del |-> h.del, attempt |-> h.attempt, status |-> "processed",
                             outcome |-> outcome, customers |-> customers])
      BY <1>5 DEF ProcessDelivery
    <2>3. [del |-> h.del, attempt |-> h.attempt, status |-> "processed",
           outcome |-> outcome, customers |-> customers] \in Receipts
      BY <2>1 DEF Receipts
    <2>4. receipts' \subseteq Receipts /\ inbox' \in [Deliveries -> Rows]
      BY <2>1, <2>2, <2>3, FinalizeType
    <2> QED
      BY <1>5, <2>1, <2>2, <2>4, LifecycleType DEF ProcessDelivery
  <1>6. ASSUME NEW w \in Workers, NEW h \in batch[w], RecordFailure(w, h) PROVE TypeOK'
    <2>1. h \in Held /\ h.del \in Deliveries /\ h.attempt \in Nat
      BY DEF Held
    <2>2. [del |-> h.del, attempt |-> h.attempt, status |-> FailureStatus(h),
           outcome |-> "error", customers |-> {}] \in Receipts
      BY <2>1 DEF Receipts, FailureStatus, Outcomes
    <2>3. receipts' \subseteq Receipts /\ inbox' \in [Deliveries -> Rows]
      BY <1>6, <2>1, <2>2, FinalizeType DEF RecordFailure
    <2> QED
      BY <1>6, <2>3 DEF RecordFailure
  <1>7. ASSUME NEW w \in Workers, AbandonBatch(w) PROVE TypeOK'
    BY <1>7 DEF AbandonBatch
  <1>8. ASSUME NEW key \in Keys, NEW r \in receipts, AdminRetry(key, r) PROVE TypeOK'
    <2>1. r.del \in Deliveries /\ r.attempt \in Nat /\ r.status \in {"retryable", "failed"}
      BY <1>8 DEF AdminRetry, Receipts
    <2>2. [key |-> key, del |-> r.del, attempt |-> r.attempt, status |-> r.status] \in Retries
      BY <2>1 DEF Retries
    <2> QED
      BY <1>8, <2>1, <2>2, RowTypes DEF AdminRetry
  <1>9. ASSUME NEW c \in Contacts, IdentityChanges(c) PROVE TypeOK'
    BY <1>9 DEF IdentityChanges
  <1>10. CASE UNCHANGED vars
    BY <1>10 DEF vars
  <1> QED
    BY <1>1, <1>2, <1>3, <1>4, <1>5, <1>6, <1>7, <1>8, <1>9, <1>10 DEF Next

(* Type correctness of the inbox, its receipts and the lifecycle's tables. *)
THEOREM TypeCorrect == Spec => []TypeOK
  <1>1. Init => TypeOK
    BY RowTypes DEF Init, TypeOK, NoFollow, FollowStates, NoRow, Rows, Leases, Statuses
  <1> QED
    BY <1>1, TypeStep, PTL DEF Spec

-----------------------------------------------------------------------------
(* A row and its receipts *)

(* No receipt is ahead of its row, or without one.                         *)
ReceiptsBounded ==
    \A r \in receipts :
        inbox[r.del].status # "absent" /\ r.attempt <= inbox[r.del].attempts

InboxInv ==
    /\ TypeOK
    /\ AppliedOnce
    /\ StatusIsReceipted
    /\ ReceiptsBounded

\* What claiming, retrying and completing a row do to its columns.
LEMMA RowFields ==
    ASSUME NEW row \in Rows
    PROVE  /\ row.attempts \in Nat
           /\ ClaimedRow(row).status = "processing"
           /\ ClaimedRow(row).attempts = row.attempts + 1
           /\ ClaimedRow(row).max = row.max
           /\ RetriedRow(row).status = "retryable"
           /\ RetriedRow(row).attempts = row.attempts
           /\ \A status \in Statuses :
                 /\ CompletedRow(row, status).status = status
                 /\ CompletedRow(row, status).attempts = row.attempts
                 /\ CompletedRow(row, status).max = row.max
  BY DEF Rows, ClaimedRow, RetriedRow, CompletedRow

(* A step that leaves statuses, attempts and receipts alone.               *)
LEMMA SameStory ==
    ASSUME InboxInv, TypeOK', receipts' = receipts, retries' = retries,
           \A d \in Deliveries : /\ inbox'[d].status = inbox[d].status
                                 /\ inbox'[d].attempts = inbox[d].attempts
    PROVE  InboxInv'
  <1>1. \A r \in receipts : r.del \in Deliveries
    BY DEF InboxInv, TypeOK, Receipts
  <1>2. AppliedOnce'
    BY <1>1 DEF InboxInv, AppliedOnce
  <1>3. StatusIsReceipted'
    BY <1>1 DEF InboxInv, StatusIsReceipted
  <1>4. ReceiptsBounded'
    BY <1>1 DEF InboxInv, ReceiptsBounded
  <1> QED
    BY <1>2, <1>3, <1>4 DEF InboxInv

\* A new callback has no receipts yet.
LEMMA IngestStep ==
    ASSUME InboxInv, TypeOK', NEW d \in Deliveries, Ingest(d)
    PROVE  InboxInv'
  <1>1. \A r \in receipts : r.del \in Deliveries
    BY DEF InboxInv, TypeOK, Receipts
  <1>2. /\ receipts' = receipts
        /\ retries' = retries
        /\ inbox[d].status = "absent"
        /\ inbox'[d].status = "received"
        /\ \A e \in Deliveries \ {d} : inbox'[e] = inbox[e]
    BY DEF InboxInv, TypeOK, Ingest, ReceivedRow
  <1>3. AppliedOnce'
    BY <1>1, <1>2 DEF InboxInv, AppliedOnce
  <1>4. StatusIsReceipted'
    BY <1>1, <1>2 DEF InboxInv, StatusIsReceipted
  <1>5. ReceiptsBounded'
    BY <1>1, <1>2 DEF InboxInv, ReceiptsBounded
  <1> QED
    BY <1>3, <1>4, <1>5 DEF InboxInv

(* A claim is an attempt of its own, ahead of every receipt.               *)
LEMMA ClaimStep ==
    ASSUME InboxInv, TypeOK', NEW w \in Workers, NEW S \in SUBSET Deliveries, ClaimBatch(w, S)
    PROVE  InboxInv'
  <1>1. \A r \in receipts : r.del \in Deliveries /\ r.attempt \in Nat
    BY DEF InboxInv, TypeOK, Receipts
  <1>2. \A d \in S : /\ inbox[d].attempts \in Nat
                     /\ inbox'[d].status = "processing"
                     /\ inbox'[d].attempts = inbox[d].attempts + 1
                     /\ inbox[d].status \in {"received", "retryable", "processing"}
    BY RowFields DEF InboxInv, TypeOK, ClaimBatch, Claimable
  <1>3. \A d \in Deliveries \ S : inbox'[d] = inbox[d]
    BY DEF ClaimBatch
  <1>4. receipts' = receipts /\ retries' = retries
    BY DEF ClaimBatch
  <1>5. AppliedOnce'
    BY <1>1, <1>2, <1>3, <1>4 DEF InboxInv, AppliedOnce
  <1>6. ReceiptsBounded'
    BY <1>1, <1>2, <1>3, <1>4 DEF InboxInv, ReceiptsBounded
  <1>7. StatusIsReceipted'
    <2> SUFFICES ASSUME NEW d \in Deliveries PROVE StatusIsReceipted!(d)'
      BY DEF StatusIsReceipted
    <2>1. CASE d \in S
      BY <1>1, <1>2, <1>4, <2>1 DEF InboxInv, ReceiptsBounded
    <2>2. CASE d \notin S
      BY <1>3, <1>4, <2>2 DEF InboxInv, StatusIsReceipted
    <2> QED
      BY <2>1, <2>2
  <1> QED
    BY <1>5, <1>6, <1>7 DEF InboxInv

(* Only the attempt the row stands at can be completed, and once.          *)
LEMMA FinalizeStep ==
    ASSUME InboxInv, TypeOK', NEW h \in Held, NEW receipt \in Receipts,
           receipt.del = h.del, receipt.attempt = h.attempt,
           finalize(h, receipt), retries' = retries
    PROVE  InboxInv'
  <1> DEFINE d == h.del
  <1>1. /\ d \in Deliveries
        /\ receipt.status \in {"processed", "retryable", "failed"}
        /\ \A r \in receipts : r.del \in Deliveries /\ r.attempt \in Nat
    BY DEF InboxInv, TypeOK, Receipts, Held
  <1>2. /\ inbox[d].status = "processing"
        /\ inbox[d].attempts = receipt.attempt
        /\ receipts' = receipts \cup {receipt}
    BY DEF finalize, OwnsRow
  <1>3. /\ inbox'[d].status = receipt.status
        /\ inbox'[d].attempts = receipt.attempt
        /\ \A e \in Deliveries \ {d} : inbox'[e] = inbox[e]
    <2>1. inbox[d] \in Rows /\ receipt.status \in Statuses
      BY <1>1 DEF InboxInv, TypeOK, Statuses
    <2>2. inbox'[d] = CompletedRow(inbox[d], receipt.status)
      BY <1>1 DEF InboxInv, TypeOK, finalize
    <2> QED
      BY <1>1, <1>2, <2>1, <2>2, RowFields DEF InboxInv, TypeOK, finalize
  <1>4. \A r \in receipts : r.del = d => r.attempt < receipt.attempt /\ r.status # "processed"
    BY <1>1, <1>2 DEF InboxInv, StatusIsReceipted, AppliedOnce
  <1>5. receipt.attempt \in Nat
    BY DEF Receipts
  <1> HIDE DEF d
  <1>6. AppliedOnce'
    <2> SUFFICES ASSUME NEW r \in receipts', NEW s \in receipts',
                        r.status = "processed", s.del = r.del
                 PROVE  /\ s.status = "processed" => s = r
                        /\ s.attempt <= r.attempt
                        /\ inbox'[r.del].status = "processed"
                        /\ inbox'[r.del].attempts = r.attempt
      BY DEF AppliedOnce
    <2>1. CASE r.del = d
      <3>1. r = receipt
        BY <1>2, <1>4, <2>1
      <3> QED
        BY <1>1, <1>2, <1>3, <1>4, <1>5, <2>1, <3>1
    <2>2. CASE r.del # d
      <3>1. r \in receipts /\ s \in receipts
        BY <1>2, <2>2 DEF d
      <3> QED
        BY <1>1, <1>3, <2>2, <3>1 DEF InboxInv, AppliedOnce
    <2> QED
      BY <2>1, <2>2
  <1>7. StatusIsReceipted'
    <2> SUFFICES ASSUME NEW e \in Deliveries PROVE StatusIsReceipted!(e)'
      BY DEF StatusIsReceipted
    <2>1. CASE e = d
      <3>1. receipt \in receipts' /\ receipt.del = d
        BY <1>2 DEF d
      <3> QED
        BY <1>1, <1>3, <2>1, <3>1
    <2>2. CASE e # d
      <3>1. \A r \in receipts' : r.del = e => r \in receipts
        BY <1>2, <2>2 DEF d
      <3> QED
        BY <1>2, <1>3, <2>2, <3>1 DEF InboxInv, StatusIsReceipted
    <2> QED
      BY <2>1, <2>2
  <1>8. ReceiptsBounded'
    <2>1. receipt.del = d
      BY DEF d
    <2> QED
      BY <1>1, <1>2, <1>3, <1>4, <1>5, <2>1 DEF InboxInv, ReceiptsBounded
  <1> QED
    BY <1>6, <1>7, <1>8 DEF InboxInv

(* An administrator reopens the attempt its receipt tells of.              *)
LEMMA RetryStep ==
    ASSUME InboxInv, TypeOK', NEW key \in Keys, NEW r \in receipts, AdminRetry(key, r)
    PROVE  InboxInv'
  <1> DEFINE d == r.del
  <1>1. /\ d \in Deliveries
        /\ \A s \in receipts : s.del \in Deliveries
    BY DEF InboxInv, TypeOK, Receipts
  <1>2. /\ inbox[d].status = r.status
        /\ r.status \in {"retryable", "failed"}
        /\ inbox[d].attempts = r.attempt
        /\ receipts' = receipts
        /\ retries' = retries \cup
             {[key |-> key, del |-> d, attempt |-> r.attempt, status |-> r.status]}
    BY DEF AdminRetry, RetryMatches
  <1>3. /\ inbox'[d].status = "retryable"
        /\ inbox'[d].attempts = r.attempt
        /\ \A e \in Deliveries \ {d} : inbox'[e] = inbox[e]
    <2>1. inbox[d] \in Rows /\ inbox'[d] = RetriedRow(inbox[d])
      BY <1>1 DEF InboxInv, TypeOK, AdminRetry
    <2> QED
      BY <1>1, <1>2, <2>1, RowFields DEF InboxInv, TypeOK, AdminRetry
  <1>4. AppliedOnce'
    BY <1>1, <1>2, <1>3 DEF InboxInv, AppliedOnce
  <1>5. StatusIsReceipted'
    <2> SUFFICES ASSUME NEW e \in Deliveries PROVE StatusIsReceipted!(e)'
      BY DEF StatusIsReceipted
    <2>1. CASE e = d
      <3>1. r \in receipts' /\ r.del = e /\ r.attempt = inbox'[e].attempts
        BY <1>2, <1>3, <2>1
      <3>2. r.status = "failed" =>
                \E s \in retries' :
                    s.del = e /\ s.attempt = inbox'[e].attempts /\ s.status = "failed"
        <4> DEFINE new == [key |-> key, del |-> d, attempt |-> r.attempt, status |-> r.status]
        <4>1. new \in retries'
          BY <1>2
        <4>2. new.del = e /\ new.attempt = inbox'[e].attempts /\ new.status = r.status
          BY <1>3, <2>1
        <4> HIDE DEF new
        <4> QED
          BY <4>1, <4>2
      <3> QED
        BY <1>2, <1>3, <2>1, <3>1, <3>2
    <2>2. CASE e # d
      BY <1>2, <1>3, <2>2 DEF InboxInv, StatusIsReceipted
    <2> QED
      BY <2>1, <2>2
  <1>6. ReceiptsBounded'
    BY <1>1, <1>2, <1>3 DEF InboxInv, ReceiptsBounded
  <1> QED
    BY <1>4, <1>5, <1>6 DEF InboxInv

\* Every step keeps the rows and their receipts in agreement.
LEMMA InboxStep ==
    ASSUME InboxInv, [Next]_vars
    PROVE  InboxInv'
  <1>0. TypeOK' /\ TypeOK
    BY TypeStep DEF InboxInv
  <1>1. ASSUME NEW d \in Deliveries, Ingest(d) PROVE InboxInv'
    BY <1>0, <1>1, IngestStep
  <1>2. ASSUME NEW d \in Deliveries, LeaseExpires(d) \/ BecomesDue(d) PROVE InboxInv'
    <2>1. \A e \in Deliveries : /\ inbox'[e].status = inbox[e].status
                                /\ inbox'[e].attempts = inbox[e].attempts
      BY <1>0, <1>2 DEF LeaseExpires, BecomesDue, TypeOK, Rows
    <2> QED
      BY <1>0, <1>2, <2>1, SameStory DEF LeaseExpires, BecomesDue
  <1>3. ASSUME NEW w \in Workers, NEW S \in SUBSET Deliveries, ClaimBatch(w, S) PROVE InboxInv'
    BY <1>0, <1>3, ClaimStep
  <1>4. ASSUME NEW w \in Workers, NEW h \in batch[w], ProcessDelivery(w, h) PROVE InboxInv'
    <2>1. h \in Held /\ h.del \in Deliveries /\ h.attempt \in Nat
      BY <1>0 DEF Held, TypeOK
    <2>2. PICK outcome \in Outcomes, customers \in SUBSET Customers :
             finalize(h, [del |-> h.del, attempt |-> h.attempt, status |-> "processed",
                          outcome |-> outcome, customers |-> customers])
      BY <1>4 DEF ProcessDelivery
    <2>3. [del |-> h.del, attempt |-> h.attempt, status |-> "processed",
           outcome |-> outcome, customers |-> customers] \in Receipts
      BY <2>1 DEF Receipts
    <2> QED
      BY <1>0, <1>4, <2>1, <2>2, <2>3, FinalizeStep DEF ProcessDelivery
  <1>5. ASSUME NEW w \in Workers, NEW h \in batch[w], RecordFailure(w, h) PROVE InboxInv'
    <2>1. h \in Held /\ h.del \in Deliveries /\ h.attempt \in Nat
      BY <1>0 DEF Held, TypeOK
    <2>2. [del |-> h.del, attempt |-> h.attempt, status |-> FailureStatus(h),
           outcome |-> "error", customers |-> {}] \in Receipts
      BY <2>1 DEF Receipts, FailureStatus, Outcomes
    <2> QED
      BY <1>0, <1>5, <2>1, <2>2, FinalizeStep DEF RecordFailure
  <1>6. ASSUME NEW key \in Keys, NEW r \in receipts, AdminRetry(key, r) PROVE InboxInv'
    BY <1>0, <1>6, RetryStep
  <1>7. ASSUME \/ \E w \in Workers : AbandonBatch(w)
               \/ \E c \in Contacts : IdentityChanges(c)
               \/ UNCHANGED vars
        PROVE  InboxInv'
    BY <1>0, <1>7, SameStory DEF AbandonBatch, IdentityChanges, vars
  <1> QED
    BY <1>1, <1>2, <1>3, <1>4, <1>5, <1>6, <1>7 DEF Next

\* Rows and receipts agree in every reachable state.
LEMMA InboxInvariant == Spec => []InboxInv
  <1>1. Init => InboxInv
    <2> SUFFICES ASSUME Init PROVE InboxInv
      OBVIOUS
    <2>1. TypeOK
      BY RowTypes DEF Init, TypeOK, NoFollow, FollowStates, NoRow, Rows, Leases, Statuses
    <2>2. StatusIsReceipted
      BY DEF Init, StatusIsReceipted, NoRow
    <2> QED
      BY <2>1, <2>2 DEF Init, InboxInv, AppliedOnce, ReceiptsBounded
  <1> QED
    BY <1>1, InboxStep, PTL DEF Spec

(* However many workers claim, stall and come back, and however often      *)
(* administrators retry, a callback's lifecycle commits at most once.      *)
THEOREM AppliedAtMostOnce == Spec => []AppliedOnce
  BY InboxInvariant, PTL DEF InboxInv

(* A row's status always agrees with the receipts of its last attempt.     *)
THEOREM StatusesAreReceipted == Spec => []StatusIsReceipted
  BY InboxInvariant, PTL DEF InboxInv

-----------------------------------------------------------------------------
(* Cursors and relationships *)

(* What the settled callbacks say of a pair.                               *)
SettledAbout(p) ==
    {FactBy(d) : d \in {d \in Deliveries :
        inbox[d].status = "processed" /\ supported(d) /\ PairOf[d] = p}}

CursorIsLatest ==
    \A p \in Pairs : LatestOf(SettledAbout(p), cursor[p])

FollowInv == InboxInv /\ CursorIsLatest /\ RelationshipIsLatest

Processing == \E w \in Workers : \E h \in batch[w] : ProcessDelivery(w, h)

(* Only the first transaction of processDelivery settles a callback.       *)
LEMMA QuietStep ==
    ASSUME TypeOK, [Next]_vars, ~Processing
    PROVE  /\ UNCHANGED <<cursor, rel, writes>>
           /\ \A d \in Deliveries : inbox'[d].status = "processed" <=> inbox[d].status = "processed"
           /\ \A k, e : AppliedTo(k, e)' = AppliedTo(k, e)
  <1> DEFINE Quiet ==
         /\ UNCHANGED <<cursor, rel, writes>>
         /\ \A d \in Deliveries : inbox'[d].status = "processed" <=> inbox[d].status = "processed"
         /\ \A k, e : AppliedTo(k, e)' = AppliedTo(k, e)
  <1>1. ASSUME NEW d \in Deliveries, Ingest(d) PROVE Quiet
    BY <1>1 DEF Ingest, TypeOK, ReceivedRow, AppliedTo
  <1>2. ASSUME NEW d \in Deliveries, LeaseExpires(d) \/ BecomesDue(d) PROVE Quiet
    <2>1. \A e \in Deliveries : inbox'[e].status = inbox[e].status
      BY <1>2 DEF LeaseExpires, BecomesDue, TypeOK, Rows
    <2> QED
      BY <1>2, <2>1 DEF LeaseExpires, BecomesDue, AppliedTo
  <1>3. ASSUME NEW w \in Workers, NEW S \in SUBSET Deliveries, ClaimBatch(w, S) PROVE Quiet
    <2>1. \A d \in S : inbox'[d].status = "processing" /\ inbox[d].status # "processed"
      BY <1>3, RowFields DEF TypeOK, ClaimBatch, Claimable
    <2> QED
      BY <1>3, <2>1 DEF ClaimBatch, AppliedTo
  <1>4. ASSUME NEW w \in Workers, NEW h \in batch[w], RecordFailure(w, h) PROVE Quiet
    <2> DEFINE receipt == [del |-> h.del, attempt |-> h.attempt, status |-> FailureStatus(h),
                           outcome |-> "error", customers |-> {}]
    <2>1. h.del \in Deliveries /\ inbox[h.del] \in Rows
      BY DEF TypeOK, Held
    <2>2. receipts' = receipts \cup {receipt} /\ receipt.outcome = "error"
      BY <1>4 DEF RecordFailure, finalize
    <2>3. inbox'[h.del].status \in {"failed", "retryable"} /\ inbox[h.del].status = "processing"
      <3>1. FailureStatus(h) \in {"failed", "retryable"}
        BY DEF FailureStatus
      <3>2. inbox'[h.del] = CompletedRow(inbox[h.del], FailureStatus(h))
        BY <1>4, <2>1 DEF RecordFailure, finalize, TypeOK
      <3> QED
        BY <1>4, <2>1, <3>1, <3>2, RowFields DEF RecordFailure, finalize, OwnsRow, Statuses
    <2>4. \A e \in Deliveries \ {h.del} : inbox'[e] = inbox[e]
      BY <1>4 DEF RecordFailure, finalize, TypeOK
    <2> HIDE DEF receipt
    <2>5. \A k, e : AppliedTo(k, e)' = AppliedTo(k, e)
      BY <2>2 DEF AppliedTo
    <2> QED
      BY <1>4, <2>3, <2>4, <2>5 DEF RecordFailure
  <1>5. ASSUME NEW key \in Keys, NEW r \in receipts, AdminRetry(key, r) PROVE Quiet
    <2>1. r.del \in Deliveries /\ inbox[r.del] \in Rows
      BY DEF TypeOK, Receipts
    <2>2. inbox'[r.del].status = "retryable" /\ inbox[r.del].status # "processed"
      BY <1>5, <2>1, RowFields DEF AdminRetry, RetryMatches, TypeOK
    <2> QED
      BY <1>5, <2>2 DEF AdminRetry, AppliedTo, TypeOK
  <1>6. ASSUME \/ \E w \in Workers : AbandonBatch(w)
               \/ \E c \in Contacts : IdentityChanges(c)
               \/ UNCHANGED vars
        PROVE  Quiet
    BY <1>6 DEF AbandonBatch, IdentityChanges, vars, AppliedTo
  <1> QED
    BY <1>1, <1>2, <1>3, <1>4, <1>5, <1>6 DEF Next, Processing

(* What the first transaction of processDelivery does to its callback.     *)
LEMMA ProcessingStep ==
    ASSUME TypeOK, NEW w \in Workers, NEW h \in batch[w], ProcessDelivery(w, h)
    PROVE  /\ h.del \in Deliveries
           /\ inbox[h.del].status = "processing"
           /\ inbox'[h.del].status = "processed"
           /\ \A e \in Deliveries \ {h.del} : inbox'[e] = inbox[e]
           /\ \E outcome \in Outcomes, customers \in SUBSET Customers :
                 /\ ProcessWithin(h.del, outcome, customers)
                 /\ receipts' = receipts \cup
                       {[del |-> h.del, attempt |-> h.attempt, status |-> "processed",
                         outcome |-> outcome, customers |-> customers]}
  <1>1. h.del \in Deliveries /\ inbox[h.del] \in Rows
    BY DEF TypeOK, Held
  <1>2. PICK outcome \in Outcomes, customers \in SUBSET Customers :
           /\ ProcessWithin(h.del, outcome, customers)
           /\ finalize(h, [del |-> h.del, attempt |-> h.attempt, status |-> "processed",
                           outcome |-> outcome, customers |-> customers])
    BY DEF ProcessDelivery
  <1>3. inbox[h.del].status = "processing"
    BY <1>2 DEF finalize, OwnsRow
  <1>4. inbox' = [inbox EXCEPT ![h.del] = CompletedRow(@, "processed")]
    BY <1>2 DEF finalize
  <1>5. inbox'[h.del].status = "processed"
    BY <1>1, <1>4, RowFields DEF TypeOK, Statuses
  <1>6. \A e \in Deliveries \ {h.del} : inbox'[e] = inbox[e]
    BY <1>4 DEF TypeOK
  <1>7. receipts' = receipts \cup
           {[del |-> h.del, attempt |-> h.attempt, status |-> "processed",
             outcome |-> outcome, customers |-> customers]}
    BY <1>2 DEF finalize
  <1> QED
    BY <1>1, <1>2, <1>3, <1>5, <1>6, <1>7

(* An admitted callback advances its cursor; no other step moves one.      *)
LEMMA LifecycleCursor ==
    ASSUME NEW d \in Deliveries, NEW outcome, NEW customers, TypeOK,
           ProcessWithin(d, outcome, customers)
    PROVE  /\ supported(d) /\ Admitted(d) =>
                 cursor' = [cursor EXCEPT ![PairOf[d]] = Advance(@, FactBy(d))]
           /\ ~(supported(d) /\ Admitted(d)) => cursor' = cursor
  BY DEF ProcessWithin, Ignores, Unmatched, Conflicts, Applies

\* Every step keeps a cursor at the latest settled callback of its pair.
LEMMA CursorStep ==
    ASSUME FollowInv, [Next]_vars
    PROVE  CursorIsLatest'
  <1>0. TypeOK /\ CursorIsLatest
    BY DEF FollowInv, InboxInv
  <1>1. CASE ~Processing
    <2>1. /\ cursor' = cursor
          /\ \A d \in Deliveries : inbox'[d].status = "processed" <=> inbox[d].status = "processed"
      BY <1>0, <1>1, QuietStep
    <2>2. \A p : SettledAbout(p)' = SettledAbout(p)
      BY <2>1 DEF SettledAbout
    <2> QED
      BY <1>0, <2>1, <2>2 DEF CursorIsLatest
  <1>2. ASSUME NEW w \in Workers, NEW h \in batch[w], ProcessDelivery(w, h)
        PROVE  CursorIsLatest'
    <2> DEFINE d == h.del
    <2>1. /\ d \in Deliveries
          /\ inbox[d].status = "processing"
          /\ inbox'[d].status = "processed"
          /\ \A e \in Deliveries \ {d} : inbox'[e] = inbox[e]
          /\ \E outcome, customers : ProcessWithin(d, outcome, customers)
      BY <1>0, <1>2, ProcessingStep
    <2> HIDE DEF d
    <2> SUFFICES ASSUME NEW p \in Pairs PROVE LatestOf(SettledAbout(p)', cursor'[p])
      BY DEF CursorIsLatest, LatestOf
    <2>2. LatestOf(SettledAbout(p), cursor[p]) /\ cursor[p] \in FollowStates
      BY <1>0 DEF CursorIsLatest, TypeOK
    <2>3. SettledAbout(p) \subseteq FollowStates
      BY FactType DEF SettledAbout
    <2>4. FactBy(d) \in FollowStates /\ FactBy(d).at > 0
      BY <2>1, FactType
    <2>5. CASE ~(supported(d) /\ PairOf[d] = p)
      <3>1. SettledAbout(p)' = SettledAbout(p)
        BY <2>1, <2>5 DEF SettledAbout
      <3>2. cursor'[p] = cursor[p]
        BY <1>0, <2>1, <2>5, LifecycleCursor DEF TypeOK
      <3> QED
        BY <2>2, <3>1, <3>2
    <2>6. CASE supported(d) /\ PairOf[d] = p
      <3>1. SettledAbout(p)' = SettledAbout(p) \cup {FactBy(d)}
        BY <2>1, <2>6 DEF SettledAbout
      <3>2. CASE Admitted(d)
        <4>1. cursor'[p] = Advance(cursor[p], FactBy(d))
          BY <1>0, <2>1, <2>6, <3>2, LifecycleCursor DEF TypeOK
        <4> QED
          BY <2>2, <2>3, <2>4, <3>1, <4>1, AdvanceIsLatest
      <3>3. CASE ~Admitted(d)
        <4>1. cursor'[p] = cursor[p]
          BY <1>0, <2>1, <3>3, LifecycleCursor
        <4>2. d \notin cursor[p].by
          <5>1. CASE SettledAbout(p) = {}
            BY <2>2, <5>1 DEF LatestOf, NoFollow
          <5>2. CASE SettledAbout(p) # {}
            <6>1. PICK e \in Deliveries : inbox[e].status = "processed" /\ cursor[p] = FactBy(e)
              BY <2>2, <5>2 DEF LatestOf, SettledAbout
            <6> QED
              BY <2>1, <6>1, FactType
          <5> QED
            BY <5>1, <5>2
        <4>3. Newer(cursor[p], FactBy(d))
          BY <2>6, <3>3, <4>2 DEF Admitted
        <4> QED
          BY <2>2, <2>3, <2>4, <3>1, <4>1, <4>3, StaleIsLatest
      <3> QED
        BY <3>2, <3>3
    <2> QED
      BY <2>5, <2>6
  <1> QED
    BY <1>1, <1>2 DEF Processing

\* Every step keeps a relationship at the latest callback applied to it.
LEMMA RelationshipStep ==
    ASSUME FollowInv, [Next]_vars
    PROVE  RelationshipIsLatest'
  <1>0. TypeOK /\ RelationshipIsLatest
    BY DEF FollowInv, InboxInv
  <1>1. CASE ~Processing
    <2>1. rel' = rel /\ \A k, e : AppliedTo(k, e)' = AppliedTo(k, e)
      BY <1>0, <1>1, QuietStep
    <2> QED
      BY <1>0, <2>1 DEF RelationshipIsLatest
  <1>2. ASSUME NEW w \in Workers, NEW h \in batch[w], ProcessDelivery(w, h)
        PROVE  RelationshipIsLatest'
    <2> DEFINE d == h.del
    <2>1. PICK outcome \in Outcomes, customers \in SUBSET Customers :
             /\ ProcessWithin(d, outcome, customers)
             /\ receipts' = receipts \cup
                   {[del |-> d, attempt |-> h.attempt, status |-> "processed",
                     outcome |-> outcome, customers |-> customers]}
      BY <1>0, <1>2, ProcessingStep
    <2>2. d \in Deliveries
      BY <1>0, <1>2, ProcessingStep
    <2> DEFINE receipt == [del |-> d, attempt |-> h.attempt, status |-> "processed",
                           outcome |-> outcome, customers |-> customers]
    <2>3. /\ receipts' = receipts \cup {receipt}
          /\ receipt.del = d
          /\ receipt.outcome = outcome
          /\ receipt.customers = customers
      BY <2>1
    <2> HIDE DEF d, receipt
    <2> SUFFICES ASSUME NEW k \in Customers, NEW e \in Employees
                 PROVE  LatestOf(AppliedTo(k, e)', rel'[<<k, e>>])
      BY DEF RelationshipIsLatest, LatestOf
    <2>4. LatestOf(AppliedTo(k, e), rel[<<k, e>>]) /\ rel[<<k, e>>] \in FollowStates
      BY <1>0 DEF RelationshipIsLatest, TypeOK
    <2>5. AppliedTo(k, e) \subseteq FollowStates
      BY <1>0, FactType DEF AppliedTo, TypeOK, Receipts
    <2>6. FactBy(d) \in FollowStates /\ FactBy(d).at > 0
      BY <2>2, FactType
    <2>7. CASE outcome = "applied" /\ k \in customers /\ Event[d].employee = e
      <3>1. AppliedTo(k, e)' = AppliedTo(k, e) \cup {FactBy(d)}
        BY <2>3, <2>7 DEF AppliedTo
      <3>2. Applies(d, outcome, customers)
        BY <2>1, <2>7 DEF ProcessWithin, Ignores, Unmatched, Conflicts
      <3>3. rel' = [rel EXCEPT ![<<k, e>>] = Advance(@, FactBy(d))]
        BY <2>7, <3>2 DEF Applies
      <3>4. rel'[<<k, e>>] = Advance(rel[<<k, e>>], FactBy(d))
        BY <1>0, <3>3 DEF TypeOK
      <3> QED
        BY <2>4, <2>5, <2>6, <3>1, <3>4, AdvanceIsLatest
    <2>8. CASE ~(outcome = "applied" /\ k \in customers /\ Event[d].employee = e)
      <3>1. AppliedTo(k, e)' = AppliedTo(k, e)
        BY <2>3, <2>8 DEF AppliedTo
      <3>2. rel'[<<k, e>>] = rel[<<k, e>>]
        <4>1. CASE outcome = "applied"
          <5>1. Applies(d, outcome, customers)
            BY <2>1, <4>1 DEF ProcessWithin, Ignores, Unmatched, Conflicts
          <5>2. PICK j \in Customers :
                   /\ customers = {j}
                   /\ rel' = [rel EXCEPT ![<<j, Event[d].employee>>] = Advance(@, FactBy(d))]
            BY <5>1 DEF Applies
          <5>3. <<j, Event[d].employee>> # <<k, e>>
            BY <2>8, <4>1, <5>2
          <5> QED
            BY <1>0, <5>2, <5>3 DEF TypeOK
        <4>2. CASE outcome # "applied"
          BY <2>1, <4>2 DEF ProcessWithin, Ignores, Unmatched, Conflicts, Applies
        <4> QED
          BY <4>1, <4>2
      <3> QED
        BY <2>4, <3>1, <3>2
    <2> QED
      BY <2>7, <2>8
  <1> QED
    BY <1>1, <1>2 DEF Processing

\* Cursors and relationships are the latest in every reachable state.
LEMMA FollowInvariant == Spec => []FollowInv
  <1>1. Init => CursorIsLatest /\ RelationshipIsLatest
    <2> SUFFICES ASSUME Init PROVE CursorIsLatest /\ RelationshipIsLatest
      OBVIOUS
    <2>1. \A p \in Pairs : SettledAbout(p) = {} /\ cursor[p] = NoFollow
      BY DEF Init, SettledAbout, NoRow
    <2>2. \A k \in Customers, e \in Employees : AppliedTo(k, e) = {} /\ rel[<<k, e>>] = NoFollow
      BY DEF Init, AppliedTo
    <2> QED
      BY <2>1, <2>2 DEF CursorIsLatest, RelationshipIsLatest, LatestOf
  <1>2. FollowInv /\ [Next]_vars => CursorIsLatest' /\ RelationshipIsLatest'
    BY CursorStep, RelationshipStep
  <1> QED
    BY <1>1, <1>2, InboxInvariant, PTL DEF FollowInv, Spec

(* A relationship is what the latest of the callbacks applied to it says,  *)
(* whatever the order in which they were processed.                        *)
THEOREM RelationshipsAreLatest == Spec => []RelationshipIsLatest
  BY FollowInvariant, PTL DEF FollowInv

-----------------------------------------------------------------------------
(* No ghosts *)

(* The tables of other modules are written for admitted callbacks only.    *)
LEMMA LifecycleWrites ==
    ASSUME TypeOK, NEW d \in Deliveries, NEW outcome, NEW customers,
           ProcessWithin(d, outcome, customers)
    PROVE  \A e \in Deliveries : writes'[e] # writes[e] => e = d /\ supported(d) /\ Admitted(d)
  BY DEF TypeOK, ProcessWithin, Ignores, Unmatched, Conflicts, Applies

\* A step that writes for a callback finds no settled callback that beats it.
LEMMA GhostStep ==
    ASSUME FollowInv, [Next]_vars, NEW d \in Deliveries, NEW e \in Deliveries,
           writes'[d] # writes[d], Processed(e), supported(e), PairOf[e] = PairOf[d]
    PROVE  ~Newer(FactBy(e), FactBy(d))
  <1>0. TypeOK /\ CursorIsLatest
    BY DEF FollowInv, InboxInv
  <1>1. PICK w \in Workers, h \in UNION {batch[v] : v \in Workers} :
           h \in batch[w] /\ ProcessDelivery(w, h)
    BY <1>0, QuietStep DEF Processing
  <1>2. d = h.del /\ Admitted(d)
    BY <1>0, <1>1, ProcessingStep, LifecycleWrites
  <1>3. inbox[e].status = "processed"
    BY DEF FollowInv, InboxInv, AppliedOnce, Processed
  <1>4. FactBy(e) \in SettledAbout(PairOf[d])
    BY <1>3 DEF SettledAbout
  <1>5. PairOf[d] \in Pairs /\ FactBy(d) \in FollowStates /\ FactBy(e) \in FollowStates
    BY FactType
  <1>6. ~Newer(FactBy(e), cursor[PairOf[d]]) /\ cursor[PairOf[d]] \in FollowStates
    BY <1>0, <1>4, <1>5 DEF CursorIsLatest, LatestOf, TypeOK
  <1>7. ~Newer(cursor[PairOf[d]], FactBy(d))
    BY <1>2 DEF Admitted
  <1> QED
    BY <1>5, <1>6, <1>7, NewerOrder

(* A late callback never creates a customer, an entrant or a directory     *)
(* entry behind one that beats it, even a deletion nobody was known for.   *)
THEOREM NoGhostWrites == Spec => NoGhosts
  <1>1. FollowInv /\ [Next]_vars =>
           [\A d, e \in Deliveries :
               /\ writes'[d] # writes[d]
               /\ Processed(e) /\ supported(e) /\ PairOf[e] = PairOf[d]
               => ~Newer(FactBy(e), FactBy(d))]_vars
    BY GhostStep
  <1> QED
    BY <1>1, FollowInvariant, PTL DEF Spec, NoGhosts

-----------------------------------------------------------------------------
(* The inbox implements the ledger *)

Settled == {d \in Deliveries : inbox[d].status = "processed"}

Following == [p \in Pairs |-> [at |-> cursor[p].at, active |-> cursor[p].active]]

(* What the cursors say is what the ledger calls the latest.               *)
LedgerAgrees ==
    \A p \in Pairs : Ledger!Latest(Ledger!About(Settled, p), Following[p])

\* The cursor is what the ledger calls the latest.
LEMMA LatestAgrees == TypeOK /\ CursorIsLatest => LedgerAgrees
  <1> SUFFICES ASSUME TypeOK, CursorIsLatest, NEW p \in Pairs
               PROVE  Ledger!Latest(Ledger!About(Settled, p), Following[p])
    BY DEF LedgerAgrees
  <1>0. LatestOf(SettledAbout(p), cursor[p])
    BY DEF CursorIsLatest
  <1> DEFINE S == Ledger!About(Settled, p)
  <1>1. SettledAbout(p) = {FactBy(d) : d \in S}
    BY DEF SettledAbout, Settled, Ledger!About
  <1>2. S \subseteq Deliveries
    BY DEF Ledger!About
  <1>3. Following[p] = [at |-> cursor[p].at, active |-> cursor[p].active]
    BY DEF Following
  <1>4. \A d \in Deliveries : /\ FactOf[d] = [at |-> FactBy(d).at, active |-> FactBy(d).active]
                              /\ FactBy(d).at = FactOf[d].at
                              /\ FactBy(d).active = FactOf[d].active
    BY DEF FactOf, FactBy
  <1> HIDE DEF S
  <1>5. \A d \in S : ~Ledger!Beats(FactOf[d], Following[p])
    <2> SUFFICES ASSUME NEW d \in S PROVE ~Ledger!Beats(FactOf[d], Following[p])
      OBVIOUS
    <2>1. ~Newer(FactBy(d), cursor[p])
      BY <1>0, <1>1 DEF LatestOf
    <2>2. Following[p].at = cursor[p].at /\ Following[p].active = cursor[p].active
      BY <1>3
    <2> QED
      BY <1>2, <1>4, <2>1, <2>2 DEF Newer, Ledger!Beats
  <1>6. CASE S = {}
    <2>0. cursor[p] = NoFollow
      BY <1>0, <1>1, <1>6 DEF LatestOf
    <2>1. Following[p] = Ledger!Nothing
      BY <1>3, <2>0 DEF NoFollow, Ledger!Nothing
    <2> QED
      BY <1>5, <1>6, <2>1 DEF S, Ledger!Latest
  <1>7. CASE S # {}
    <2>1. PICK d \in S : cursor[p] = FactBy(d)
      BY <1>0, <1>1, <1>7 DEF LatestOf
    <2>2. Following[p] = FactOf[d]
      BY <1>2, <1>3, <1>4, <2>1
    <2> QED
      BY <1>5, <1>7, <2>2 DEF S, Ledger!Latest
  <1> QED
    BY <1>6, <1>7

\* Every step is a step of the ledger or leaves it alone.
LEMMA LedgerStep ==
    ASSUME FollowInv, FollowInv', [Next]_vars
    PROVE  [Ledger!LedgerNext]_(Ledger!ledger)
  <1>0. TypeOK /\ TypeOK' /\ CursorIsLatest'
    BY DEF FollowInv, InboxInv
  <1>1. CASE ~Processing
    <2>1. cursor' = cursor /\ Settled' = Settled
      BY <1>0, <1>1, QuietStep DEF Settled
    <2>2. Following' = Following
      BY <2>1 DEF Following
    <2> QED
      BY <2>1, <2>2 DEF Ledger!ledger, Settled, Following
  <1>2. ASSUME NEW w \in Workers, NEW h \in batch[w], ProcessDelivery(w, h)
        PROVE  Ledger!LedgerNext
    <2> DEFINE d == h.del
    <2>1. /\ d \in Deliveries
          /\ inbox[d].status = "processing"
          /\ inbox'[d].status = "processed"
          /\ \A e \in Deliveries \ {d} : inbox'[e] = inbox[e]
          /\ \E outcome, customers : ProcessWithin(d, outcome, customers)
      BY <1>0, <1>2, ProcessingStep
    <2> HIDE DEF d
    <2>2. d \notin Settled /\ Settled' = Settled \cup {d}
      BY <2>1 DEF Settled
    <2>3. PairOf[d] \in Pairs
      BY <2>1, FactType
    <2> DEFINE p == PairOf[d]
               v == Following'[p]
    <2>4. Following' = [Following EXCEPT ![p] = v]
      <3>1. \A q \in Pairs \ {p} : cursor'[q] = cursor[q]
        BY <1>0, <2>1, LifecycleCursor DEF TypeOK
      <3> QED
        BY <2>3, <3>1 DEF Following
    <2>5. Ledger!Latest(Ledger!About(Settled', p), v)
      <3>1. LedgerAgrees'
        BY <1>0, LatestAgrees, PTL
      <3> QED
        BY <2>3, <3>1 DEF LedgerAgrees
    <2>6. v \in {FactOf[e] : e \in Deliveries} \cup {Ledger!Nothing}
      BY <2>5 DEF Ledger!Latest, Ledger!About
    <2> HIDE DEF p, v
    <2>7. Ledger!Settle(d)
      BY <2>2, <2>4, <2>5, <2>6 DEF Ledger!Settle, Settled, Following, p
    <2> QED
      BY <2>1, <2>7 DEF Ledger!LedgerNext
  <1> QED
    BY <1>1, <1>2 DEF Processing

(* The inbox, with all its claims, takeovers and retries, implements the   *)
(* ledger: callbacks settle once and for ever, in any order, and the       *)
(* cursors end up the same.                                                *)
THEOREM Implementation == Spec => ImplementsLedger
  <1>1. Init => Ledger!LedgerInit
    BY DEF Init, NoRow, NoFollow, Ledger!LedgerInit, Ledger!Nothing
  <1>2. FollowInv /\ FollowInv' /\ [Next]_vars => [Ledger!LedgerNext]_(Ledger!ledger)
    BY LedgerStep
  <1> QED
    BY <1>1, <1>2, FollowInvariant, PTL DEF Spec, ImplementsLedger, Ledger!LedgerSpec

-----------------------------------------------------------------------------
(* The budget of attempts *)

Grants(d) == {s \in retries : s.del = d}

BudgetInv == TypeOK /\ IsFiniteSet(retries) /\ RetryGrantsOne

(* A step that grants nothing and keeps every row within its budget.       *)
LEMMA SameBudget ==
    ASSUME BudgetInv, TypeOK', retries' = retries,
           \A d \in Deliveries : /\ inbox'[d].max \in {inbox[d].max, MaxAttempts}
                                 /\ inbox'[d].attempts <= inbox'[d].max
    PROVE  BudgetInv'
  <1> SUFFICES ASSUME NEW d \in Deliveries
               PROVE  inbox'[d].max <= MaxAttempts + Cardinality(Grants(d))
    BY DEF BudgetInv, RetryGrantsOne, Grants
  <1>1. IsFiniteSet(Grants(d))
    BY FS_Subset DEF BudgetInv, Grants
  <1>2. Cardinality(Grants(d)) \in Nat
    BY <1>1, FS_CardinalityType
  <1>3. inbox[d].max <= MaxAttempts + Cardinality(Grants(d))
    BY DEF BudgetInv, RetryGrantsOne, Grants
  <1> QED
    BY <1>2, <1>3, BudgetAssumption

(* An administrator's retry is one grant and at most one more attempt.     *)
LEMMA GrantStep ==
    ASSUME BudgetInv, TypeOK', NEW key \in Keys, NEW r \in receipts, AdminRetry(key, r)
    PROVE  BudgetInv'
  <1> DEFINE new == [key |-> key, del |-> r.del, attempt |-> r.attempt, status |-> r.status]
  <1>1. /\ r.del \in Deliveries
        /\ inbox[r.del] \in Rows
        /\ inbox[r.del].attempts \in Nat
        /\ inbox[r.del].max \in Nat
    BY DEF BudgetInv, TypeOK, Receipts, Rows
  <1>2. retries' = retries \cup {new} /\ new \notin retries /\ new.del = r.del
    BY DEF AdminRetry
  <1> HIDE DEF new
  <1>3. IsFiniteSet(retries')
    BY <1>2, FS_AddElement DEF BudgetInv
  <1>4. inbox'[r.del] = RetriedRow(inbox[r.del])
    BY <1>1 DEF AdminRetry, BudgetInv, TypeOK
  <1>5. /\ inbox'[r.del].attempts = inbox[r.del].attempts
        /\ inbox'[r.del].max = IF inbox[r.del].max > inbox[r.del].attempts
                               THEN inbox[r.del].max ELSE inbox[r.del].attempts + 1
    BY <1>1, <1>4 DEF RetriedRow, Rows
  <1>6. \A d \in Deliveries : /\ IsFiniteSet(Grants(d))
                              /\ Cardinality(Grants(d)) \in Nat
                              /\ inbox[d].attempts <= inbox[d].max
                              /\ inbox[d].max <= MaxAttempts + Cardinality(Grants(d))
    BY FS_Subset, FS_CardinalityType DEF BudgetInv, RetryGrantsOne, Grants
  <1> SUFFICES ASSUME NEW d \in Deliveries
               PROVE  /\ inbox'[d].attempts <= inbox'[d].max
                      /\ inbox'[d].max <= MaxAttempts + Cardinality(Grants(d)')
    BY <1>3 DEF BudgetInv, RetryGrantsOne, Grants
  <1>7. CASE d = r.del
    <2>1. Grants(d)' = Grants(d) \cup {new} /\ new \notin Grants(d)
      BY <1>2, <1>7 DEF Grants
    <2>2. Cardinality(Grants(d)') = Cardinality(Grants(d)) + 1
      BY <1>6, <2>1, FS_AddElement
    <2> QED
      BY <1>1, <1>5, <1>6, <1>7, <2>2, BudgetAssumption
  <1>8. CASE d # r.del
    <2>1. Grants(d)' = Grants(d)
      BY <1>2, <1>8 DEF Grants
    <2>2. inbox'[d] = inbox[d]
      BY <1>8 DEF AdminRetry, BudgetInv, TypeOK
    <2> QED
      BY <1>6, <2>1, <2>2
  <1> QED
    BY <1>7, <1>8

\* Every step keeps the attempts within budget and grants.
LEMMA BudgetStep ==
    ASSUME BudgetInv, [Next]_vars
    PROVE  BudgetInv'
  <1>0. /\ TypeOK' /\ TypeOK
        /\ \A d \in Deliveries : /\ inbox[d] \in Rows
                                 /\ inbox[d].attempts \in Nat
                                 /\ inbox[d].max \in Nat
                                 /\ inbox[d].attempts <= inbox[d].max
    BY TypeStep DEF BudgetInv, TypeOK, Rows, RetryGrantsOne
  <1>1. ASSUME NEW d \in Deliveries, Ingest(d) PROVE BudgetInv'
    BY <1>0, <1>1, SameBudget, BudgetAssumption DEF Ingest, ReceivedRow, TypeOK
  <1>2. ASSUME NEW d \in Deliveries, LeaseExpires(d) \/ BecomesDue(d) PROVE BudgetInv'
    <2>1. \A e \in Deliveries : /\ inbox'[e].max = inbox[e].max
                                /\ inbox'[e].attempts = inbox[e].attempts
      BY <1>0, <1>2 DEF LeaseExpires, BecomesDue, TypeOK, Rows
    <2> QED
      BY <1>0, <1>2, <2>1, SameBudget DEF LeaseExpires, BecomesDue
  <1>3. ASSUME NEW w \in Workers, NEW S \in SUBSET Deliveries, ClaimBatch(w, S) PROVE BudgetInv'
    <2>1. \A d \in S : /\ inbox'[d] = ClaimedRow(inbox[d])
                       /\ inbox[d].attempts < inbox[d].max
      BY <1>3 DEF ClaimBatch, Claimable
    <2>2. \A d \in S : /\ inbox'[d].max = inbox[d].max
                       /\ inbox'[d].attempts <= inbox[d].max
      BY <1>0, <2>1, RowFields
    <2>3. \A d \in Deliveries \ S : inbox'[d] = inbox[d]
      BY <1>3 DEF ClaimBatch
    <2>4. retries' = retries
      BY <1>3 DEF ClaimBatch
    <2> QED
      BY <1>0, <2>2, <2>3, <2>4, SameBudget
  <1>4. ASSUME NEW w \in Workers, NEW h \in batch[w],
               ProcessDelivery(w, h) \/ RecordFailure(w, h)
        PROVE  BudgetInv'
    <2>1. h.del \in Deliveries
      BY <1>0 DEF TypeOK, Held
    <2>2. PICK status \in {"processed", "retryable", "failed"} :
             inbox' = [inbox EXCEPT ![h.del] = CompletedRow(@, status)]
      BY <1>4 DEF ProcessDelivery, RecordFailure, finalize, FailureStatus
    <2>3. \A d \in Deliveries : /\ inbox'[d].max = inbox[d].max
                                /\ inbox'[d].attempts = inbox[d].attempts
      BY <1>0, <2>1, <2>2, RowFields DEF TypeOK, Statuses
    <2>4. retries' = retries
      BY <1>4 DEF ProcessDelivery, RecordFailure
    <2> QED
      BY <1>0, <2>3, <2>4, SameBudget
  <1>5. ASSUME NEW key \in Keys, NEW r \in receipts, AdminRetry(key, r) PROVE BudgetInv'
    BY <1>0, <1>5, GrantStep
  <1>6. ASSUME \/ \E w \in Workers : AbandonBatch(w)
               \/ \E c \in Contacts : IdentityChanges(c)
               \/ UNCHANGED vars
        PROVE  BudgetInv'
    BY <1>0, <1>6, SameBudget DEF AbandonBatch, IdentityChanges, vars
  <1> QED
    BY <1>1, <1>2, <1>3, <1>4, <1>5, <1>6 DEF Next

(* No sequence of failures and retries buys a callback more attempts than  *)
(* its budget and one for every retry an administrator signed for.         *)
THEOREM RetriesGrantOne == Spec => []RetryGrantsOne
  <1>1. Init => BudgetInv
    <2> SUFFICES ASSUME Init PROVE BudgetInv
      OBVIOUS
    <2>1. TypeOK
      BY RowTypes DEF Init, TypeOK, NoFollow, FollowStates, NoRow, Rows, Leases, Statuses
    <2>2. IsFiniteSet(retries) /\ \A d \in Deliveries : {s \in retries : s.del = d} = {}
      BY FS_EmptySet DEF Init
    <2>3. Cardinality({}) = 0
      BY FS_EmptySet
    <2> QED
      BY <2>1, <2>2, <2>3, BudgetAssumption DEF Init, BudgetInv, RetryGrantsOne, NoRow
  <1> QED
    BY <1>1, BudgetStep, PTL DEF Spec, BudgetInv
=============================================================================
