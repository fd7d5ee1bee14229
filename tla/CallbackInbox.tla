---------------------------- MODULE CallbackInbox ----------------------------
(***************************************************************************)
(* The WeCom external-contact callbacks from the webhook inbox to their    *)
(* business result: oneshot workers claim batches under a lease, apply the *)
(* lifecycle of a contact and complete the row in one transaction, record  *)
(* a failure in a second one, and an administrator grants further attempts *)
(* (internal/platform/webhook and internal/wecom).                         *)
(*                                                                         *)
(* A committed transaction is one step.  Between its transactions a worker *)
(* holds what it claimed in memory while other workers claim, expired      *)
(* leases are taken over and administrators retry.                         *)
(***************************************************************************)
EXTENDS WebhookInbox, FiniteSets

CONSTANTS Deliveries,   \* distinct authenticated callbacks (idempotency keys)
          Event,        \* what each of them reports
          Contacts,     \* WeCom external users
          Employees,
          Customers,    \* OneID roots the identity module may name
          Workers,      \* worker processes
          Keys,         \* an administrator's idempotency keys
          MaxAttempts,  \* webhook.Ingest's default budget (8 in the code)
          Limit         \* ProcessOnce's batch size

(* Changes of an external contact: an add (full or half), an edit, a       *)
(* deletion from either side, a change the lifecycle does not support, and *)
(* a payload that decodeDelivery or lifecycleFact rejects.                 *)
Kinds == {"add", "half", "edit", "delete", "other", "invalid"}

Events ==
    [kind : Kinds, contact : Contacts, employee : Employees, at : Nat \ {0}]

(* decodeDelivery rejects a CreateTime that is not positive.               *)
ASSUME EventAssumption == Event \in [Deliveries -> Events]

ASSUME BudgetAssumption == MaxAttempts \in Nat \ {0} /\ Limit \in Nat \ {0}

entrant(d) == Event[d].kind \in {"add", "half"}

createsWhenMissing(d) == entrant(d) \/ Event[d].kind = "edit"

deletesRelationship(d) == Event[d].kind = "delete"

supported(d) == createsWhenMissing(d) \/ deletesRelationship(d)

Pairs == Contacts \X Employees

PairOf == [d \in Deliveries |-> <<Event[d].contact, Event[d].employee>>]

(* What a lifecycle callback says of its pair.                             *)
FactOf ==
    [d \in Deliveries |-> [at |-> Event[d].at, active |-> ~deletesRelationship(d)]]

VARIABLES
    inbox,     \* webhook_inbox
    batch,     \* what each worker has claimed and not yet dealt with
    receipts,  \* wecom_callback_receipts of kind processing
    retries,   \* wecom_callback_receipts of kind retry_requested
    cursor,    \* wecom_external_contact_event_cursors, by contact and employee
    rel,       \* wecom_follow_relationships, by customer and employee
    identity,  \* the roots of the active identities of a contact (identity module)
    writes     \* what the lifecycle wrote in other modules' tables

vars == <<inbox, batch, receipts, retries, cursor, rel, identity, writes>>

Outcomes == {"ignored", "conflict", "applied", "error"}

Held == [del : Deliveries, attempt : Nat, max : Nat]

Receipts ==
    [del : Deliveries, attempt : Nat, status : {"processed", "retryable", "failed"},
     outcome : Outcomes, customers : SUBSET Customers]

Retries ==
    [key : Keys, del : Deliveries, attempt : Nat, status : {"retryable", "failed"}]

(* A follow state and the callback it comes from; instant 0 and no         *)
(* callback stand for a row that does not exist.                           *)
FollowStates == [at : Nat, active : BOOLEAN, by : SUBSET Deliveries]

NoFollow == [at |-> 0, active |-> FALSE, by |-> {}]

(* Tables of other modules that the lifecycle writes in the transaction:   *)
(* Channel's entrant receipt, Customer's directory with its outbox event,  *)
(* Outbound's description job, Identity's new customer.                    *)
Writes == {"entrant", "directory", "description", "customer"}

Init ==
    /\ inbox = [d \in Deliveries |-> NoRow]
    /\ batch = [w \in Workers |-> {}]
    /\ receipts = {}
    /\ retries = {}
    /\ cursor = [p \in Pairs |-> NoFollow]
    /\ rel = [x \in Customers \X Employees |-> NoFollow]
    /\ identity \in [Contacts -> SUBSET Customers]
    /\ writes = [d \in Deliveries |-> {}]

-----------------------------------------------------------------------------
(* The order of callbacks *)

NewerBySecond(incoming, current) == incoming.at > current.at

(* compareFollowEvent: incoming is newer than current.  Current is at 0    *)
(* when it is the zero time.                                               *)
Newer(incoming, current) ==
    \/ incoming.at > current.at
    \/ incoming.at = current.at /\ ~incoming.active /\ current.active

FactBy(d) == [at |-> FactOf[d].at, active |-> FactOf[d].active, by |-> {d}]

AlwaysAdvance(current, incoming) == incoming

Advance(current, incoming) == IF Newer(incoming, current) THEN incoming ELSE current

AdmittedAnyway(d) == d \notin cursor[PairOf[d]].by

(* AdmitExternalContactEvent: neither the callback the cursor stands at    *)
(* nor a stale one; an equivalent one is admitted and rewrites nothing.    *)
Admitted(d) ==
    LET current == cursor[PairOf[d]]
    IN  d \notin current.by /\ ~Newer(current, FactBy(d))

-----------------------------------------------------------------------------
(* The lifecycle of an external contact: ExternalContactLifecycle          *)

(* ProcessWithin, cut short: an unsupported or a late callback.            *)
Ignores(d, outcome, customers) ==
    /\ ~supported(d) \/ ~Admitted(d)
    /\ outcome = "ignored"
    /\ customers = {}
    /\ UNCHANGED <<cursor, rel, identity, writes>>

(* The admission is kept although no customer is known for the contact.    *)
Unmatched(d, outcome, customers) ==
    /\ supported(d)
    /\ Admitted(d)
    /\ identity[Event[d].contact] = {}
    /\ ~createsWhenMissing(d)
    /\ outcome = "ignored"
    /\ customers = {}
    /\ cursor' = [cursor EXCEPT ![PairOf[d]] = Advance(@, FactBy(d))]
    /\ UNCHANGED <<rel, identity, writes>>

(* Several roots: no relationship, only an isolated entrant receipt.       *)
Conflicts(d, outcome, customers) ==
    /\ supported(d)
    /\ Admitted(d)
    /\ \E j, k \in identity[Event[d].contact] : j # k
    /\ outcome = "conflict"
    /\ customers = {}
    /\ cursor' = [cursor EXCEPT ![PairOf[d]] = Advance(@, FactBy(d))]
    /\ writes' = [writes EXCEPT ![d] = @ \cup (IF entrant(d) THEN {"entrant"} ELSE {})]
    /\ UNCHANGED <<rel, identity>>

(* resolveCustomer: the customer found, or one provisioned.                *)
Resolves(d, k) ==
    \/ /\ identity[Event[d].contact] = {k}
       /\ UNCHANGED identity
    \/ /\ identity[Event[d].contact] = {}
       /\ createsWhenMissing(d)
       /\ identity' = [identity EXCEPT ![Event[d].contact] = {k}]

(* What a callback with a customer writes elsewhere.                       *)
Written(d) ==
    (IF deletesRelationship(d) THEN {} ELSE {"directory"})
    \cup (IF entrant(d) THEN {"entrant"} ELSE {})
    \cup (IF Event[d].kind = "add" THEN {"description"} ELSE {})
    \cup (IF identity[Event[d].contact] = {} THEN {"customer"} ELSE {})

Applies(d, outcome, customers) ==
    /\ supported(d)
    /\ Admitted(d)
    /\ outcome = "applied"
    /\ \E k \in Customers :
          /\ Resolves(d, k)
          /\ customers = {k}
          /\ rel' = [rel EXCEPT ![<<k, Event[d].employee>>] = Advance(@, FactBy(d))]
    /\ cursor' = [cursor EXCEPT ![PairOf[d]] = Advance(@, FactBy(d))]
    /\ writes' = [writes EXCEPT ![d] = @ \cup Written(d)]

ProcessWithin(d, outcome, customers) ==
    \/ Ignores(d, outcome, customers)
    \/ Unmatched(d, outcome, customers)
    \/ Conflicts(d, outcome, customers)
    \/ Applies(d, outcome, customers)

-----------------------------------------------------------------------------
(* The inbox and its workers *)

(* webhook.Service.Ingest of a new callback; a redelivery finds the row    *)
(* and changes nothing.                                                    *)
Ingest(d) ==
    /\ inbox[d].status = "absent"
    /\ inbox' = [inbox EXCEPT ![d] = ReceivedRow(MaxAttempts)]
    /\ UNCHANGED <<batch, receipts, retries, cursor, rel, identity, writes>>

(* ProcessOnce claims its batch: at most Limit candidates, fewer where     *)
(* rows are locked by others (SKIP LOCKED).                                *)
ClaimBatch(w, S) ==
    /\ batch[w] = {}
    /\ S # {} /\ Cardinality(S) <= Limit
    /\ \A d \in S : Claimable(inbox[d])
    /\ inbox' = [d \in Deliveries |-> IF d \in S THEN ClaimedRow(inbox[d]) ELSE inbox[d]]
    /\ batch' = [batch EXCEPT ![w] =
                    {[del |-> d, attempt |-> inbox'[d].attempts, max |-> inbox'[d].max] : d \in S}]
    /\ UNCHANGED <<receipts, retries, cursor, rel, identity, writes>>

(* finalize: AppendProcessing, the audit event and Complete.  A receipt of *)
(* the same attempt must be the same, and the row must still be this       *)
(* attempt's.                                                              *)
finalize(h, receipt) ==
    /\ OwnsRow(inbox[h.del], h.attempt)
    /\ \A r \in receipts : r.del = h.del /\ r.attempt = h.attempt => r = receipt
    /\ receipts' = receipts \cup {receipt}
    /\ inbox' = [inbox EXCEPT ![h.del] = CompletedRow(@, receipt.status)]

(* The first transaction of processDelivery: lifecycle and completion      *)
(* commit together.                                                        *)
ProcessDelivery(w, h) ==
    /\ h \in batch[w]
    /\ Event[h.del].kind # "invalid"
    /\ \E outcome \in Outcomes, customers \in SUBSET Customers :
          /\ ProcessWithin(h.del, outcome, customers)
          /\ finalize(h, [del |-> h.del, attempt |-> h.attempt, status |-> "processed",
                          outcome |-> outcome, customers |-> customers])
    /\ batch' = [batch EXCEPT ![w] = @ \ {h}]
    /\ UNCHANGED retries

FailedTerminalStatus(h) ==
    IF Event[h.del].kind = "invalid" \/ h.attempt >= h.max THEN "failed_terminal" ELSE "retryable"

(* The status of a failure, from the delivery as it was claimed.           *)
FailureStatus(h) ==
    IF Event[h.del].kind = "invalid" \/ h.attempt >= h.max THEN "failed" ELSE "retryable"

(* The first transaction failed, for good or not, and was rolled back; the *)
(* second records it.                                                      *)
RecordFailure(w, h) ==
    /\ h \in batch[w]
    /\ finalize(h, [del |-> h.del, attempt |-> h.attempt, status |-> FailureStatus(h),
                    outcome |-> "error", customers |-> {}])
    /\ batch' = [batch EXCEPT ![w] = @ \ {h}]
    /\ UNCHANGED <<retries, cursor, rel, identity, writes>>

(* The process dies, or processDelivery returns an error because a         *)
(* compare-and-set was lost or the second transaction failed: the rest of  *)
(* the batch is not looked at.                                             *)
AbandonBatch(w) ==
    /\ batch[w] # {}
    /\ batch' = [batch EXCEPT ![w] = {}]
    /\ UNCHANGED <<inbox, receipts, retries, cursor, rel, identity, writes>>

(* CallbackAdminHandler.retry: BeginRetry and Inbox.Retry in one           *)
(* transaction.  A used key is answered from its receipt or refused.       *)
AdminRetry(key, r) ==
    /\ \A s \in retries : s.key # key
    /\ r \in receipts /\ r.status \in {"retryable", "failed"}
    /\ RetryMatches(inbox[r.del], r.attempt, r.status)
    /\ retries' = retries \cup
          {[key |-> key, del |-> r.del, attempt |-> r.attempt, status |-> r.status]}
    /\ inbox' = [inbox EXCEPT ![r.del] = RetriedRow(@)]
    /\ UNCHANGED <<batch, receipts, cursor, rel, identity, writes>>

(* Time: a lease of one minute runs out, a delay of one minute is over.    *)
LeaseExpires(d) ==
    /\ inbox[d].lease = "active"
    /\ inbox' = [inbox EXCEPT ![d].lease = "expired"]
    /\ UNCHANGED <<batch, receipts, retries, cursor, rel, identity, writes>>

BecomesDue(d) ==
    /\ inbox[d].status = "retryable"
    /\ ~inbox[d].due
    /\ inbox' = [inbox EXCEPT ![d].due = TRUE]
    /\ UNCHANGED <<batch, receipts, retries, cursor, rel, identity, writes>>

(* The identity module binds, revokes, merges or finds a conflict.         *)
IdentityChanges(c) ==
    /\ identity' \in {[identity EXCEPT ![c] = K] : K \in SUBSET Customers}
    /\ UNCHANGED <<inbox, batch, receipts, retries, cursor, rel, writes>>

Next ==
    \/ \E d \in Deliveries : Ingest(d) \/ LeaseExpires(d) \/ BecomesDue(d)
    \/ \E w \in Workers :
          \/ \E S \in SUBSET Deliveries : ClaimBatch(w, S)
          \/ \E h \in batch[w] : ProcessDelivery(w, h) \/ RecordFailure(w, h)
          \/ AbandonBatch(w)
    \/ \E key \in Keys, r \in receipts : AdminRetry(key, r)
    \/ \E c \in Contacts : IdentityChanges(c)

Spec == Init /\ [][Next]_vars

(* The worker's timer fires every 30 seconds and Claim takes the oldest    *)
(* candidates first, so every candidate's turn comes; a worker process     *)
(* works through its batch or ends; time passes.                           *)
Fairness ==
    /\ \A d \in Deliveries :
          /\ WF_vars(\E w \in Workers, S \in SUBSET Deliveries :
                        d \in S /\ ClaimBatch(w, S))
          /\ WF_vars(LeaseExpires(d))
          /\ WF_vars(BecomesDue(d))
    /\ \A w \in Workers :
          WF_vars(\/ \E h \in batch[w] : ProcessDelivery(w, h) \/ RecordFailure(w, h)
                  \/ AbandonBatch(w))

FairSpec == Spec /\ Fairness

-----------------------------------------------------------------------------
(* Properties *)

(* Every variable has the shape of its table or of the processor's memory; *)
(* in particular no receipt has a status the administrator's page lacks.   *)
TypeOK ==
    /\ inbox \in [Deliveries -> Rows]
    /\ batch \in [Workers -> SUBSET Held]
    /\ receipts \subseteq Receipts
    /\ retries \subseteq Retries
    /\ cursor \in [Pairs -> FollowStates]
    /\ rel \in [Customers \X Employees -> FollowStates]
    /\ identity \in [Contacts -> SUBSET Customers]
    /\ writes \in [Deliveries -> SUBSET Writes]

Processed(d) == \E r \in receipts : r.del = d /\ r.status = "processed"

(* A callback's lifecycle commits at most once, however often it was       *)
(* claimed, taken over and retried (the compare-and-set of Complete inside *)
(* the lifecycle's transaction), and then the row is closed.               *)
AppliedOnce ==
    \A r, s \in receipts :
        r.status = "processed" /\ s.del = r.del =>
            /\ s.status = "processed" => s = r
            /\ s.attempt <= r.attempt
            /\ inbox[r.del].status = "processed"
            /\ inbox[r.del].attempts = r.attempt

(* A row and its receipts tell the same story: a settled attempt has       *)
(* exactly its receipt, an attempt under way has none, and a row reopened  *)
(* after a failure has the administrator's receipt (finalize, BeginRetry). *)
StatusIsReceipted ==
    \A d \in Deliveries :
        LET row == inbox[d]
            Told(status) ==
                \E r \in receipts :
                    r.del = d /\ r.attempt = row.attempts /\ r.status = status
            Reopened ==
                \E s \in retries :
                    s.del = d /\ s.attempt = row.attempts /\ s.status = "failed"
        IN  /\ row.status \in {"processed", "failed"} => Told(row.status)
            /\ row.status = "retryable" => Told("retryable") \/ (Told("failed") /\ Reopened)
            /\ row.status = "processing" =>
                  \A r \in receipts : r.del = d => r.attempt < row.attempts

(* The budget only grows by what administrators granted: each retry is     *)
(* worth one attempt (webhook.Retry's promise).                            *)
RetryGrantsOne ==
    \A d \in Deliveries :
        /\ inbox[d].attempts <= inbox[d].max
        /\ inbox[d].max <= MaxAttempts + Cardinality({s \in retries : s.del = d})

(* v is the latest of the facts F, and nothing if there are none.          *)
LatestOf(F, v) ==
    /\ \A f \in F : ~Newer(f, v)
    /\ IF F = {} THEN v = NoFollow ELSE v \in F

(* The facts about a customer and an employee that committed callbacks     *)
(* applied.                                                                *)
AppliedTo(k, e) ==
    {FactBy(r.del) : r \in {r \in receipts :
        r.outcome = "applied" /\ k \in r.customers /\ Event[r.del].employee = e}}

(* A relationship is what the latest callback applied to that customer     *)
(* says, whichever contact it was about and in whatever order the          *)
(* callbacks were processed (apply with compareFollowEvent).               *)
RelationshipIsLatest ==
    \A k \in Customers, e \in Employees : LatestOf(AppliedTo(k, e), rel[<<k, e>>])

(* No ghosts: a callback creates a customer, an entrant or a directory     *)
(* entry only if no callback about the same contact and employee that      *)
(* beats it has been processed before (AdmitExternalContactEvent keeps     *)
(* deletions of unknown contacts for this purpose).                        *)
NoGhosts ==
    [][\A d, e \in Deliveries :
          /\ writes'[d] # writes[d]
          /\ Processed(e) /\ supported(e) /\ PairOf[e] = PairOf[d]
          => ~Newer(FactBy(e), FactBy(d))]_vars

Ledger ==
    INSTANCE FollowLedger WITH
        Lifecycle <- {d \in Deliveries : supported(d)},
        settled <- {d \in Deliveries : inbox[d].status = "processed"},
        following <- [p \in Pairs |-> [at |-> cursor[p].at, active |-> cursor[p].active]]

(* The inbox implements the ledger: callbacks settle once and for ever,    *)
(* and the cursors depend on which callbacks were settled, not on their    *)
(* order.                                                                  *)
ImplementsLedger == Ledger!LedgerSpec

(* Two callbacks of the same second are not ordered by guessing: a         *)
(* relationship is never rewritten at the instant it stands at, since      *)
(* equal cursors fail closed (ApplyCallbackEvent's comment).               *)
EqualCursorsFailClosed ==
    [][\A x \in Customers \X Employees :
          rel'[x] # rel[x] => rel'[x].at # rel[x].at]_vars

(* The attempts are used up and the last of them ended without a record.   *)
Stranded(d) ==
    /\ inbox[d].status = "processing"
    /\ inbox[d].lease = "expired"
    /\ inbox[d].attempts >= inbox[d].max

(* Every callback in the inbox comes to a recorded end, or is stranded on  *)
(* its last attempt.                                                       *)
CallbacksSettle ==
    \A d \in Deliveries :
        inbox[d].status # "absent" ~>
            inbox[d].status \in {"processed", "failed"} \/ Stranded(d)

(* A callback whose worker is gone can be taken over once the lease has    *)
(* expired.                                                                *)
AbandonedIsTakenOver ==
    \A d \in Deliveries :
        /\ inbox[d].status = "processing"
        /\ inbox[d].lease = "expired"
        /\ \A w \in Workers : \A h \in batch[w] : h.del = d => h.attempt < inbox[d].attempts
        => Claimable(inbox[d])
=============================================================================
