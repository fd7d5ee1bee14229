---------------------------- MODULE ExternalEffects ----------------------------
(***************************************************************************)
(* The External Effects kernel (internal/externaleffects): the one place   *)
(* of the CRM from which a Provider (WeCom, WeChat Pay, Alipay, Feishu, a  *)
(* model service) is called.  An owner hands an immutable envelope to the  *)
(* kernel inside its own transaction; a River job later claims the effect, *)
(* commits the fact "attempted" with a lease and a fence, calls the        *)
(* Provider outside any transaction, and records the outcome by            *)
(* compare-and-set.  Administrators cancel, retry and reconcile.           *)
(*                                                                         *)
(* One action is one PostgreSQL transaction, or the one Provider call made *)
(* between two of them.  An operation that returns an error, snoozes its   *)
(* job or replays an earlier receipt changes nothing and is a stuttering   *)
(* step.                                                                   *)
(***************************************************************************)
EXTENDS Naturals, FiniteSets, CompletionSinks

CONSTANTS
    Effects,         \* effect identities: one per envelope fingerprint
    Keys,            \* receipt keys (digests of Idempotency-Keys)
    Profiles,        \* [kind, lane] pairs that the effects may have
    MaxGeneration,   \* bound: generations an effect may reach through retries
    AutoRetryLimit,  \* attempts after which a lane stops retrying (5 in the code)
    PausesPastLease  \* may a worker process stall beyond its own lease?

ASSUME ProfilesAssumption == Profiles \subseteq LegalProfiles
ASSUME BoundsAssumption ==
    /\ MaxGeneration \in Nat
    /\ AutoRetryLimit \in Nat
    /\ PausesPastLease \in BOOLEAN

-----------------------------------------------------------------------------
(* Which kinds' sinks are told, and when.  A recorded outcome is announced for *)
(* every kind.                                                                 *)

\* Fault: the lease recovery forgets most of the message kinds.
StaleListForgetsMessages == {OpsKind, "outbound_media", "group_message"}

\* The list for an attempt whose lease expired.
projectsStaleAttempt ==
    {OpsKind, "group_invitation_code", "outbound_media", "wecom_tag_catalog",
     "wecom_tag_catalog_mutation", "group_message", "channel_acquisition_asset",
     "outbound_message", "automation_message", "survey_completion",
     "customer_tag_command", "customer_owner_handoff", "commerce_product_push",
     "ai_agent_generate", "ai_audience_recommend", "sidebar_jssdk_send"}

\* The list for an administrator's cancel, retry or reconcile.
ControlProjects(p) ==
    \/ p.kind \in {"wecom_tag_catalog", "wecom_tag_catalog_mutation",
                   "outbound_message", "automation_message", "ai_agent_generate",
                   "ai_audience_recommend", OpsKind, "group_invitation_code"}
    \/ MediaLane(p)

NeedsArtifact ==
    {"outbound_media", "wecom_tag_catalog", "wecom_tag_catalog_mutation",
     "channel_acquisition_asset", "channel_acquisition_link_mutation",
     "customer_owner_handoff", "ai_agent_generate", "ai_audience_recommend"}

-----------------------------------------------------------------------------
(* What a Provider adapter may answer, and how the kernel classifies it *)

\* AdapterResult with its error.  "receipt" abstracts ReceiptDigest to what the
\* kernel tells apart: malformed, the tag-catalog evidence of a completed
\* rejection, the evidence of a local refusal, and anything else.  "effect" is
\* the ground truth, which no field of the result carries: whether the Provider
\* performed the operation.
AdapterResults ==
    [err : BOOLEAN, called : BOOLEAN, real : BOOLEAN,
     completion : {"executed", "outcome_unknown", "retryable_failed",
                   "final_failed", "other"},
     receipt : {"malformed", "rejected", "local", "plain"},
     safe : BOOLEAN, artifact : BOOLEAN, effect : BOOLEAN]

\* What the adapters' own code ensures: an operation is performed only through a
\* reported call (an unclassified error counts as one), a rejection called safe to
\* retry and the tag catalogue's evidence of a rejection come only from an answer
\* with a nonzero errcode, and local evidence from before the call.  Nothing is
\* ensured of final_failed: the payment adapters say it of every answer outside
\* 2xx, a 5xx of a performed operation included, the message adapters of every
\* answer with a fail_list.  The flags are otherwise arbitrary: the kernel must cope
\* with inconsistent ones.
HonestAdapter(r) ==
    /\ r.effect => r.called
    /\ r.safe => ~r.effect
    /\ r.receipt \in {"rejected", "local"} => ~r.effect

Malformed(r) == r.receipt = "malformed" \/ (r.real /\ ~r.called)

FailClosed(r) == IF r.called THEN "outcome_unknown" ELSE "final_failed"

ProvesExecution(p, r) ==
    /\ r.completion = "executed"
    /\ r.called
    /\ r.real \/ (p.kind = "wecom_contact_description" /\ r.artifact)

AdmitsUnknown(p, r) ==
    /\ r.completion = "outcome_unknown"
    /\ r.called \/ p.kind = "sidebar_jssdk_send"

\* Fault: a retryable answer is believed although the call was made.
RetriesAfterCall(p, r) == r.completion = "retryable_failed"

AdmitsRetry(p, r) ==
    /\ r.completion = "retryable_failed"
    /\ ~r.called \/ (BoundedLane(p) /\ ~r.real /\ r.safe)

Classify(p, r) ==
    IF r.err THEN IF r.called THEN "outcome_unknown" ELSE "retryable_failed"
    ELSE IF Malformed(r) THEN FailClosed(r)
    ELSE IF ProvesExecution(p, r)
         THEN IF p.kind \in NeedsArtifact /\ ~r.artifact
              THEN "outcome_unknown" ELSE "executed"
    ELSE IF AdmitsUnknown(p, r) THEN "outcome_unknown"
    ELSE IF AdmitsRetry(p, r) THEN "retryable_failed"
    ELSE IF r.completion = "final_failed" THEN "final_failed"
    ELSE FailClosed(r)

\* Fault: the adapter's receipt is stored unchecked.
UncheckedEvidence(p, r) == r.receipt

\* The receipt written on the attempt: the adapter's own when its completion
\* was believed, otherwise one the kernel derives.  Only the tag-catalogue retry
\* ever reads it back, so the other kinds' receipts are not told apart.
Evidence(p, r) ==
    IF /\ ~r.err /\ ~Malformed(r) /\ r.completion = Classify(p, r)
       /\ p.kind = "wecom_tag_catalog_mutation"
    THEN r.receipt ELSE "plain"

Proofs == {"rejected", "local", "plain"}

Answers ==
    [next : Outcomes, called : BOOLEAN, real : BOOLEAN, artifact : BOOLEAN,
     proof : Proofs, effect : BOOLEAN]

\* Everything RunAttempt can carry from the Provider boundary to its second
\* transaction.  A nil adapter (provider disabled) is the answer final_failed,
\* not called, with local evidence.  Sinks read the artifact of an executed
\* result only.
AnswersOf ==
    [p \in Profiles |->
        {[next |-> Classify(p, r), called |-> r.called, real |-> r.real,
          artifact |-> r.artifact /\ Classify(p, r) = "executed",
          proof |-> Evidence(p, r), effect |-> r.effect] :
            r \in {q \in AdapterResults : HonestAdapter(q)}}]

NoAnswer == [next |-> "outcome_unknown", called |-> FALSE, real |-> FALSE,
             artifact |-> FALSE, proof |-> "plain", effect |-> FALSE]

-----------------------------------------------------------------------------
VARIABLES
    profile,      \* [Effects -> Profiles], fixed: kind and lane of the envelope
    state,        \* external_effects.state
    generation,   \* external_effects.generation
    attemptCount, \* external_effects.attempt_count
    leaseFence,   \* external_effects.lease_fence
    lease,        \* external_effects.lease_expires_at against the database clock
    attempts,     \* [Effects -> set of external_effect_attempts rows]
    jobs,         \* River jobs not yet finished: <<effect, generation>>
    discarded,    \* the jobs River gave up after their last failed run
    receipts,     \* external_effect_operation_receipts: [op, eff, key]
    inflight,     \* RunAttempt calls between their two transactions
    owner,        \* what the owning domain was last told of the effect
    delivered     \* ghost: times the Provider performed the operation

vars == <<profile, state, generation, attemptCount, leaseFence, lease, attempts,
          jobs, discarded, receipts, inflight, owner, delivered>>

Rows == [number : Nat, generation : Nat, fence : Nat, state : States,
         called : BOOLEAN, real : BOOLEAN,
         proof : Proofs]

\* A row after an UPDATE of its outcome columns, a claim after the call returned.
Settled(r, s, called, real, proof) ==
    [number |-> r.number, generation |-> r.generation, fence |-> r.fence,
     state |-> s, called |-> called, real |-> real, proof |-> proof]

Returned(c, a) ==
    [eff |-> c.eff, gen |-> c.gen, num |-> c.num, fence |-> c.fence,
     phase |-> "returned", ans |-> a]

Ops == {"accept", "cancel", "retry", "reconcile", "complete"}

Claims == [eff : Effects, gen : Nat, num : Nat, fence : Nat,
           phase : {"claimed", "returned"}, ans : Answers]

Init ==
    /\ profile \in [Effects -> Profiles]
    /\ state = [e \in Effects |-> "absent"]
    /\ generation = [e \in Effects |-> 0]
    /\ attemptCount = [e \in Effects |-> 0]
    /\ leaseFence = [e \in Effects |-> 0]
    /\ lease = [e \in Effects |-> "none"]
    /\ attempts = [e \in Effects |-> {}]
    /\ jobs = {}
    /\ discarded = {}
    /\ receipts = {}
    /\ inflight = {}
    /\ owner = [e \in Effects |-> Told("absent", 0, 0)]
    /\ delivered = [e \in Effects |-> 0]

Receipt(op, e, k) == [op |-> op, eff |-> e, key |-> k]

\* Fault: no receipt lookup, every repetition is executed.
NeverReplays(op, e, k) == TRUE

\* A control command whose receipt exists is a replay and changes nothing.
Fresh(op, e, k) == Receipt(op, e, k) \notin receipts

Record(op, e, k) == receipts' = receipts \cup {Receipt(op, e, k)}

\* Telling the owner is part of the kernel's transaction: a sink that refuses
\* the completion undoes all of it.
Tell(e, c) ==
    \E record \in CompleteEffect(profile[e], owner[e], c) :
        owner' = [owner EXCEPT ![e] = record]

\* What controlWithin says to the sink: the new state, except that on the media
\* lane everything but a reconciliation without effect is told as executed.
TellControl(e, s, artifact, g) ==
    IF ControlProjects(profile[e])
    THEN Tell(e, Completion(
            IF MediaLane(profile[e]) /\ s # "reconciled" THEN "executed" ELSE s,
            FALSE, FALSE, artifact, attemptCount[e], g))
    ELSE UNCHANGED owner

-----------------------------------------------------------------------------
(* The owner's and the administrators' operations *)

\* AcceptAndQueue: a new envelope under an unused receipt key.  A known key
\* replays (or mismatches), a known fingerprint under a new key mismatches.
AcceptAndQueue(e, k) ==
    /\ \A f \in Effects : Fresh("accept", f, k)
    /\ state[e] = "absent"
    /\ state' = [state EXCEPT ![e] = "queued"]
    /\ generation' = [generation EXCEPT ![e] = 1]
    /\ jobs' = jobs \cup {<<e, 1>>}
    /\ Record("accept", e, k)
    /\ owner' = [owner EXCEPT ![e] = Told("queued", 0, 0)]
    /\ UNCHANGED <<profile, attemptCount, leaseFence, lease, attempts,
                   discarded, inflight, delivered>>

\* controlWithin "cancel".
Cancel(e, k) ==
    /\ Fresh("cancel", e, k)
    /\ state[e] = "queued"
    /\ state' = [state EXCEPT ![e] = "cancelled"]
    /\ Record("cancel", e, k)
    /\ TellControl(e, "cancelled", FALSE, generation[e])
    /\ UNCHANGED <<profile, generation, attemptCount, leaseFence, lease,
                   attempts, jobs, discarded, inflight, delivered>>

\* CancelQueuedEffectWithin: Payment withdraws a queued split and records that
\* in its own tables in the same transaction.
CancelQueuedEffectWithin(e, k) ==
    /\ Fresh("cancel", e, k)
    /\ state[e] = "queued"
    /\ profile[e].kind = "wechat_pay_profit_sharing_order_v1"
    /\ state' = [state EXCEPT ![e] = "cancelled"]
    /\ Record("cancel", e, k)
    /\ owner' = [owner EXCEPT ![e] = Told("cancelled", 0, generation[e])]
    /\ UNCHANGED <<profile, generation, attemptCount, leaseFence, lease,
                   attempts, jobs, discarded, inflight, delivered>>

\* The part of controlWithin "retry" that opens a generation with its own job.
Requeue(e, k) ==
    /\ Fresh("retry", e, k)
    /\ generation[e] < MaxGeneration
    /\ generation' = [generation EXCEPT ![e] = @ + 1]
    /\ jobs' = jobs \cup {<<e, generation[e] + 1>>}
    /\ state' = [state EXCEPT ![e] = "queued"]
    /\ Record("retry", e, k)
    /\ TellControl(e, "queued", FALSE, generation[e] + 1)
    /\ UNCHANGED <<profile, attemptCount, leaseFence, lease, attempts,
                   discarded, inflight, delivered>>

\* Fault: an unknown outcome may be retried.
RetriesUnknown(e) == state[e] \in {"retryable_failed", "outcome_unknown"}

MayRetry(e) == state[e] = "retryable_failed"

Retry(e, k) == MayRetry(e) /\ Requeue(e, k)

\* Fault: a failure the adapter calls final is taken for one without effect.
ReopensAnyFailure(r) == r.state \in {"retryable_failed", "final_failed"}

safeTagCatalogRetryAttempt(r) ==
    /\ r.state # "attempted"
    /\ ~r.real
    /\ \/ r.state = "retryable_failed" /\ ~r.called
       \/ r.state = "final_failed" /\ r.proof = "rejected"
       \/ r.state = "final_failed" /\ ~r.called /\ r.proof = "local"

\* RetryTagCatalogMutationWithin: only a history without a hole, every attempt
\* of which provably did nothing, reopens a failed catalogue mutation.
RetryTagCatalogMutationWithin(e, k) ==
    /\ profile[e].kind = "wecom_tag_catalog_mutation"
    /\ state[e] \in {"final_failed", "retryable_failed"}
    /\ attemptCount[e] >= 1
    /\ {r.number : r \in attempts[e]} = 1 .. attemptCount[e]
    /\ \A r \in attempts[e] : safeTagCatalogRetryAttempt(r)
    /\ Requeue(e, k)

\* The attempt row that controlWithin "reconcile" closes.
UnknownRow(e, r) ==
    /\ r.generation = generation[e]
    /\ r.fence = leaseFence[e]
    /\ r.state = "outcome_unknown"

CloseUnknown(e, k) ==
    /\ Fresh("reconcile", e, k)
    /\ state[e] = "outcome_unknown"
    /\ \E r \in attempts[e] :
        /\ UnknownRow(e, r)
        /\ \A q \in attempts[e] : UnknownRow(e, q) => q = r
        /\ attempts' = [attempts EXCEPT ![e] =
                (@ \ {r}) \cup {Settled(r, "reconciled", r.called, r.real, r.proof)}]
    /\ state' = [state EXCEPT ![e] = "reconciled"]
    /\ Record("reconcile", e, k)
    /\ UNCHANGED <<profile, generation, attemptCount, leaseFence, lease, jobs,
                   discarded, inflight, delivered>>

\* Reconcile, the administrator's unfenced command.  On the media lane it states
\* the outcome: no effect, or a confirmed one with its artifact.
Reconcile(e, k) ==
    /\ CloseUnknown(e, k)
    /\ \/ TellControl(e, "reconciled", FALSE, generation[e])
       \/ MediaLane(profile[e]) /\ TellControl(e, "executed", TRUE, generation[e])

MessageKinds == {"outbound_message", "automation_message"}
ChannelAssetKinds == {"channel_acquisition_asset", "channel_acquisition_link_mutation"}

\* ReconcileWithin, ReconcileEffectWithin, ReconcileUnknownWithin: an owner that
\* shows the effect as unknown reconciles it inside its own transaction.
\* Messages are recorded by their sink, the others by the owner itself.
ReconcileByOwner(e, k) ==
    /\ profile[e].kind \in MessageKinds \cup ChannelAssetKinds
            \cup {"group_message", "outbound_media"}
    /\ ~MediaLane(profile[e])
    /\ owner[e].state = "outcome_unknown"
    \* The fenced callers echo the generation, fence and lease they read, and the
    \* lease must have expired; the two channel callers send none of them.
    /\ profile[e].kind \notin ChannelAssetKinds =>
            leaseFence[e] >= 1 /\ lease[e] = "expired"
    /\ CloseUnknown(e, k)
    /\ \/ /\ profile[e].kind \in MessageKinds
          /\ TellControl(e, "reconciled", FALSE, generation[e])
       \/ /\ profile[e].kind \notin MessageKinds
          /\ owner' = [owner EXCEPT ![e] =
                Told("reconciled", attemptCount[e], generation[e])]
       \/ /\ profile[e].kind = "channel_acquisition_asset"  \* not applied
          /\ owner' = [owner EXCEPT ![e] =
                Told("final_failed", attemptCount[e], generation[e])]

\* CompleteClientEffectWithin: the browser reports on its own JSSDK send; the
\* outbound caller records the outcome in the same transaction.
CompleteClientEffectWithin(e, k) ==
    /\ profile[e].kind = "sidebar_jssdk_send"
    /\ Fresh("complete", e, k)
    /\ state[e] = "queued"
    /\ \E s \in {"executed", "outcome_unknown", "final_failed"} :
        /\ attempts' = [attempts EXCEPT ![e] = @ \cup
                {[number |-> attemptCount[e] + 1, generation |-> generation[e],
                  fence |-> 0, state |-> s, called |-> TRUE,
                  real |-> s # "final_failed", proof |-> "plain"]}]
        /\ state' = [state EXCEPT ![e] = s]
        /\ owner' = [owner EXCEPT ![e] = Told(s, attemptCount[e] + 1, generation[e])]
    /\ attemptCount' = [attemptCount EXCEPT ![e] = @ + 1]
    /\ Record("complete", e, k)
    /\ UNCHANGED <<profile, generation, leaseFence, lease, jobs, discarded,
                   inflight, delivered>>

-----------------------------------------------------------------------------
(* RunAttempt: the worker *)

\* RunAttempt's first transaction on a queued effect: the job of the current
\* generation commits "attempted", a fence and a lease before anything is sent.
Claim(e) ==
    /\ <<e, generation[e]>> \in jobs
    /\ state[e] = "queued"
    /\ state' = [state EXCEPT ![e] = "attempted"]
    /\ attemptCount' = [attemptCount EXCEPT ![e] = @ + 1]
    /\ leaseFence' = [leaseFence EXCEPT ![e] = @ + 1]
    /\ lease' = [lease EXCEPT ![e] = "active"]
    /\ attempts' = [attempts EXCEPT ![e] = @ \cup
            {[number |-> attemptCount[e] + 1, generation |-> generation[e],
              fence |-> leaseFence[e] + 1, state |-> "attempted",
              called |-> FALSE, real |-> FALSE, proof |-> "plain"]}]
    /\ inflight' = inflight \cup
            {[eff |-> e, gen |-> generation[e], num |-> attemptCount[e] + 1,
              fence |-> leaseFence[e] + 1, phase |-> "claimed",
              ans |-> NoAnswer]}
    /\ UNCHANGED <<profile, generation, jobs, discarded, receipts, owner,
                   delivered>>

\* Fault: the worker timeout does not stay below the lease.
IgnoresTimeout(c) == TRUE

\* Worker.Timeout (4m30s) cancels the call's context before the five-minute
\* lease runs out, unless the process itself stalls.
WithinTimeout(c) == PausesPastLease \/ lease[c.eff] = "active"

\* The Provider call, made outside any transaction.
CallProvider(c) ==
    /\ c.phase = "claimed"
    /\ WithinTimeout(c)
    /\ \E a \in AnswersOf[profile[c.eff]] :
        /\ inflight' = (inflight \ {c}) \cup {Returned(c, a)}
        /\ delivered' = [delivered EXCEPT ![c.eff] =
                IF a.effect THEN @ + 1 ELSE @]
    /\ UNCHANGED <<profile, state, generation, attemptCount, leaseFence, lease,
                   attempts, jobs, discarded, receipts, owner>>

\* The two compare-and-sets of RunAttempt's second transaction.
OwnsRow(c, r) ==
    /\ r.number = c.num
    /\ r.generation = c.gen
    /\ r.fence = c.fence
    /\ r.state = "attempted"

OwnsEffect(c) ==
    /\ generation[c.eff] = c.gen
    /\ leaseFence[c.eff] = c.fence
    /\ state[c.eff] = "attempted"

\* Fault: the bounded lanes also requeue an unknown outcome.
AutoRetriesUnknown(c) ==
    /\ BoundedLane(profile[c.eff])
    /\ c.ans.next \in {"retryable_failed", "outcome_unknown"}
    /\ c.num < AutoRetryLimit

AutoRetries(c) ==
    /\ \/ BoundedLane(profile[c.eff])
       \/ /\ profile[c.eff].kind = OpsKind
          /\ effectQueue(profile[c.eff]) = "ops_notification"
          /\ ~c.ans.called
    /\ c.ans.next = "retryable_failed"
    /\ c.num < AutoRetryLimit

\* What the second transaction tells the owner.
Announced(c) ==
    Completion(IF AutoRetries(c) THEN "queued" ELSE c.ans.next, c.ans.called,
               c.ans.real, c.ans.artifact, c.num, c.gen)

\* The second transaction: attempt row, effect row and owner projection
\* together.  An automatic retry keeps the generation and snoozes its job.
RecordOutcome(c) ==
    LET e         == c.eff
        persisted == IF AutoRetries(c) THEN "queued" ELSE c.ans.next
    IN  /\ c.phase = "returned"
        /\ OwnsEffect(c)
        /\ \E r \in attempts[e] :
            /\ OwnsRow(c, r)
            /\ attempts' = [attempts EXCEPT ![e] = (@ \ {r}) \cup
                    {Settled(r, c.ans.next, c.ans.called, c.ans.real, c.ans.proof)}]
        /\ state' = [state EXCEPT ![e] = persisted]
        /\ Tell(e, Announced(c))
        /\ inflight' = inflight \ {c}
        /\ UNCHANGED <<profile, generation, attemptCount, leaseFence, lease,
                       jobs, discarded, receipts, delivered>>

\* RunAttempt ends without a second commit: the process crashed, the context
\* timed out, the completion sink refused or failed and the transaction rolled back, or
\* the compare-and-set found the effect taken over (ErrTransition).
Abandon(c) ==
    /\ inflight' = inflight \ {c}
    /\ UNCHANGED <<profile, state, generation, attemptCount, leaseFence, lease,
                   attempts, jobs, discarded, receipts, owner, delivered>>

\* Time passes the lease.
LeaseExpires(e) ==
    /\ lease[e] = "active"
    /\ lease' = [lease EXCEPT ![e] = "expired"]
    /\ UNCHANGED <<profile, state, generation, attemptCount, leaseFence,
                   attempts, jobs, discarded, receipts, inflight, owner,
                   delivered>>

\* Fault: a vanished worker's effect is simply queued again.
StaleRequeued == "queued"

\* What an attempt becomes when its worker has vanished.
StaleState == "outcome_unknown"

\* What the owner is told of it.
StaleCompletion(e) ==
    Completion(StaleState, profile[e].kind # "sidebar_jssdk_send", FALSE, FALSE,
               attemptCount[e], generation[e])

\* RunAttempt on an attempted effect whose lease has expired by both clocks:
\* the outcome is unknown and nothing is called again.
RecoverStale(e) ==
    /\ <<e, generation[e]>> \in jobs
    /\ state[e] = "attempted"
    /\ lease[e] = "expired"
    /\ \E r \in attempts[e] :
        /\ r.number = attemptCount[e] /\ r.generation = generation[e]
        /\ r.fence = leaseFence[e] /\ r.state = "attempted"
        /\ attempts' = [attempts EXCEPT ![e] =
                (@ \ {r}) \cup {Settled(r, StaleState, r.called, r.real, r.proof)}]
    /\ state' = [state EXCEPT ![e] = StaleState]
    /\ IF profile[e].kind \in projectsStaleAttempt
       THEN Tell(e, StaleCompletion(e))
       ELSE UNCHANGED owner
    /\ UNCHANGED <<profile, generation, attemptCount, leaseFence, lease, jobs,
                   discarded, receipts, inflight, delivered>>

\* Fault: a job that finds its effect attempted gives up.
OnlyQueuedMatters(e, g) == g # generation[e] \/ state[e] # "queued"

\* RunAttempt returns nil for a job of an older generation or of an effect that
\* is neither queued nor attempted: River forgets the job.
NothingToDo(e, g) ==
    g # generation[e] \/ state[e] \notin {"queued", "attempted"}

RetireJob(e, g) ==
    /\ <<e, g>> \in jobs
    /\ NothingToDo(e, g)
    /\ jobs' = jobs \ {<<e, g>>}
    /\ UNCHANGED <<profile, state, generation, attemptCount, leaseFence, lease,
                   attempts, discarded, receipts, inflight, owner, delivered>>

\* River discards a job whose run failed for the last time (25 runs by default;
\* a snooze is not one): a database or Preflight error, a refusing sink, a crash.
\* The failed runs are not counted, so any run may be the last.
DiscardJob(e, g) ==
    /\ <<e, g>> \in jobs
    /\ jobs' = jobs \ {<<e, g>>}
    /\ discarded' = discarded \cup {<<e, g>>}
    /\ UNCHANGED <<profile, state, generation, attemptCount, leaseFence, lease,
                   attempts, receipts, inflight, owner, delivered>>

-----------------------------------------------------------------------------
Control(e, k) ==
    \/ AcceptAndQueue(e, k)
    \/ Cancel(e, k)
    \/ CancelQueuedEffectWithin(e, k)
    \/ Retry(e, k)
    \/ RetryTagCatalogMutationWithin(e, k)
    \/ Reconcile(e, k)
    \/ ReconcileByOwner(e, k)
    \/ CompleteClientEffectWithin(e, k)

Next ==
    \/ \E e \in Effects, k \in Keys : Control(e, k)
    \/ \E e \in Effects : Claim(e)
    \/ \E c \in inflight : CallProvider(c)
    \/ \E c \in inflight : RecordOutcome(c)
    \/ \E c \in inflight : Abandon(c)
    \/ \E e \in Effects : LeaseExpires(e)
    \/ \E e \in Effects : RecoverStale(e)
    \/ \E j \in jobs : RetireJob(j[1], j[2])
    \/ \E j \in jobs : DiscardJob(j[1], j[2])

Spec == Init /\ [][Next]_vars

\* Time passes, and River runs a job again after a failed run, a snooze or a crash
\* of its client, until it is done or discarded: a job that is never discarded has
\* fewer failed runs than River allows, so a transaction that stays possible is
\* made in the end.  Nothing is assumed of a worker once it has claimed: it may
\* answer, fail or vanish.
Fairness ==
    \A e \in Effects :
        /\ WF_vars(Claim(e))
        /\ WF_vars(LeaseExpires(e))
        /\ WF_vars(RecoverStale(e))

FairSpec == Spec /\ Fairness

-----------------------------------------------------------------------------
(* The contract that the kernel implements *)

PhaseOf ==
    [s \in States |->
        CASE s = "absent" -> "absent"
          [] s = "queued" -> "open"
          [] s = "attempted" -> "running"
          [] s = "executed" -> "succeeded"
          [] s = "outcome_unknown" -> "ambiguous"
          [] s = "reconciled" -> "resolved"
          [] s = "retryable_failed" -> "failed"
          [] s = "final_failed" -> "closed"
          [] s = "cancelled" -> "withdrawn"]

Contract == INSTANCE EffectContract WITH
    LateDelivery <- PausesPastLease,
    phase <- [e \in Effects |-> PhaseOf[state[e]]],
    done <- delivered

\* The kernel implements its contract: every transaction and every Provider call
\* is a step of EffectContract or leaves the contract's state alone.
ImplementsContract == Contract!Spec

-----------------------------------------------------------------------------
(* Properties *)

\* Every variable has its type.
TypeOK ==
    /\ profile \in [Effects -> Profiles]
    /\ state \in [Effects -> States]
    /\ generation \in [Effects -> Nat]
    /\ attemptCount \in [Effects -> Nat]
    /\ leaseFence \in [Effects -> Nat]
    /\ lease \in [Effects -> {"none", "active", "expired"}]
    /\ attempts \in [Effects -> SUBSET Rows]
    /\ jobs \subseteq Effects \X Nat
    /\ discarded \subseteq Effects \X Nat
    /\ receipts \subseteq [op : Ops, eff : Effects, key : Keys]
    /\ inflight \subseteq Claims
    /\ owner \in [Effects -> OwnerRecords]
    /\ delivered \in [Effects -> Nat]

\* At most once: however calls fail, leases expire, jobs are redelivered and
\* administrators retry, the Provider performs an effect at most one time
\* (RunAttempt's classification, leases and compare-and-sets together).
AtMostOnceDelivery == \A e \in Effects : delivered[e] <= 1

\* What the kernel may still call was not performed: an effect that waits for a
\* call, was withdrawn, or failed in a way that Retry, the automatic retry or the
\* tag-catalogue retry takes up again.  That makes those retries safe although the
\* adapters' final_failed may be said of a performed operation: a final failure is
\* reopened only on the attempts' own evidence.
NotDoneStates == {"absent", "queued", "retryable_failed", "cancelled"}
ProvenFailed(e) ==
    /\ state[e] = "final_failed"
    /\ \A r \in attempts[e] : safeTagCatalogRetryAttempt(r)
NotDoneMeansUndelivered ==
    \A e \in Effects :
        state[e] \in NotDoneStates \/ ProvenFailed(e) => delivered[e] = 0

\* One worker at a time: two RunAttempt calls are never between their two
\* transactions on the same effect, and one that is there either still owns the
\* effect or has outlived its lease and was fenced off for good.
SingleFlight ==
    /\ \A c, d \in inflight : c.eff = d.eff => c = d
    /\ \A c \in inflight :
          \/ OwnsEffect(c)
          \/ /\ state[c.eff] \in {"outcome_unknown", "reconciled"}
             /\ lease[c.eff] = "expired"

\* What makes at-most-once inductive: a worker that has not called yet, or that
\* came back with a verdict or evidence on which the kernel retries, is on an
\* effect that was not performed.
Undone(a) == a.next = "retryable_failed" \/ a.proof # "plain"
PendingWorkUndelivered ==
    \A c \in inflight :
        c.phase = "claimed" \/ Undone(c.ans) => delivered[c.eff] = 0

DeliveryInv ==
    /\ TypeOK
    /\ SingleFlight
    /\ AtMostOnceDelivery
    /\ NotDoneMeansUndelivered
    /\ PendingWorkUndelivered

\* An unknown outcome can always be closed: the row that an administrator's
\* Reconcile looks up by generation and fence exists, is the only one, and the
\* owner's sink takes the verdict - but for the kinds whose sinks know no
\* reconciliation (model generations) or want an artifact with it that the
\* command cannot carry (invitation codes).
GenerationKinds == {"ai_agent_generate", "ai_audience_recommend"}
CannotBeReconciled == GenerationKinds \cup {"group_invitation_code"}
UnknownIsReconcilable ==
    \A e \in Effects : state[e] = "outcome_unknown" =>
        /\ Cardinality({r \in attempts[e] : UnknownRow(e, r)}) = 1
        /\ ControlProjects(profile[e]) /\ profile[e].kind \notin CannotBeReconciled =>
              SinkTakes(profile[e], owner[e],
                  Completion("reconciled", FALSE, FALSE, FALSE, attemptCount[e],
                             generation[e]))

\* A retry command is applied once however often it is repeated: each generation
\* beyond the first has its own retry receipt.
GenerationsAreAuthorised ==
    \A e \in Effects : state[e] # "absent" =>
        generation[e] =
            1 + Cardinality({r \in receipts : r.op = "retry" /\ r.eff = e})

\* For the kinds whose sink hears of every change, the owner's record agrees with
\* the effect in each settled state, on every path into it - outcome, lease
\* recovery, cancel, retry, reconcile - and shows it as queued while an attempt is
\* due or running.  Only a media verdict (confirmed: executed) and an unusable model
\* output (a failure to its owner) are told differently.
OwnerAgrees ==
    \A e \in Effects : ControlProjects(profile[e]) =>
        \/ owner[e].state = state[e]
        \/ state[e] = "attempted" /\ owner[e].state = "queued"
        \/ /\ state[e] = "reconciled" /\ owner[e].state = "executed"
           /\ MediaLane(profile[e])
        \/ /\ state[e] = "executed" /\ owner[e].state = "final_failed"
           /\ profile[e].kind \in GenerationKinds

\* Once the outcome is unknown no later step calls it anything but unknown or
\* reconciled, and no attempt is ever added: not a late worker, not a retry.
AmbiguityIsFinal ==
    [][\A e \in Effects : state[e] \in {"outcome_unknown", "reconciled"} =>
          /\ state'[e] \in {state[e], "reconciled"}
          /\ attemptCount'[e] = attemptCount[e]]_vars

\* What an administrator finds out at the Provider about an unknown outcome stays
\* true: the operation is not performed after the effect became unknown.  It
\* rests on Worker.Timeout being shorter than the lease.
EvidenceIsStable ==
    [][\A e \in Effects : state[e] \in {"outcome_unknown", "reconciled"} =>
          delivered'[e] = delivered[e]]_vars

\* Every accepted effect leaves the queue, whatever becomes of its worker: a queued
\* or attempted effect eventually reaches a state that only a person moves on,
\* unless River discards its job first.  The handoff of customers is excepted by
\* name: its sink may refuse the recovery of a vanished attempt for ever (see
\* ExpiredAttemptsFailClosed).  For every other kind the recovery is never refused.
Settling(e) == state[e] \in {"queued", "attempted"}
EffectsSettle ==
    \A e \in Effects :
        (Settling(e) /\ profile[e].kind # "customer_owner_handoff")
            ~> (~Settling(e) \/ <<e, generation[e]>> \in discarded)

\* What worker.go says of the replay of a non-queued job: the recovery of an
\* expired attempt includes the owner's projection.
RecoveryIncludesProjection ==
    \A e \in Effects :
        state[e] = "outcome_unknown" => owner[e].state = "outcome_unknown"

\* What RunAttempt says of an attempt whose process died: the replay waits for the
\* original lease, then fails closed to unknown.
ExpiredAttemptsFailClosed ==
    \A e \in Effects :
        (state[e] = "attempted" /\ lease[e] = "expired")
            ~> (state[e] # "attempted" \/ <<e, generation[e]>> \in discarded)

\* What the media-preparation contract says of the Excel lane: a clear rate-limit
\* rejection backs off inside the original job, that is, the requeue that the
\* kernel decides on is one that the owner's sink takes.
RejectionsBackOff ==
    \A c \in inflight :
        c.phase = "returned" /\ OwnsEffect(c) /\ AutoRetries(c) =>
            SinkTakes(profile[c.eff], owner[c.eff], Announced(c))

=============================================================================
