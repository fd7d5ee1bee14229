------------------------- MODULE ExternalEffectsProofs -------------------------
(***************************************************************************)
(* Theorems about the External Effects kernel, for every set of effects,    *)
(* keys and profiles and every bound.                                       *)
(***************************************************************************)
EXTENDS ExternalEffects, FiniteSetTheorems, TLAPS

\* Whatever an adapter reports, the classification is one of the four outcomes
\* (RunAttempt's chain of conditions has no gap).
LEMMA ClassifyType ==
    ASSUME NEW p, NEW r \in AdapterResults
    PROVE  Classify(p, r) \in Outcomes
BY DEF Classify, FailClosed, AdapterResults, Outcomes

\* The classification never offers again what the adapter may have performed:
\* retryable_failed excludes an effect.  (final_failed does not.)
LEMMA ClassifySound ==
    ASSUME NEW p, NEW r \in AdapterResults, HonestAdapter(r),
           Classify(p, r) = "retryable_failed"
    PROVE  ~r.effect
BY DEF Classify, FailClosed, Malformed, ProvesExecution, AdmitsUnknown,
       AdmitsRetry, HonestAdapter, AdapterResults

\* The stored receipt is one of the kinds the tag-catalogue retry tells apart, and
\* only "plain" is compatible with an effect.
LEMMA EvidenceSound ==
    ASSUME NEW p, NEW r \in AdapterResults, HonestAdapter(r)
    PROVE  /\ Evidence(p, r) \in Proofs
           /\ Evidence(p, r) # "plain" => ~r.effect
BY DEF Evidence, Malformed, AdapterResults, Proofs, HonestAdapter

\* Every answer carried to the second transaction is well typed and sound.
LEMMA AnswersSound ==
    ASSUME NEW p \in Profiles, NEW a \in AnswersOf[p]
    PROVE  /\ a \in Answers
           /\ Undone(a) => ~a.effect
<1>1. PICK r \in AdapterResults :
        /\ HonestAdapter(r)
        /\ a = [next |-> Classify(p, r), called |-> r.called, real |-> r.real,
                artifact |-> r.artifact /\ Classify(p, r) = "executed",
                proof |-> Evidence(p, r), effect |-> r.effect]
  BY DEF AnswersOf
<1>2. r.called \in BOOLEAN /\ r.real \in BOOLEAN /\ r.effect \in BOOLEAN
  BY DEF AdapterResults
<1>3. a \in Answers
  BY <1>1, <1>2, ClassifyType, EvidenceSound DEF Answers
<1>4. Undone(a) => ~a.effect
  BY <1>1, ClassifySound, EvidenceSound DEF Undone
<1> QED BY <1>3, <1>4

\* Whatever a sink decides, the record it leaves behind is well typed.
LEMMA SinkRecordsType ==
    ASSUME NEW p \in Profiles, NEW own \in OwnerRecords, NEW c,
           c.state \in States, c.attempt \in Nat, c.generation \in Nat
    PROVE  CompleteEffect(p, own, c) \subseteq OwnerRecords
<1> DEFINE Left == {own, Mirror(c), Told("outcome_unknown", c.attempt, c.generation),
                    Told("attempted", c.attempt, c.generation),
                    Told("final_failed", c.attempt, c.generation)}
<1>1. Left \subseteq OwnerRecords
  BY DEF Mirror, Told, OwnerRecords, States
<1>2. p.kind \in PaymentKinds => PaymentRouter(p, own, c) \subseteq Left
  <2>1. /\ PrepaySink(own, c) \subseteq Left
        /\ RefundSink(own, c) \subseteq Left
        /\ DistributionSink(own, c) \subseteq Left
        /\ UnfreezeSink(own, c) \subseteq Left
    BY DEF PrepaySink, RefundSink, DistributionSink, UnfreezeSink, When
  <2>2. ShopRefundSink(own, c) \subseteq Left
    BY <2>1 DEF ShopRefundSink, When
  <2> HIDE DEF Left
  <2> QED BY <2>1, <2>2 DEF PaymentRouter, PaymentKinds
<1>3. p.kind \in OutboundKinds => OutboundRouter(p, own, c) \subseteq Left
  <2>1. /\ PrivateMessageSink(own, c) \subseteq Left
        /\ AutomationMessageSink(own, c) \subseteq Left
        /\ GroupMessageSink(own, c) \subseteq Left
        /\ SidebarExpirySink(own, c) \subseteq Left
        /\ CommercePushSink(own, c) \subseteq Left
        /\ SurveyCompletionSink(own, c) \subseteq Left
    BY DEF PrivateMessageSink, AutomationMessageSink, GroupMessageSink,
           SidebarExpirySink, CommercePushSink, SurveyCompletionSink, When
  <2>2. /\ MaterialSink(own, c) \subseteq Left
        /\ SidebarImageSink(own, c) \subseteq Left
        /\ InvitationCodeSink(own, c) \subseteq Left
    BY DEF MaterialSink, SidebarImageSink, InvitationCodeSink, When
  <2>3. /\ TagCatalogSink(own, c) \subseteq Left
        /\ TagMutationSink(own, c) \subseteq Left
        /\ ContactDescriptionSink(own, c) \subseteq Left
        /\ CustomerTagSink(own, c) \subseteq Left
        /\ OwnerHandoffSink(own, c) \subseteq Left
    BY DEF TagCatalogSink, TagMutationSink, ContactDescriptionSink,
           CustomerTagSink, OwnerHandoffSink, When
  <2>4. /\ EntrantActionSink(own, c) \subseteq Left
        /\ ChannelAssetSink(own, c) \subseteq Left
        /\ ChannelLinkSink(own, c) \subseteq Left
    BY DEF EntrantActionSink, ChannelAssetSink, ChannelLinkSink, When
  <2> HIDE DEF Left
  <2> QED BY <2>1, <2>2, <2>3, <2>4 DEF OutboundRouter, OutboundKinds
<1>4. /\ OpsReportSink(own, c) \subseteq Left
      /\ RecommendationSink(own, c) \subseteq Left
      /\ GenerationSink(own, c) \subseteq Left
  BY DEF OpsReportSink, RecommendationSink, GenerationSink, UsableOrNot
<1>5. p.kind \in PaymentKinds \cup OutboundKinds
                    \cup {"ai_agent_generate", "ai_audience_recommend", OpsKind}
  BY ProfilesAssumption DEF LegalProfiles, Kinds
<1> HIDE DEF Left
<1> QED BY <1>1, <1>2, <1>3, <1>4, <1>5 DEF CompleteEffect

\* So does telling the owner of an effect.
LEMMA TellType ==
    ASSUME TypeOK, NEW e \in Effects, NEW c, c.state \in States,
           c.attempt \in Nat, c.generation \in Nat, Tell(e, c)
    PROVE  owner' \in [Effects -> OwnerRecords]
<1>1. profile[e] \in Profiles /\ owner[e] \in OwnerRecords
  BY DEF TypeOK
<1>2. CompleteEffect(profile[e], owner[e], c) \subseteq OwnerRecords
  BY <1>1, SinkRecordsType
<1> QED BY <1>2 DEF Tell, TypeOK

\* And the projection of an administrator's command.
LEMMA TellControlType ==
    ASSUME TypeOK, NEW e \in Effects, NEW s \in States, NEW b, NEW g \in Nat,
           TellControl(e, s, b, g)
    PROVE  owner' \in [Effects -> OwnerRecords]
<1>1. CASE ControlProjects(profile[e])
  <2> DEFINE told == IF MediaLane(profile[e]) /\ s # "reconciled"
                     THEN "executed" ELSE s
             c == Completion(told, FALSE, FALSE, b, attemptCount[e], g)
  <2>1. c.state = told /\ c.attempt = attemptCount[e] /\ c.generation = g
    BY DEF Completion
  <2>2. told \in States /\ attemptCount[e] \in Nat
    BY DEF States, TypeOK
  <2>3. Tell(e, c)
    BY <1>1 DEF TellControl
  <2> HIDE DEF told, c
  <2> QED BY <2>1, <2>2, <2>3, TellType
<1>2. CASE ~ControlProjects(profile[e])
  BY <1>2 DEF TellControl, TypeOK
<1> QED BY <1>1, <1>2

-----------------------------------------------------------------------------
\* The initial state is well typed.
LEMMA InitType == Init => TypeOK
BY DEF Init, TypeOK, States, Told, OwnerRecords

\* Control operations keep the types.
LEMMA ControlType ==
    ASSUME TypeOK, NEW e \in Effects, NEW k \in Keys, Control(e, k)
    PROVE  TypeOK'
<1> USE DEF TypeOK
<1>1. \A op \in Ops : Receipt(op, e, k) \in [op : Ops, eff : Effects, key : Keys]
  BY DEF Receipt
<1>a. \A s \in States, n \in Nat, g \in Nat : Told(s, n, g) \in OwnerRecords
  BY DEF Told, OwnerRecords
<1>b. \A s \in States, n \in Nat, g \in Nat :
        owner' = [owner EXCEPT ![e] = Told(s, n, g)] =>
            owner' \in [Effects -> OwnerRecords]
  BY <1>a
<1>2. CASE AcceptAndQueue(e, k)
  <2>1. owner' \in [Effects -> OwnerRecords]
    BY <1>2, <1>b DEF AcceptAndQueue, States
  <2> QED BY <1>1, <1>2, <2>1 DEF AcceptAndQueue, Record, Ops, States
<1>3. CASE Cancel(e, k)
  <2>1. owner' \in [Effects -> OwnerRecords]
    <3>1. TellControl(e, "cancelled", FALSE, generation[e])
      BY <1>3 DEF Cancel
    <3> QED BY <3>1, TellControlType DEF States
  <2> QED BY <1>1, <1>3, <2>1 DEF Cancel, Record, Ops, States
<1>4. CASE CancelQueuedEffectWithin(e, k)
  <2>1. owner' \in [Effects -> OwnerRecords]
    BY <1>4, <1>b DEF CancelQueuedEffectWithin, States
  <2> QED BY <1>1, <1>4, <2>1 DEF CancelQueuedEffectWithin, Record, Ops, States
<1>5. ASSUME Requeue(e, k) PROVE TypeOK'
  <2>1. owner' \in [Effects -> OwnerRecords]
    <3>1. TellControl(e, "queued", FALSE, generation[e] + 1)
      BY <1>5 DEF Requeue
    <3>2. generation[e] + 1 \in Nat /\ "queued" \in States
      BY DEF States
    <3> QED BY <3>1, <3>2, TellControlType
  <2>2. generation' = [generation EXCEPT ![e] = generation[e] + 1]
    BY <1>5 DEF Requeue
  <2>3. generation[e] + 1 \in Nat
    OBVIOUS
  <2>4. generation' \in [Effects -> Nat]
    BY <2>2, <2>3
  <2>5. jobs' \subseteq Effects \X Nat
    BY <1>5, <2>3 DEF Requeue
  <2> QED BY <1>1, <1>5, <2>1, <2>4, <2>5 DEF Requeue, Record, Ops, States
<1>6. CASE Retry(e, k)
  BY <1>5, <1>6 DEF Retry
<1>7. CASE RetryTagCatalogMutationWithin(e, k)
  BY <1>5, <1>7 DEF RetryTagCatalogMutationWithin
<1>8. ASSUME CloseUnknown(e, k), owner' \in [Effects -> OwnerRecords] PROVE TypeOK'
  <2>1. PICK r \in attempts[e] : attempts' = [attempts EXCEPT ![e] =
                (@ \ {r}) \cup {Settled(r, "reconciled", r.called, r.real, r.proof)}]
    BY <1>8 DEF CloseUnknown
  <2>2. Settled(r, "reconciled", r.called, r.real, r.proof) \in Rows
    BY <2>1 DEF Rows, States, Settled
  <2>3. attempts' \in [Effects -> SUBSET Rows]
    BY <2>1, <2>2
  <2> QED BY <1>1, <1>8, <2>3 DEF CloseUnknown, Record, Ops, States
<1>9. CASE Reconcile(e, k)
  <2>1. owner' \in [Effects -> OwnerRecords]
    <3>1. \/ TellControl(e, "reconciled", FALSE, generation[e])
          \/ TellControl(e, "executed", TRUE, generation[e])
      BY <1>9 DEF Reconcile
    <3> QED BY <3>1, TellControlType DEF States
  <2> QED BY <1>8, <1>9, <2>1 DEF Reconcile
<1>10. CASE ReconcileByOwner(e, k)
  <2>1. owner' \in [Effects -> OwnerRecords]
    <3>1. \/ TellControl(e, "reconciled", FALSE, generation[e])
          \/ owner' = [owner EXCEPT ![e] =
                Told("reconciled", attemptCount[e], generation[e])]
          \/ owner' = [owner EXCEPT ![e] =
                Told("final_failed", attemptCount[e], generation[e])]
      BY <1>10 DEF ReconcileByOwner
    <3> QED BY <3>1, <1>b, TellControlType DEF States
  <2> QED BY <1>8, <1>10, <2>1 DEF ReconcileByOwner
<1>11. CASE CompleteClientEffectWithin(e, k)
  <2>1. PICK s \in {"executed", "outcome_unknown", "final_failed"} :
        /\ attempts' = [attempts EXCEPT ![e] = @ \cup
                {[number |-> attemptCount[e] + 1, generation |-> generation[e],
                  fence |-> 0, state |-> s, called |-> TRUE,
                  real |-> s # "final_failed", proof |-> "plain"]}]
        /\ state' = [state EXCEPT ![e] = s]
        /\ owner' = [owner EXCEPT ![e] = Told(s, attemptCount[e] + 1, generation[e])]
    BY <1>11 DEF CompleteClientEffectWithin
  <2>2. [number |-> attemptCount[e] + 1, generation |-> generation[e],
         fence |-> 0, state |-> s, called |-> TRUE,
         real |-> s # "final_failed", proof |-> "plain"] \in Rows
    BY <2>1 DEF Rows, Proofs, States
  <2>3. attempts' \in [Effects -> SUBSET Rows]
    BY <2>1, <2>2
  <2>4. owner' \in [Effects -> OwnerRecords]
    <3>1. s \in States /\ attemptCount[e] + 1 \in Nat /\ generation[e] \in Nat
      BY <2>1 DEF States
    <3> QED BY <2>1, <3>1, <1>b
  <2> QED BY <1>1, <1>11, <2>1, <2>3, <2>4
          DEF CompleteClientEffectWithin, Record, Ops, States
<1> QED
  BY <1>2, <1>3, <1>4, <1>6, <1>7, <1>9, <1>10, <1>11 DEF Control

\* The steps of RunAttempt keep the types.
LEMMA WorkerType ==
    ASSUME TypeOK, [Next]_vars,
           ~ \E e \in Effects, k \in Keys : Control(e, k)
    PROVE  TypeOK'
<1> USE DEF TypeOK
<1>1. ASSUME NEW e \in Effects, Claim(e) PROVE TypeOK'
  <2> DEFINE row == [number |-> attemptCount[e] + 1,
              generation |-> generation[e], fence |-> leaseFence[e] + 1,
              state |-> "attempted", called |-> FALSE, real |-> FALSE,
              proof |-> "plain"]
             claim == [eff |-> e, gen |-> generation[e],
              num |-> attemptCount[e] + 1, fence |-> leaseFence[e] + 1,
              phase |-> "claimed", ans |-> NoAnswer]
  <2>1. row \in Rows /\ claim \in Claims
    BY DEF Rows, Proofs, States, Claims, NoAnswer, Answers, Outcomes
  <2>2. /\ attempts' = [attempts EXCEPT ![e] = @ \cup {row}]
        /\ inflight' = inflight \cup {claim}
    BY <1>1 DEF Claim
  <2>3. attempts' \in [Effects -> SUBSET Rows] /\ inflight' \subseteq Claims
    BY <2>1, <2>2
  <2> HIDE DEF row, claim
  <2> QED BY <1>1, <2>3 DEF Claim, States
<1>2. ASSUME NEW c \in inflight, CallProvider(c) PROVE TypeOK'
  <2>1. c \in Claims /\ profile[c.eff] \in Profiles /\ c.eff \in Effects
    BY DEF Claims
  <2>2. PICK a \in AnswersOf[profile[c.eff]] :
        /\ inflight' = (inflight \ {c}) \cup {Returned(c, a)}
        /\ delivered' = [delivered EXCEPT ![c.eff] =
                IF a.effect THEN @ + 1 ELSE @]
    BY <1>2 DEF CallProvider
  <2>3. a \in Answers
    BY <2>1, <2>2, AnswersSound
  <2>4. Returned(c, a) \in Claims
    BY <2>1, <2>3 DEF Claims, Returned
  <2>5. delivered' \in [Effects -> Nat]
    <3>1. delivered[c.eff] \in Nat /\ delivered[c.eff] + 1 \in Nat
      BY <2>1
    <3> QED BY <2>2, <3>1
  <2> QED BY <1>2, <2>2, <2>4, <2>5 DEF CallProvider
<1>3. ASSUME NEW c \in inflight, RecordOutcome(c) PROVE TypeOK'
  <2> DEFINE persisted == IF AutoRetries(c) THEN "queued" ELSE c.ans.next
  <2>1. c.ans \in Answers /\ c.eff \in Effects
    BY DEF Claims
  <2>2. c.ans.next \in States /\ persisted \in States
    BY <2>1 DEF Answers, Outcomes, States
  <2>3. PICK r \in attempts[c.eff] :
          attempts' = [attempts EXCEPT ![c.eff] = (@ \ {r}) \cup
                    {Settled(r, c.ans.next, c.ans.called, c.ans.real, c.ans.proof)}]
    BY <1>3 DEF RecordOutcome
  <2>4. Settled(r, c.ans.next, c.ans.called, c.ans.real, c.ans.proof) \in Rows
    BY <2>1, <2>2, <2>3 DEF Rows, Answers, Settled
  <2>5. attempts' \in [Effects -> SUBSET Rows]
    BY <2>3, <2>4
  <2>6. state' \in [Effects -> States]
    BY <1>3, <2>2 DEF RecordOutcome
  <2>7. owner' \in [Effects -> OwnerRecords]
    <3>1. /\ Announced(c).state = persisted
          /\ Announced(c).attempt = c.num /\ Announced(c).generation = c.gen
      BY DEF Announced, Completion
    <3>2. c.num \in Nat /\ c.gen \in Nat /\ Tell(c.eff, Announced(c))
      BY <1>3 DEF Claims, RecordOutcome
    <3> QED BY <2>1, <2>2, <3>1, <3>2, TellType
  <2> QED BY <1>3, <2>5, <2>6, <2>7 DEF RecordOutcome
<1>4. ASSUME NEW c \in inflight, Abandon(c) PROVE TypeOK'
  BY <1>4 DEF Abandon
<1>5. ASSUME NEW e \in Effects, LeaseExpires(e) PROVE TypeOK'
  BY <1>5 DEF LeaseExpires
<1>6. ASSUME NEW e \in Effects, RecoverStale(e) PROVE TypeOK'
  <2>1. PICK r \in attempts[e] : attempts' = [attempts EXCEPT ![e] =
                (@ \ {r}) \cup {Settled(r, StaleState, r.called, r.real, r.proof)}]
    BY <1>6 DEF RecoverStale
  <2>2. Settled(r, StaleState, r.called, r.real, r.proof) \in Rows
    BY <2>1 DEF Rows, States, StaleState, Settled
  <2>3. attempts' \in [Effects -> SUBSET Rows]
    BY <2>1, <2>2
  <2>4. owner' \in [Effects -> OwnerRecords]
    <3>1. /\ StaleCompletion(e).state = "outcome_unknown"
          /\ StaleCompletion(e).attempt = attemptCount[e]
          /\ StaleCompletion(e).generation = generation[e]
      BY DEF StaleCompletion, StaleState, Completion
    <3>2. Tell(e, StaleCompletion(e)) \/ UNCHANGED owner
      BY <1>6 DEF RecoverStale
    <3> QED BY <3>1, <3>2, TellType DEF States
  <2> QED BY <1>6, <2>3, <2>4 DEF RecoverStale, States, StaleState
<1>7. ASSUME NEW j \in jobs, RetireJob(j[1], j[2]) \/ DiscardJob(j[1], j[2])
      PROVE TypeOK'
  BY <1>7 DEF RetireJob, DiscardJob
<1>8. CASE UNCHANGED vars
  BY <1>8 DEF vars
<1> QED
  BY <1>1, <1>2, <1>3, <1>4, <1>5, <1>6, <1>7, <1>8 DEF Next

\* Type correctness of the kernel.
THEOREM TypeCorrect == Spec => []TypeOK
<1>1. TypeOK /\ [Next]_vars => TypeOK'
  BY ControlType, WorkerType DEF Next
<1> QED BY InitType, <1>1, PTL DEF Spec

-----------------------------------------------------------------------------
(* At most once *)

\* An effect that is neither attempted nor given up has no worker on it.
LEMMA QuietEffects ==
    ASSUME SingleFlight, NEW c \in inflight
    PROVE  state[c.eff] \in {"attempted", "outcome_unknown", "reconciled"}
BY DEF SingleFlight, OwnsEffect

\* A control operation touches only effects without a worker, or closes an
\* unknown one; it never performs anything.
LEMMA ControlKeepsDelivery ==
    ASSUME DeliveryInv, NEW e \in Effects, NEW k \in Keys, Control(e, k)
    PROVE  DeliveryInv'
<1>1. TypeOK'
  BY ControlType DEF DeliveryInv
<1>2. inflight' = inflight /\ delivered' = delivered /\ lease' = lease
  BY DEF Control, AcceptAndQueue, Cancel, CancelQueuedEffectWithin, Retry,
         RetryTagCatalogMutationWithin, Requeue, Reconcile, ReconcileByOwner,
         CloseUnknown, CompleteClientEffectWithin
<1>3. \A f \in Effects \ {e} :
        /\ state'[f] = state[f]
        /\ generation'[f] = generation[f]
        /\ leaseFence'[f] = leaseFence[f]
        /\ attempts'[f] = attempts[f]
  BY DEF Control, AcceptAndQueue, Cancel, CancelQueuedEffectWithin, Retry,
         RetryTagCatalogMutationWithin, Requeue, Reconcile, ReconcileByOwner,
         CloseUnknown, CompleteClientEffectWithin, DeliveryInv, TypeOK
<1>4. \/ state[e] \in NotDoneStates \/ ProvenFailed(e)
      \/ state[e] = "outcome_unknown" /\ state'[e] = "reconciled"
  BY DEF NotDoneStates, ProvenFailed, Control, AcceptAndQueue, Cancel, CancelQueuedEffectWithin, Retry,
         MayRetry, RetryTagCatalogMutationWithin, Requeue, Reconcile,
         ReconcileByOwner, CloseUnknown, CompleteClientEffectWithin,
         DeliveryInv, TypeOK
<1>5. \A c \in inflight : c.eff \in Effects
  BY DEF DeliveryInv, TypeOK, Claims
<1>6. \A c \in inflight : c.eff = e =>
        state'[c.eff] = "reconciled" /\ lease[c.eff] = "expired"
  BY <1>4 DEF DeliveryInv, SingleFlight, OwnsEffect, NotDoneStates, ProvenFailed
<1>7. SingleFlight'
  BY <1>2, <1>3, <1>5, <1>6 DEF DeliveryInv, SingleFlight, OwnsEffect
<1>8. NotDoneMeansUndelivered'
  <2>1. \/ delivered[e] = 0
        \/ state'[e] = "reconciled"
    BY <1>4 DEF DeliveryInv, NotDoneMeansUndelivered
  <2> QED
    BY <1>2, <1>3, <2>1
    DEF DeliveryInv, NotDoneMeansUndelivered, NotDoneStates, ProvenFailed
<1> QED
  BY <1>1, <1>2, <1>7, <1>8
  DEF DeliveryInv, AtMostOnceDelivery, PendingWorkUndelivered

\* A claim starts on a queued effect: nothing was performed and nobody is on it.
LEMMA ClaimKeepsDelivery ==
    ASSUME DeliveryInv, TypeOK', NEW e \in Effects, Claim(e)
    PROVE  DeliveryInv'
<1> DEFINE claim == [eff |-> e, gen |-> generation[e],
              num |-> attemptCount[e] + 1, fence |-> leaseFence[e] + 1,
              phase |-> "claimed", ans |-> NoAnswer]
<1>1. /\ inflight' = inflight \cup {claim}
      /\ delivered' = delivered /\ generation' = generation
      /\ state' = [state EXCEPT ![e] = "attempted"]
      /\ leaseFence' = [leaseFence EXCEPT ![e] = @ + 1]
      /\ lease' = [lease EXCEPT ![e] = "active"]
      /\ state[e] = "queued"
  BY DEF Claim
<1>2. claim.eff = e /\ claim.gen = generation[e] /\ claim.fence = leaseFence[e] + 1
      /\ claim.phase = "claimed" /\ claim.ans.next = "outcome_unknown"
  BY DEF NoAnswer
<1> HIDE DEF claim
<1>3. \A c \in inflight : c.eff \in Effects /\ c.eff # e
  BY <1>1, QuietEffects DEF DeliveryInv, TypeOK, Claims
<1>4. state'[e] = "attempted" /\ leaseFence'[e] = leaseFence[e] + 1
  BY <1>1 DEF DeliveryInv, TypeOK
<1>5. \A f \in Effects \ {e} :
        /\ state'[f] = state[f]
        /\ leaseFence'[f] = leaseFence[f]
        /\ lease'[f] = lease[f]
        /\ attempts'[f] = attempts[f]
  BY <1>1 DEF DeliveryInv, TypeOK, Claim
<1>6. delivered[e] = 0
  BY <1>1 DEF DeliveryInv, NotDoneMeansUndelivered, NotDoneStates
<1>7. SingleFlight'
  <2>1. ASSUME NEW c \in inflight', NEW d \in inflight', c.eff = d.eff
        PROVE  c = d
    BY <1>1, <1>2, <1>3, <2>1 DEF DeliveryInv, SingleFlight
  <2>2. ASSUME NEW c \in inflight'
        PROVE  \/ OwnsEffect(c)'
               \/ /\ state'[c.eff] \in {"outcome_unknown", "reconciled"}
                  /\ lease'[c.eff] = "expired"
    <3>1. CASE c = claim
      BY <1>1, <1>2, <1>4, <3>1 DEF OwnsEffect
    <3>2. CASE c \in inflight
      BY <1>1, <1>3, <1>5, <3>2 DEF DeliveryInv, SingleFlight, OwnsEffect
    <3> QED BY <1>1, <3>1, <3>2
  <2> QED BY <2>1, <2>2 DEF SingleFlight
<1>8. NotDoneMeansUndelivered'
  BY <1>1, <1>4, <1>5
  DEF DeliveryInv, NotDoneMeansUndelivered, NotDoneStates, ProvenFailed
<1>9. PendingWorkUndelivered'
  BY <1>1, <1>2, <1>6 DEF DeliveryInv, PendingWorkUndelivered
<1> QED
  BY <1>1, <1>7, <1>8, <1>9 DEF DeliveryInv, AtMostOnceDelivery

\* The call is made at most once per claim, on an effect not yet performed.
LEMMA CallKeepsDelivery ==
    ASSUME DeliveryInv, TypeOK', NEW c \in inflight, CallProvider(c)
    PROVE  DeliveryInv'
<1>1. c.eff \in Effects /\ profile[c.eff] \in Profiles /\ c.phase = "claimed"
  BY DEF DeliveryInv, TypeOK, Claims, CallProvider
<1>2. PICK a \in AnswersOf[profile[c.eff]] :
        /\ inflight' = (inflight \ {c}) \cup {Returned(c, a)}
        /\ delivered' = [delivered EXCEPT ![c.eff] = IF a.effect THEN @ + 1 ELSE @]
  BY DEF CallProvider
<1>3. /\ state' = state /\ generation' = generation
      /\ leaseFence' = leaseFence /\ lease' = lease /\ attempts' = attempts
  BY DEF CallProvider
<1>4. Undone(a) => ~a.effect
  BY <1>1, <1>2, AnswersSound
<1>5. delivered[c.eff] = 0
  BY <1>1 DEF DeliveryInv, PendingWorkUndelivered
<1>6. /\ delivered'[c.eff] = IF a.effect THEN 1 ELSE 0
      /\ \A f \in Effects \ {c.eff} : delivered'[f] = delivered[f]
  BY <1>1, <1>2, <1>5 DEF DeliveryInv, TypeOK
<1> DEFINE d == Returned(c, a)
<1>7. d.eff = c.eff /\ d.gen = c.gen /\ d.fence = c.fence /\ d.ans = a
      /\ d.phase = "returned"
  BY DEF Returned
<1>8. inflight' = (inflight \ {c}) \cup {d}
  BY <1>2
<1> HIDE DEF d
<1>9. \A b \in inflight \ {c} : b.eff \in Effects /\ b.eff # c.eff
  BY DEF DeliveryInv, TypeOK, Claims, SingleFlight
<1>10. state[c.eff] \in {"attempted", "outcome_unknown", "reconciled"}
  BY QuietEffects DEF DeliveryInv
<1>11. SingleFlight'
  <2>1. ASSUME NEW x \in inflight', NEW y \in inflight', x.eff = y.eff
        PROVE  x = y
    BY <1>7, <1>8, <1>9, <2>1 DEF DeliveryInv, SingleFlight
  <2>2. ASSUME NEW x \in inflight'
        PROVE  \/ OwnsEffect(x)'
               \/ /\ state'[x.eff] \in {"outcome_unknown", "reconciled"}
                  /\ lease'[x.eff] = "expired"
    BY <1>3, <1>7, <1>8 DEF DeliveryInv, SingleFlight, OwnsEffect
  <2> QED BY <2>1, <2>2 DEF SingleFlight
<1>12. AtMostOnceDelivery'
  BY <1>1, <1>6 DEF DeliveryInv, AtMostOnceDelivery
<1>13. NotDoneMeansUndelivered'
  BY <1>3, <1>6, <1>10
  DEF DeliveryInv, NotDoneMeansUndelivered, NotDoneStates, ProvenFailed
<1>14. PendingWorkUndelivered'
  <2>1. ASSUME NEW x \in inflight',
               x.phase = "claimed" \/ Undone(x.ans)
        PROVE  delivered'[x.eff] = 0
    <3>1. CASE x = d
      BY <1>4, <1>6, <1>7, <2>1, <3>1
    <3>2. CASE x \in inflight \ {c}
      BY <1>6, <1>9, <2>1, <3>2 DEF DeliveryInv, PendingWorkUndelivered
    <3> QED BY <1>8, <3>1, <3>2
  <2> QED BY <2>1 DEF PendingWorkUndelivered
<1> QED BY <1>11, <1>12, <1>13, <1>14 DEF DeliveryInv

\* Recording an outcome releases the effect, as "not done" only if it is so.
LEMMA RecordKeepsDelivery ==
    ASSUME DeliveryInv, TypeOK', NEW c \in inflight, RecordOutcome(c)
    PROVE  DeliveryInv'
<1> DEFINE persisted == IF AutoRetries(c) THEN "queued" ELSE c.ans.next
<1>1. c.eff \in Effects /\ c.ans.next \in {"executed", "outcome_unknown",
                                   "retryable_failed", "final_failed"}
  BY DEF DeliveryInv, TypeOK, Claims, Answers, Outcomes
<1>2. /\ inflight' = inflight \ {c} /\ delivered' = delivered
      /\ generation' = generation /\ leaseFence' = leaseFence /\ lease' = lease
      /\ state' = [state EXCEPT ![c.eff] = persisted]
  BY DEF RecordOutcome
<1>3. persisted \in NotDoneStates => c.ans.next = "retryable_failed"
  BY <1>1 DEF NotDoneStates, AutoRetries
<1>a. persisted = "final_failed" => c.ans.next = "final_failed"
  OBVIOUS
<1> HIDE DEF persisted
<1>b. PICK r \in attempts[c.eff] : attempts' = [attempts EXCEPT ![c.eff] = (@ \ {r})
        \cup {Settled(r, c.ans.next, c.ans.called, c.ans.real, c.ans.proof)}]
  BY DEF RecordOutcome
<1>c. /\ Settled(r, c.ans.next, c.ans.called, c.ans.real, c.ans.proof)
            \in attempts'[c.eff]
      /\ \A f \in Effects \ {c.eff} : attempts'[f] = attempts[f]
  BY <1>1, <1>b DEF DeliveryInv, TypeOK
<1>4. state'[c.eff] = persisted /\ \A f \in Effects \ {c.eff} : state'[f] = state[f]
  BY <1>1, <1>2 DEF DeliveryInv, TypeOK
<1>5. \A b \in inflight' : b \in inflight /\ b.eff \in Effects /\ b.eff # c.eff
  BY <1>2 DEF DeliveryInv, TypeOK, Claims, SingleFlight
<1>6. SingleFlight'
  BY <1>2, <1>4, <1>5 DEF DeliveryInv, SingleFlight, OwnsEffect
<1>7. NotDoneMeansUndelivered'
  <2>1. persisted \in NotDoneStates => delivered[c.eff] = 0
    BY <1>3 DEF DeliveryInv, PendingWorkUndelivered, Undone
  <2>2. ProvenFailed(c.eff)' => delivered[c.eff] = 0
    <3>1. SUFFICES ASSUME persisted = "final_failed", c.ans.proof = "plain",
              safeTagCatalogRetryAttempt(
                  Settled(r, c.ans.next, c.ans.called, c.ans.real, c.ans.proof))
          PROVE  FALSE
      BY <1>4, <1>c DEF ProvenFailed, DeliveryInv, PendingWorkUndelivered, Undone
    <3> QED BY <1>a, <3>1 DEF safeTagCatalogRetryAttempt, Settled
  <2>3. \A f \in Effects \ {c.eff} : ProvenFailed(f)' => ProvenFailed(f)
    BY <1>4, <1>c DEF ProvenFailed
  <2> QED BY <1>2, <1>4, <2>1, <2>2, <2>3 DEF DeliveryInv, NotDoneMeansUndelivered
<1> QED
  BY <1>2, <1>5, <1>6, <1>7
  DEF DeliveryInv, AtMostOnceDelivery, PendingWorkUndelivered

\* Recovery of a stale attempt fences its worker off and calls nothing.
LEMMA RecoverKeepsDelivery ==
    ASSUME DeliveryInv, TypeOK', NEW e \in Effects, RecoverStale(e)
    PROVE  DeliveryInv'
<1>1. /\ inflight' = inflight /\ delivered' = delivered
      /\ generation' = generation /\ leaseFence' = leaseFence
      /\ lease' = lease /\ lease[e] = "expired"
      /\ state' = [state EXCEPT ![e] = "outcome_unknown"]
  BY DEF RecoverStale, StaleState
<1>2. /\ state'[e] = "outcome_unknown"
      /\ \A f \in Effects \ {e} : state'[f] = state[f]
  BY <1>1 DEF DeliveryInv, TypeOK
<1>3. \A c \in inflight : c.eff \in Effects
  BY DEF DeliveryInv, TypeOK, Claims
<1>4. SingleFlight'
  BY <1>1, <1>2, <1>3 DEF DeliveryInv, SingleFlight, OwnsEffect
<1>5. NotDoneMeansUndelivered'
  <2>1. \A f \in Effects \ {e} : attempts'[f] = attempts[f]
    BY DEF RecoverStale, DeliveryInv, TypeOK
  <2> QED
    BY <1>1, <1>2, <2>1
    DEF DeliveryInv, NotDoneMeansUndelivered, NotDoneStates, ProvenFailed
<1> QED
  BY <1>1, <1>4, <1>5 DEF DeliveryInv, AtMostOnceDelivery, PendingWorkUndelivered

\* Every step keeps the delivery invariant.
LEMMA StepKeepsDelivery == DeliveryInv /\ [Next]_vars => DeliveryInv'
<1> SUFFICES ASSUME DeliveryInv, [Next]_vars PROVE DeliveryInv'
  OBVIOUS
<1>1. TypeOK'
  BY ControlType, WorkerType DEF DeliveryInv, Next
<1>2. ASSUME UNCHANGED <<state, generation, leaseFence, attempts, delivered>>,
             inflight' \subseteq inflight,
             \A e \in Effects : lease'[e] \in {lease[e], "expired"}
      PROVE  DeliveryInv'
  <2>1. \A c \in inflight : c.eff \in Effects
    BY DEF DeliveryInv, TypeOK, Claims
  <2> QED
  BY <1>1, <1>2, <2>1 DEF DeliveryInv, SingleFlight, OwnsEffect, AtMostOnceDelivery,
     NotDoneMeansUndelivered, ProvenFailed, PendingWorkUndelivered
<1>3. ASSUME NEW e \in Effects, NEW k \in Keys, Control(e, k) PROVE DeliveryInv'
  BY <1>3, ControlKeepsDelivery
<1>4. ASSUME NEW e \in Effects, Claim(e) PROVE DeliveryInv'
  BY <1>1, <1>4, ClaimKeepsDelivery
<1>5. ASSUME NEW c \in inflight, CallProvider(c) PROVE DeliveryInv'
  BY <1>1, <1>5, CallKeepsDelivery
<1>6. ASSUME NEW c \in inflight, RecordOutcome(c) PROVE DeliveryInv'
  BY <1>1, <1>6, RecordKeepsDelivery
<1>7. ASSUME NEW c \in inflight, Abandon(c) PROVE DeliveryInv'
  BY <1>2, <1>7 DEF Abandon
<1>8. ASSUME NEW e \in Effects, LeaseExpires(e) PROVE DeliveryInv'
  BY <1>2, <1>8 DEF LeaseExpires, DeliveryInv, TypeOK
<1>9. ASSUME NEW e \in Effects, RecoverStale(e) PROVE DeliveryInv'
  BY <1>1, <1>9, RecoverKeepsDelivery
<1>10. ASSUME NEW j \in jobs, RetireJob(j[1], j[2]) \/ DiscardJob(j[1], j[2])
      PROVE DeliveryInv'
  BY <1>2, <1>10 DEF RetireJob, DiscardJob
<1>11. CASE UNCHANGED vars
  BY <1>2, <1>11 DEF vars
<1> QED
  BY <1>3, <1>4, <1>5, <1>6, <1>7, <1>8, <1>9, <1>10, <1>11 DEF Next

\* The delivery invariant holds in every reachable state.
THEOREM DeliveryInvariant == Spec => []DeliveryInv
<1>1. Init => DeliveryInv
  BY InitType DEF Init, DeliveryInv, SingleFlight, AtMostOnceDelivery,
     NotDoneMeansUndelivered, ProvenFailed, PendingWorkUndelivered
<1> QED BY <1>1, StepKeepsDelivery, PTL DEF Spec

\* The Provider performs an effect at most once.
THEOREM AtMostOnce == Spec => []AtMostOnceDelivery
<1>1. DeliveryInv => AtMostOnceDelivery
  BY DEF DeliveryInv
<1> QED BY <1>1, DeliveryInvariant, PTL

\* What the kernel may call again was not performed, whatever the adapters call a
\* final failure.
THEOREM NotDoneIsTrue == Spec => []NotDoneMeansUndelivered
<1>1. DeliveryInv => NotDoneMeansUndelivered
  BY DEF DeliveryInv
<1> QED BY <1>1, DeliveryInvariant, PTL

\* At most one worker is on an effect, and a fenced one stays fenced.
THEOREM OneWorker == Spec => []SingleFlight
<1>1. DeliveryInv => SingleFlight
  BY DEF DeliveryInv
<1> QED BY <1>1, DeliveryInvariant, PTL

-----------------------------------------------------------------------------
(* Unknown outcomes, and the contract *)

\* A late worker, a retry or a redelivered job never reopens an unknown outcome.
THEOREM AmbiguityFinal == Spec => AmbiguityIsFinal
<1> DEFINE Keeps == \A e \in Effects :
        state[e] \in {"outcome_unknown", "reconciled"} =>
            /\ state'[e] \in {state[e], "reconciled"}
            /\ attemptCount'[e] = attemptCount[e]
<1>1. ASSUME TypeOK, [Next]_vars PROVE [Keeps]_vars
  <2>1. ASSUME NEW e \in Effects, NEW k \in Keys, Control(e, k) PROVE Keeps
    BY <1>1, <2>1
    DEF Control, AcceptAndQueue, Cancel, CancelQueuedEffectWithin, Retry, MayRetry,
        RetryTagCatalogMutationWithin, Requeue, Reconcile, ReconcileByOwner,
        CloseUnknown, CompleteClientEffectWithin, TypeOK
  <2>2. ASSUME NEW e \in Effects, Claim(e) PROVE Keeps
    BY <1>1, <2>2 DEF Claim, TypeOK
  <2>3. ASSUME NEW c \in inflight, CallProvider(c) \/ Abandon(c) PROVE Keeps
    BY <2>3 DEF CallProvider, Abandon
  <2>4. ASSUME NEW c \in inflight, RecordOutcome(c) PROVE Keeps
    BY <1>1, <2>4 DEF RecordOutcome, OwnsEffect, TypeOK
  <2>5. ASSUME NEW e \in Effects, LeaseExpires(e) \/ RecoverStale(e) PROVE Keeps
    BY <1>1, <2>5 DEF LeaseExpires, RecoverStale, TypeOK
  <2>6. ASSUME NEW j \in jobs, RetireJob(j[1], j[2]) \/ DiscardJob(j[1], j[2])
      PROVE Keeps
    BY <2>6 DEF RetireJob, DiscardJob
  <2> QED BY <1>1, <2>1, <2>2, <2>3, <2>4, <2>5, <2>6 DEF Next
<1>2. TypeOK /\ [Next]_vars => [Keeps]_vars
  BY <1>1
<1> QED BY <1>2, TypeCorrect, PTL DEF Spec, AmbiguityIsFinal

\* The phase map on each state.
LEMMA Phases ==
    /\ PhaseOf["absent"] = "absent" /\ PhaseOf["queued"] = "open"
    /\ PhaseOf["attempted"] = "running" /\ PhaseOf["executed"] = "succeeded"
    /\ PhaseOf["outcome_unknown"] = "ambiguous"
    /\ PhaseOf["reconciled"] = "resolved"
    /\ PhaseOf["retryable_failed"] = "failed" /\ PhaseOf["final_failed"] = "closed"
    /\ PhaseOf["cancelled"] = "withdrawn"
BY DEF PhaseOf, States

\* A state update of one effect is a move of one phase.
LEMMA MoveLemma ==
    ASSUME TypeOK, NEW e \in Effects, NEW s \in States, delivered' = delivered,
           state' = [state EXCEPT ![e] = s],
           NEW from, PhaseOf[state[e]] \in from
    PROVE  Contract!Move(e, from, PhaseOf[s])
<1> DEFINE phase == [f \in Effects |-> PhaseOf[state[f]]]
<1>1. phase' = [phase EXCEPT ![e] = PhaseOf[s]]
  <2>1. \A f \in Effects : state'[f] = IF f = e THEN s ELSE state[f]
    BY DEF TypeOK
  <2>2. PhaseOf' = PhaseOf
    BY DEF PhaseOf, States
  <2>3. phase' = [f \in Effects |-> PhaseOf[state'[f]]]
    BY <2>2
  <2>4. [phase EXCEPT ![e] = PhaseOf[s]] =
            [f \in Effects |-> IF f = e THEN PhaseOf[s] ELSE PhaseOf[state[f]]]
    OBVIOUS
  <2>5. \A f \in Effects :
            PhaseOf[state'[f]] = IF f = e THEN PhaseOf[s] ELSE PhaseOf[state[f]]
    BY <2>1
  <2> HIDE DEF phase
  <2> QED BY <2>3, <2>4, <2>5
<1> QED BY <1>1 DEF Contract!Move

\* A control operation is a step of the contract.
LEMMA ControlRefines ==
    ASSUME DeliveryInv, NEW e \in Effects, NEW k \in Keys, Control(e, k)
    PROVE  Contract!Next
<1> USE DEF DeliveryInv
<1>1. CASE AcceptAndQueue(e, k)
  <2>1. Contract!Submit(e)
    BY <1>1, Phases, MoveLemma DEF AcceptAndQueue, Contract!Submit, States
  <2> QED BY <2>1 DEF Contract!Next
<1>2. CASE Cancel(e, k) \/ CancelQueuedEffectWithin(e, k)
  <2>1. Contract!Withdraw(e)
    BY <1>2, Phases, MoveLemma
    DEF Cancel, CancelQueuedEffectWithin, Contract!Withdraw, States
  <2> QED BY <2>1 DEF Contract!Next
<1>3. CASE Retry(e, k) \/ RetryTagCatalogMutationWithin(e, k)
  <2>1. /\ state[e] \in {"retryable_failed", "final_failed"} /\ Requeue(e, k)
        /\ state[e] = "final_failed" => ProvenFailed(e)
    BY <1>3 DEF Retry, MayRetry, RetryTagCatalogMutationWithin, ProvenFailed
  <2>2. delivered[e] = 0
    BY <2>1 DEF NotDoneMeansUndelivered, NotDoneStates
  <2>3. Contract!Reopen(e)
    BY <2>1, <2>2, Phases, MoveLemma DEF Requeue, Contract!Reopen, States
  <2> QED BY <2>3 DEF Contract!Next
<1>4. CASE Reconcile(e, k) \/ ReconcileByOwner(e, k)
  <2>1. CloseUnknown(e, k)
    BY <1>4 DEF Reconcile, ReconcileByOwner
  <2>2. Contract!Resolve(e)
    BY <2>1, Phases, MoveLemma DEF CloseUnknown, Contract!Resolve, States
  <2> QED BY <2>2 DEF Contract!Next
<1>5. CASE CompleteClientEffectWithin(e, k)
  <2>1. PICK s \in {"executed", "outcome_unknown", "final_failed"} :
          state' = [state EXCEPT ![e] = s]
    BY <1>5 DEF CompleteClientEffectWithin
  <2>2. delivered' = delivered /\ state[e] = "queued" /\ delivered[e] = 0
    BY <1>5 DEF CompleteClientEffectWithin, NotDoneMeansUndelivered, NotDoneStates
  <2>3. Contract!Move(e, {"open", "running"}, PhaseOf[s])
    BY <2>1, <2>2, Phases, MoveLemma DEF States
  <2>4. Contract!Succeed(e) \/ Contract!Lose(e) \/ Contract!Close(e)
    BY <2>1, <2>3, Phases
    DEF Contract!Succeed, Contract!Lose, Contract!Close
  <2> QED BY <2>4 DEF Contract!Next
<1> QED BY <1>1, <1>2, <1>3, <1>4, <1>5 DEF Control

\* A call is made by the owner of the effect, or, when processes may stall past
\* their lease, on an effect already given up.
LEMMA CallIsOwned ==
    ASSUME DeliveryInv, NEW c \in inflight, CallProvider(c)
    PROVE  \/ state[c.eff] = "attempted"
           \/ PausesPastLease /\ state[c.eff] \in {"outcome_unknown", "reconciled"}
BY BoundsAssumption
DEF DeliveryInv, SingleFlight, OwnsEffect, CallProvider, WithinTimeout

\* Every step of the kernel is a step of the contract or leaves it alone.
LEMMA StepRefines ==
    ASSUME DeliveryInv, [Next]_vars
    PROVE  Contract!Next \/ UNCHANGED <<state, delivered>>
<1> USE DEF DeliveryInv
<1>1. ASSUME NEW e \in Effects, Claim(e) PROVE Contract!Next
  <2>1. Contract!Start(e)
    BY <1>1, Phases, MoveLemma DEF Claim, Contract!Start, States
  <2> QED BY <2>1 DEF Contract!Next
<1>2. ASSUME NEW c \in inflight, CallProvider(c)
      PROVE  Contract!Next \/ UNCHANGED <<state, delivered>>
  <2>1. c.eff \in Effects /\ c.phase = "claimed"
    BY <1>2 DEF TypeOK, Claims, CallProvider
  <2>2. PICK a \in AnswersOf[profile[c.eff]] :
          delivered' = [delivered EXCEPT ![c.eff] = IF a.effect THEN @ + 1 ELSE @]
    BY <1>2 DEF CallProvider
  <2>3. state' = state /\ delivered[c.eff] = 0
    BY <1>2, <2>1 DEF CallProvider, PendingWorkUndelivered
  <2>4. CASE ~a.effect
    BY <2>2, <2>3, <2>4 DEF TypeOK
  <2>5. CASE a.effect
    <3>1. delivered' = [delivered EXCEPT ![c.eff] = 1]
      BY <2>2, <2>3, <2>5
    <3>2. Contract!Perform(c.eff)
      BY <1>2, <2>1, <2>3, <3>1, CallIsOwned, Phases DEF Contract!Perform
    <3> QED BY <2>1, <3>2 DEF Contract!Next
  <2> QED BY <2>4, <2>5
<1>3. ASSUME NEW c \in inflight, RecordOutcome(c) PROVE Contract!Next
  <2> DEFINE persisted == IF AutoRetries(c) THEN "queued" ELSE c.ans.next
  <2>1. c.eff \in Effects /\ c.ans.next \in {"executed", "outcome_unknown",
                                   "retryable_failed", "final_failed"}
    BY DEF TypeOK, Claims, Answers, Outcomes
  <2>2. /\ delivered' = delivered /\ state[c.eff] = "attempted"
        /\ state' = [state EXCEPT ![c.eff] = persisted]
    BY <1>3 DEF RecordOutcome, OwnsEffect
  <2>3. persisted \in {"queued", "retryable_failed"} => delivered[c.eff] = 0
    BY <2>1 DEF AutoRetries, PendingWorkUndelivered, Undone
  <2>4. persisted \in {"queued", "executed", "outcome_unknown",
                       "retryable_failed", "final_failed"}
    BY <2>1
  <2> HIDE DEF persisted
  <2>5. PICK s \in States : s = persisted
    BY <2>4 DEF States
  <2>6. PICK f \in Effects : f = c.eff
    BY <2>1
  <2>7. PhaseOf[state[f]] = "running" /\ state' = [state EXCEPT ![f] = s]
    BY <2>2, <2>5, <2>6, Phases
  <2>8. /\ Contract!Move(f, {"open", "running"}, PhaseOf[s])
        /\ Contract!Move(f, {"running"}, PhaseOf[s])
        /\ Contract!Move(f, {"running", "failed", "closed"}, PhaseOf[s])
    BY <2>2, <2>7, MoveLemma
  <2>9. \/ Contract!Succeed(f) \/ Contract!Lose(f) \/ Contract!Close(f)
        \/ Contract!Fail(f) \/ Contract!Reopen(f)
    BY <2>3, <2>4, <2>5, <2>6, <2>8, Phases
    DEF Contract!Succeed, Contract!Lose, Contract!Close, Contract!Fail,
        Contract!Reopen
  <2> QED BY <2>9 DEF Contract!Next
<1>4. ASSUME NEW e \in Effects, RecoverStale(e) PROVE Contract!Next
  <2>1. Contract!Lose(e)
    BY <1>4, Phases, MoveLemma DEF RecoverStale, StaleState, Contract!Lose, States
  <2> QED BY <2>1 DEF Contract!Next
<1>5. ASSUME NEW e \in Effects, NEW k \in Keys, Control(e, k) PROVE Contract!Next
  BY <1>5, ControlRefines
<1>6. ASSUME NEW c \in inflight, Abandon(c) PROVE UNCHANGED <<state, delivered>>
  BY <1>6 DEF Abandon
<1>7. ASSUME NEW e \in Effects, LeaseExpires(e) PROVE UNCHANGED <<state, delivered>>
  BY <1>7 DEF LeaseExpires
<1>8. ASSUME NEW j \in jobs, RetireJob(j[1], j[2]) \/ DiscardJob(j[1], j[2])
      PROVE  UNCHANGED <<state, delivered>>
  BY <1>8 DEF RetireJob, DiscardJob
<1>9. CASE UNCHANGED vars
  BY <1>9 DEF vars
<1> QED
  BY <1>1, <1>2, <1>3, <1>4, <1>5, <1>6, <1>7, <1>8, <1>9 DEF Next

\* The kernel implements the contract it offers the owning domains.
THEOREM Refinement == Spec => ImplementsContract
<1> DEFINE mapped == <<[e \in Effects |-> PhaseOf[state[e]]], delivered>>
<1>1. Init => Contract!Init
  BY Phases DEF Init, Contract!Init
<1>2. DeliveryInv /\ [Next]_vars => [Contract!Next]_mapped
  <2>1. ASSUME UNCHANGED <<state, delivered>> PROVE UNCHANGED mapped
    BY <2>1
  <2> QED BY <2>1, StepRefines
<1> QED
  BY <1>1, <1>2, DeliveryInvariant, PTL DEF Spec, ImplementsContract, Contract!Spec

\* With the worker timeout below the lease, the Provider's side of an unknown
\* outcome no longer changes, so the evidence a person reconciles with holds.
THEOREM StableEvidence ==
    ASSUME PausesPastLease = FALSE
    PROVE  Spec => EvidenceIsStable
<1> DEFINE Keeps == \A e \in Effects :
        state[e] \in {"outcome_unknown", "reconciled"} => delivered'[e] = delivered[e]
<1>1. ASSUME DeliveryInv, [Next]_vars PROVE Keeps
  <2> USE <1>1
  <2>1. ASSUME NEW c \in inflight, CallProvider(c) PROVE Keeps
    <3>1. c.eff \in Effects /\ state[c.eff] = "attempted"
      BY <2>1, CallIsOwned DEF DeliveryInv, TypeOK, Claims
    <3>2. PICK a : delivered' = [delivered EXCEPT ![c.eff] = IF a.effect THEN @ + 1 ELSE @]
      BY <2>1 DEF CallProvider
    <3> QED BY <3>1, <3>2 DEF DeliveryInv, TypeOK
  <2>2. CASE ~ \E c \in inflight : CallProvider(c)
    <3>1. ASSUME NEW e \in Effects, NEW k \in Keys, Control(e, k)
          PROVE  delivered' = delivered
      BY <3>1 DEF Control, AcceptAndQueue, Cancel, CancelQueuedEffectWithin,
         Retry, RetryTagCatalogMutationWithin, Requeue, Reconcile,
         ReconcileByOwner, CloseUnknown, CompleteClientEffectWithin
    <3>2. ASSUME NEW c \in inflight, RecordOutcome(c) \/ Abandon(c)
          PROVE  delivered' = delivered
      BY <3>2 DEF RecordOutcome, Abandon
    <3>3. ASSUME NEW e \in Effects, Claim(e) \/ LeaseExpires(e) \/ RecoverStale(e)
          PROVE  delivered' = delivered
      BY <3>3 DEF Claim, LeaseExpires, RecoverStale
    <3>4. ASSUME NEW j \in jobs, RetireJob(j[1], j[2]) \/ DiscardJob(j[1], j[2])
          PROVE  delivered' = delivered
      BY <3>4 DEF RetireJob, DiscardJob
    <3>5. delivered' = delivered
      BY <2>2, <3>1, <3>2, <3>3, <3>4 DEF Next, vars
    <3> QED BY <3>5
  <2> QED BY <2>1, <2>2
<1>2. DeliveryInv /\ [Next]_vars => [Keeps]_vars
  BY <1>1
<1> QED BY <1>2, DeliveryInvariant, PTL DEF Spec, EvidenceIsStable

-----------------------------------------------------------------------------
(* Retries and their receipts *)

RetryReceipts(e) == {r \in receipts : r.op = "retry" /\ r.eff = e}

\* GenerationsAreAuthorised, with what counting needs: the receipts are finite,
\* and an effect that was never accepted has none.
GenerationsCounted ==
    \A e \in Effects :
        /\ IsFiniteSet(RetryReceipts(e))
        /\ state[e] = "absent" => RetryReceipts(e) = {}
        /\ state[e] # "absent" => generation[e] = 1 + Cardinality(RetryReceipts(e))

\* A step that opens no generation and writes no retry receipt keeps the count.
LEMMA CountFrame ==
    ASSUME GenerationsCounted, generation' = generation,
           \A f \in Effects : RetryReceipts(f)' = RetryReceipts(f),
           \A f \in Effects : state'[f] = "absent" <=> state[f] = "absent"
    PROVE  GenerationsCounted'
BY DEF GenerationsCounted

\* The receipt of another operation is not a retry receipt.
LEMMA OtherReceipts ==
    ASSUME NEW e \in Effects, NEW k \in Keys,
           NEW op \in {"accept", "cancel", "reconcile", "complete"}, Record(op, e, k)
    PROVE  \A f \in Effects : RetryReceipts(f)' = RetryReceipts(f)
BY DEF Record, Receipt, RetryReceipts

\* A fresh retry command adds one receipt and one generation together.
LEMMA RequeueCounts ==
    ASSUME TypeOK, GenerationsCounted, NEW e \in Effects, NEW k \in Keys,
           state[e] # "absent", Requeue(e, k)
    PROVE  GenerationsCounted'
<1>1. /\ receipts' = receipts \cup {Receipt("retry", e, k)}
      /\ Receipt("retry", e, k) \notin receipts
      /\ generation' = [generation EXCEPT ![e] = @ + 1]
      /\ state' = [state EXCEPT ![e] = "queued"]
  BY DEF Requeue, Record, Fresh
<1>2. /\ Receipt("retry", e, k).op = "retry"
      /\ Receipt("retry", e, k).eff = e
  BY DEF Receipt
<1>3. /\ RetryReceipts(e)' = RetryReceipts(e) \cup {Receipt("retry", e, k)}
      /\ Receipt("retry", e, k) \notin RetryReceipts(e)
  BY <1>1, <1>2 DEF RetryReceipts
<1>4. ASSUME NEW f \in Effects \ {e}
      PROVE  /\ RetryReceipts(f)' = RetryReceipts(f)
             /\ state'[f] = state[f] /\ generation'[f] = generation[f]
  BY <1>1, <1>2 DEF RetryReceipts, TypeOK
<1>5. /\ state'[e] = "queued" /\ generation'[e] = generation[e] + 1
  BY <1>1 DEF TypeOK
<1>6. /\ IsFiniteSet(RetryReceipts(e))
      /\ generation[e] = 1 + Cardinality(RetryReceipts(e))
  BY DEF GenerationsCounted
<1>7. /\ IsFiniteSet(RetryReceipts(e)')
      /\ Cardinality(RetryReceipts(e)') = Cardinality(RetryReceipts(e)) + 1
  BY <1>3, <1>6, FS_AddElement
<1>8. Cardinality(RetryReceipts(e)) \in Nat
  BY <1>6, FS_CardinalityType
<1>9. generation'[e] = 1 + Cardinality(RetryReceipts(e)')
  BY <1>5, <1>6, <1>7, <1>8
<1> QED BY <1>4, <1>5, <1>7, <1>9 DEF GenerationsCounted

\* Every step keeps the count.
LEMMA StepKeepsCount == TypeOK /\ GenerationsCounted /\ [Next]_vars => GenerationsCounted'
<1> SUFFICES ASSUME TypeOK, GenerationsCounted, [Next]_vars
             PROVE  GenerationsCounted'
  OBVIOUS
<1>1. ASSUME NEW e \in Effects, NEW k \in Keys, Control(e, k)
      PROVE  GenerationsCounted'
  <2>1. CASE AcceptAndQueue(e, k)
    <3>1. \A f \in Effects : RetryReceipts(f)' = RetryReceipts(f)
      BY <2>1, OtherReceipts DEF AcceptAndQueue
    <3>2. /\ state[e] = "absent" /\ state'[e] = "queued" /\ generation'[e] = 1
          /\ \A f \in Effects \ {e} :
                state'[f] = state[f] /\ generation'[f] = generation[f]
      BY <2>1 DEF AcceptAndQueue, TypeOK
    <3>3. RetryReceipts(e)' = {} /\ Cardinality({}) = 0
      BY <3>1, <3>2, FS_EmptySet DEF GenerationsCounted
    <3> QED BY <3>1, <3>2, <3>3 DEF GenerationsCounted
  <2>2. CASE Retry(e, k) \/ RetryTagCatalogMutationWithin(e, k)
    BY <2>2, RequeueCounts DEF Retry, MayRetry, RetryTagCatalogMutationWithin
  <2>3. ASSUME generation' = generation, state[e] # "absent",
               NEW s \in States \ {"absent"}, state' = [state EXCEPT ![e] = s],
               NEW op \in {"accept", "cancel", "reconcile", "complete"},
               Record(op, e, k)
        PROVE  GenerationsCounted'
    <3>1. \A f \in Effects : RetryReceipts(f)' = RetryReceipts(f)
      BY <2>3, OtherReceipts
    <3>2. \A f \in Effects : state'[f] = "absent" <=> state[f] = "absent"
      BY <2>3 DEF TypeOK
    <3> QED BY <2>3, <3>1, <3>2, CountFrame
  <2>4. CASE Cancel(e, k) \/ CancelQueuedEffectWithin(e, k)
    BY <2>3, <2>4 DEF Cancel, CancelQueuedEffectWithin, States
  <2>5. CASE Reconcile(e, k) \/ ReconcileByOwner(e, k)
    <3>1. CloseUnknown(e, k)
      BY <2>5 DEF Reconcile, ReconcileByOwner
    <3> QED BY <2>3, <3>1 DEF CloseUnknown, States
  <2>6. CASE CompleteClientEffectWithin(e, k)
    <3>1. PICK s \in {"executed", "outcome_unknown", "final_failed"} :
            state' = [state EXCEPT ![e] = s]
      BY <2>6 DEF CompleteClientEffectWithin
    <3>2. /\ generation' = generation /\ state[e] = "queued"
          /\ Record("complete", e, k)
      BY <2>6 DEF CompleteClientEffectWithin
    <3> QED BY <2>3, <3>1, <3>2 DEF States
  <2> QED BY <1>1, <2>1, <2>2, <2>4, <2>5, <2>6 DEF Control
<1>2. ASSUME generation' = generation, receipts' = receipts,
             \A f \in Effects : state'[f] = "absent" <=> state[f] = "absent"
      PROVE  GenerationsCounted'
  BY <1>2, CountFrame DEF RetryReceipts
<1>3. ASSUME NEW e \in Effects, Claim(e) \/ LeaseExpires(e) \/ RecoverStale(e)
      PROVE  GenerationsCounted'
  BY <1>2, <1>3 DEF Claim, LeaseExpires, RecoverStale, StaleState, TypeOK
<1>4. ASSUME NEW c \in inflight, CallProvider(c) \/ Abandon(c)
      PROVE  GenerationsCounted'
  BY <1>2, <1>4 DEF CallProvider, Abandon
<1>5. ASSUME NEW c \in inflight, RecordOutcome(c) PROVE GenerationsCounted'
  <2>1. c.eff \in Effects /\ c.ans.next # "absent"
    BY DEF TypeOK, Claims, Answers, Outcomes
  <2> QED BY <1>2, <1>5, <2>1 DEF RecordOutcome, OwnsEffect, TypeOK
<1>6. ASSUME NEW j \in jobs, RetireJob(j[1], j[2]) \/ DiscardJob(j[1], j[2])
      PROVE GenerationsCounted'
  BY <1>2, <1>6 DEF RetireJob, DiscardJob
<1>7. CASE UNCHANGED vars
  BY <1>2, <1>7 DEF vars
<1> QED BY <1>1, <1>3, <1>4, <1>5, <1>6, <1>7 DEF Next

\* However often a retry command is repeated, each generation beyond the first
\* has a receipt of its own.
THEOREM RetriesAreAuthorised == Spec => []GenerationsAreAuthorised
<1>1. Init => GenerationsCounted
  <2>1. Init => \A e \in Effects : RetryReceipts(e) = {}
    BY DEF Init, RetryReceipts
  <2> QED BY <2>1, FS_EmptySet DEF Init, GenerationsCounted
<1>2. GenerationsCounted => GenerationsAreAuthorised
  BY DEF GenerationsCounted, GenerationsAreAuthorised, RetryReceipts
<1> QED BY <1>1, <1>2, StepKeepsCount, TypeCorrect, PTL DEF Spec

-----------------------------------------------------------------------------
(* The owner's record *)

\* OwnerAgrees, stating also that the owner knows a running attempt as queued:
\* the sink of the model generations ignores what it is told in any other state.
OwnerFollows ==
    \A e \in Effects : ControlProjects(profile[e]) =>
        \/ state[e] # "attempted" /\ owner[e].state = state[e]
        \/ state[e] = "attempted" /\ owner[e].state = "queued"
        \/ /\ state[e] = "reconciled" /\ owner[e].state = "executed"
           /\ MediaLane(profile[e])
        \/ /\ state[e] = "executed" /\ owner[e].state = "final_failed"
           /\ profile[e].kind \in GenerationKinds

\* The sinks that hear of every change mirror what they are told, but for an
\* unusable model output.
LEMMA SinkMirrors ==
    ASSUME NEW p \in Profiles, NEW own, NEW c, ControlProjects(p),
           NEW record \in CompleteEffect(p, own, c),
           own.state = "queued" \/ c.state \notin Outcomes
    PROVE  \/ record.state = c.state
           \/ /\ c.state = "executed" /\ record.state = "final_failed"
              /\ p.kind \in GenerationKinds
<1>1. Mirror(c).state = c.state
      /\ Told("final_failed", c.attempt, c.generation).state = "final_failed"
  BY DEF Mirror, Told
<1>2. CASE p.kind \in GenerationKinds
  <2>1. record \in GenerationSink(own, c) \/ record \in RecommendationSink(own, c)
    BY <1>2 DEF CompleteEffect, GenerationKinds, OpsKind, PaymentKinds, OutboundKinds
  <2>2. record \in UsableOrNot(c)
    BY <2>1 DEF GenerationSink, RecommendationSink, Outcomes
  <2> QED BY <1>1, <1>2, <2>2 DEF UsableOrNot
<1>3. CASE p.kind \notin GenerationKinds
  <2>1. \/ p.kind = OpsKind
        \/ p.kind \in {"wecom_tag_catalog", "wecom_tag_catalog_mutation",
               "outbound_message", "automation_message", "group_invitation_code"}
        \/ p.kind = "outbound_media" /\ MediaLane(p)
    BY <1>3 DEF ControlProjects, MediaLane, GenerationKinds
  <2>2. CASE p.kind = OpsKind
    <3>1. record \in OpsReportSink(own, c)
      BY <2>2 DEF CompleteEffect, OpsKind, PaymentKinds, OutboundKinds
    <3> QED BY <1>1, <3>1 DEF OpsReportSink
  <2>3. CASE p.kind # OpsKind
    <3>1. p.kind \in OutboundKinds /\ p.kind \notin PaymentKinds
      BY <2>1, <2>3 DEF OutboundKinds, PaymentKinds
    <3>2. CompleteEffect(p, own, c) = OutboundRouter(p, own, c)
      BY <1>3, <2>3, <3>1 DEF CompleteEffect, GenerationKinds
    <3>3. \/ record \in PrivateMessageSink(own, c)
          \/ record \in AutomationMessageSink(own, c)
          \/ record \in TagCatalogSink(own, c)
          \/ record \in TagMutationSink(own, c)
          \/ record \in InvitationCodeSink(own, c)
          \/ record \in MaterialSink(own, c)
      BY <2>1, <2>3, <3>2 DEF OutboundRouter
    <3>4. record = Mirror(c)
      BY <3>3 DEF PrivateMessageSink, AutomationMessageSink, TagCatalogSink,
         TagMutationSink, InvitationCodeSink, MaterialSink, When
    <3> QED BY <1>1, <3>4
  <2> QED BY <2>2, <2>3
<1> QED BY <1>2, <1>3

\* The material sink takes no upload as done without its artifact: this is what
\* refuses a cancel or a retry on the media lane.
LEMMA MediaWantsArtifact ==
    ASSUME NEW p \in Profiles, NEW own, NEW c, MediaLane(p),
           c.state = "executed", c.artifact = FALSE
    PROVE  CompleteEffect(p, own, c) = {}
<1>1. p.kind = "outbound_media"
  BY DEF MediaLane
<1>2. CompleteEffect(p, own, c) = MaterialSink(own, c)
  BY <1>1 DEF CompleteEffect, OutboundRouter, OutboundKinds, PaymentKinds, OpsKind
<1> QED BY <1>2 DEF MaterialSink, ArtifactGiven, When

\* What an administrator's command leaves in the owner's record.
LEMMA ControlIsHeard ==
    ASSUME TypeOK, NEW e \in Effects, ControlProjects(profile[e]),
           NEW s \in {"cancelled", "queued", "reconciled"}, NEW g,
           TellControl(e, s, FALSE, g)
    PROVE  /\ owner'[e].state = s
           /\ \A f \in Effects \ {e} : owner'[f] = owner[f]
<1> DEFINE told == IF MediaLane(profile[e]) /\ s # "reconciled"
                   THEN "executed" ELSE s
           c == Completion(told, FALSE, FALSE, FALSE, attemptCount[e], g)
<1>1. c.state = told /\ c.artifact = FALSE
  BY DEF Completion
<1>2. PICK record \in CompleteEffect(profile[e], owner[e], c) :
        owner' = [owner EXCEPT ![e] = record]
  BY DEF TellControl, Tell
<1>3. profile[e] \in Profiles
  BY DEF TypeOK
<1>4. told = s
  BY <1>1, <1>2, <1>3, MediaWantsArtifact
<1>5. c.state = s /\ s \notin Outcomes /\ s # "executed"
  BY <1>1, <1>4 DEF Outcomes
<1> HIDE DEF told, c
<1>6. record.state = s
  BY <1>2, <1>3, <1>5, SinkMirrors
<1> QED BY <1>2, <1>6 DEF TypeOK

\* A step on one effect keeps the agreement of the others.
LEMMA OthersFollow ==
    ASSUME TypeOK, OwnerFollows, NEW e \in Effects, profile' = profile,
           NEW s, state' = [state EXCEPT ![e] = s],
           \A f \in Effects \ {e} : owner'[f] = owner[f],
           ControlProjects(profile[e]) =>
                \/ s # "attempted" /\ owner'[e].state = s
                \/ s = "attempted" /\ owner'[e].state = "queued"
                \/ /\ s = "reconciled" /\ owner'[e].state = "executed"
                   /\ MediaLane(profile[e])
                \/ /\ s = "executed" /\ owner'[e].state = "final_failed"
                   /\ profile[e].kind \in GenerationKinds
    PROVE  OwnerFollows'
<1>1. state'[e] = s /\ \A f \in Effects \ {e} : state'[f] = state[f]
  BY DEF TypeOK
<1> QED BY <1>1 DEF OwnerFollows, ControlProjects, MediaLane, GenerationKinds

\* Administrators' and owners' commands keep the agreement.
LEMMA ControlKeepsOwner ==
    ASSUME TypeOK, OwnerFollows, NEW e \in Effects, NEW k \in Keys, Control(e, k)
    PROVE  OwnerFollows'
<1>1. \A s, n, g : Told(s, n, g).state = s
  BY DEF Told
<1>2. CASE AcceptAndQueue(e, k)
  <2>1. /\ profile' = profile /\ state' = [state EXCEPT ![e] = "queued"]
        /\ owner' = [owner EXCEPT ![e] = Told("queued", 0, 0)]
    BY <1>2 DEF AcceptAndQueue
  <2>2. /\ owner'[e].state = "queued"
        /\ \A f \in Effects \ {e} : owner'[f] = owner[f]
    BY <1>1, <2>1 DEF TypeOK
  <2> QED BY <2>1, <2>2, OthersFollow
<1>3. ASSUME profile' = profile, NEW s \in {"cancelled", "queued", "reconciled"}, NEW g,
             state' = [state EXCEPT ![e] = s], TellControl(e, s, FALSE, g)
      PROVE  OwnerFollows'
  <2>1. CASE ControlProjects(profile[e])
    BY <1>3, <2>1, ControlIsHeard, OthersFollow
  <2>2. CASE ~ControlProjects(profile[e])
    BY <1>3, <2>2, OthersFollow DEF TellControl
  <2> QED BY <2>1, <2>2
<1>4. CASE Cancel(e, k)
  BY <1>3, <1>4 DEF Cancel
<1>5. CASE CancelQueuedEffectWithin(e, k)
  <2>1. ~ControlProjects(profile[e])
    BY <1>5 DEF CancelQueuedEffectWithin, ControlProjects, MediaLane, OpsKind
  <2> QED BY <1>5, <2>1, OthersFollow DEF CancelQueuedEffectWithin, TypeOK
<1>6. CASE Retry(e, k) \/ RetryTagCatalogMutationWithin(e, k)
  BY <1>3, <1>6 DEF Retry, RetryTagCatalogMutationWithin, Requeue
<1>7. CASE Reconcile(e, k)
  <2>1. profile' = profile /\ state' = [state EXCEPT ![e] = "reconciled"]
    BY <1>7 DEF Reconcile, CloseUnknown
  <2>2. CASE TellControl(e, "reconciled", FALSE, generation[e])
    BY <1>3, <2>1, <2>2
  <2>3. CASE MediaLane(profile[e]) /\ TellControl(e, "executed", TRUE, generation[e])
    <3> DEFINE c == Completion("executed", FALSE, FALSE, TRUE, attemptCount[e],
                               generation[e])
    <3>1. c.state = "executed"
      BY DEF Completion
    <3>2. PICK record \in CompleteEffect(profile[e], owner[e], c) :
            owner' = [owner EXCEPT ![e] = record]
      BY <2>3 DEF TellControl, Tell, ControlProjects
    <3>3. CompleteEffect(profile[e], owner[e], c) = MaterialSink(owner[e], c)
      BY <2>3 DEF CompleteEffect, OutboundRouter, OutboundKinds, PaymentKinds,
         OpsKind, MediaLane
    <3> HIDE DEF c
    <3>4. record.state = "executed"
      BY <3>1, <3>2, <3>3 DEF MaterialSink, When, Mirror, Told
    <3> QED BY <2>1, <2>3, <3>2, <3>4, OthersFollow DEF TypeOK
  <2> QED BY <1>7, <2>2, <2>3 DEF Reconcile
<1>8. CASE ReconcileByOwner(e, k)
  <2>1. /\ profile' = profile /\ state' = [state EXCEPT ![e] = "reconciled"]
        /\ ~MediaLane(profile[e])
    BY <1>8 DEF ReconcileByOwner, CloseUnknown
  <2>2. CASE TellControl(e, "reconciled", FALSE, generation[e])
    BY <1>3, <2>1, <2>2
  <2>3. CASE ~TellControl(e, "reconciled", FALSE, generation[e])
    <3>1. /\ profile[e].kind \in ChannelAssetKinds \cup {"group_message", "outbound_media"}
          /\ \A f \in Effects \ {e} : owner'[f] = owner[f]
      BY <1>8, <2>3
      DEF ReconcileByOwner, TypeOK, MessageKinds, ChannelAssetKinds
    <3>2. ~ControlProjects(profile[e])
      BY <2>1, <3>1 DEF ControlProjects, ChannelAssetKinds, OpsKind
    <3> QED BY <2>1, <3>1, <3>2, OthersFollow
  <2> QED BY <2>2, <2>3
<1>9. CASE CompleteClientEffectWithin(e, k)
  <2>1. ~ControlProjects(profile[e])
    BY <1>9 DEF CompleteClientEffectWithin, ControlProjects, MediaLane, OpsKind
  <2>2. PICK s : state' = [state EXCEPT ![e] = s]
    BY <1>9 DEF CompleteClientEffectWithin
  <2> QED BY <1>9, <2>1, <2>2, OthersFollow DEF CompleteClientEffectWithin, TypeOK
<1> QED BY <1>2, <1>4, <1>5, <1>6, <1>7, <1>8, <1>9 DEF Control

\* A recorded outcome keeps it: the automatic retry is told as queued, anything
\* else as what it is.
LEMMA RecordKeepsOwner ==
    ASSUME TypeOK, OwnerFollows, NEW c \in inflight, RecordOutcome(c)
    PROVE  OwnerFollows'
<1> DEFINE persisted == IF AutoRetries(c) THEN "queued" ELSE c.ans.next
<1>1. c.eff \in Effects /\ c.ans.next \in Outcomes
  BY DEF TypeOK, Claims, Answers
<1>2. /\ profile' = profile /\ state[c.eff] = "attempted"
      /\ state' = [state EXCEPT ![c.eff] = persisted]
      /\ Tell(c.eff, Announced(c))
  BY DEF RecordOutcome, OwnsEffect
<1>3. Announced(c).state = persisted
  BY DEF Announced, Completion
<1>4. persisted # "attempted"
  BY <1>1 DEF Outcomes
<1> HIDE DEF persisted
<1>5. PICK record \in CompleteEffect(profile[c.eff], owner[c.eff], Announced(c)) :
        owner' = [owner EXCEPT ![c.eff] = record]
  BY <1>2 DEF Tell
<1>6. owner'[c.eff] = record /\ \A f \in Effects \ {c.eff} : owner'[f] = owner[f]
  BY <1>1, <1>5 DEF TypeOK
<1>7. ASSUME ControlProjects(profile[c.eff])
      PROVE  \/ record.state = persisted
             \/ /\ persisted = "executed" /\ record.state = "final_failed"
                /\ profile[c.eff].kind \in GenerationKinds
  <2>1. owner[c.eff].state = "queued" /\ profile[c.eff] \in Profiles
    BY <1>1, <1>2, <1>7 DEF OwnerFollows, TypeOK
  <2> QED BY <1>3, <1>5, <1>7, <2>1, SinkMirrors
<1> QED BY <1>1, <1>2, <1>4, <1>6, <1>7, OthersFollow

\* So does the recovery of a stale attempt: every kind that hears of commands is
\* in the list of the lease recovery too.
LEMMA RecoverKeepsOwner ==
    ASSUME TypeOK, OwnerFollows, NEW e \in Effects, RecoverStale(e)
    PROVE  OwnerFollows'
<1>1. /\ profile' = profile /\ state[e] = "attempted"
      /\ state' = [state EXCEPT ![e] = "outcome_unknown"]
  BY DEF RecoverStale, StaleState
<1>2. CASE ~ControlProjects(profile[e])
  <2>1. \A f \in Effects \ {e} : owner'[f] = owner[f]
    BY DEF RecoverStale, Tell, TypeOK
  <2> QED BY <1>1, <1>2, <2>1, OthersFollow
<1>3. CASE ControlProjects(profile[e])
  <2>1. profile[e].kind \in projectsStaleAttempt
    BY <1>3 DEF ControlProjects, MediaLane, projectsStaleAttempt
  <2>2. PICK record \in CompleteEffect(profile[e], owner[e], StaleCompletion(e)) :
          owner' = [owner EXCEPT ![e] = record]
    BY <2>1 DEF RecoverStale, Tell
  <2>3. StaleCompletion(e).state = "outcome_unknown"
    BY DEF StaleCompletion, StaleState, Completion
  <2>4. owner[e].state = "queued" /\ profile[e] \in Profiles
    BY <1>1, <1>3 DEF OwnerFollows, TypeOK
  <2>5. record.state = "outcome_unknown"
    BY <1>3, <2>2, <2>3, <2>4, SinkMirrors
  <2> QED BY <1>1, <2>2, <2>5, OthersFollow DEF TypeOK
<1> QED BY <1>2, <1>3

\* Every step keeps the owner's record in agreement.
LEMMA StepKeepsOwner == TypeOK /\ OwnerFollows /\ [Next]_vars => OwnerFollows'
<1> SUFFICES ASSUME TypeOK, OwnerFollows, [Next]_vars PROVE OwnerFollows'
  OBVIOUS
<1>1. ASSUME UNCHANGED <<profile, state, owner>> PROVE OwnerFollows'
  BY <1>1 DEF OwnerFollows, ControlProjects, MediaLane, GenerationKinds
<1>2. ASSUME NEW e \in Effects, NEW k \in Keys, Control(e, k) PROVE OwnerFollows'
  BY <1>2, ControlKeepsOwner
<1>3. ASSUME NEW e \in Effects, Claim(e) PROVE OwnerFollows'
  <2>1. ControlProjects(profile[e]) => owner[e].state = "queued"
    BY <1>3 DEF Claim, OwnerFollows
  <2> QED BY <1>3, <2>1, OthersFollow DEF Claim
<1>4. ASSUME NEW c \in inflight, RecordOutcome(c) PROVE OwnerFollows'
  BY <1>4, RecordKeepsOwner
<1>5. ASSUME NEW e \in Effects, RecoverStale(e) PROVE OwnerFollows'
  BY <1>5, RecoverKeepsOwner
<1>6. ASSUME NEW c \in inflight, CallProvider(c) \/ Abandon(c) PROVE OwnerFollows'
  BY <1>1, <1>6 DEF CallProvider, Abandon
<1>7. ASSUME NEW e \in Effects, LeaseExpires(e) PROVE OwnerFollows'
  BY <1>1, <1>7 DEF LeaseExpires
<1>8. ASSUME NEW j \in jobs, RetireJob(j[1], j[2]) \/ DiscardJob(j[1], j[2])
      PROVE OwnerFollows'
  BY <1>1, <1>8 DEF RetireJob, DiscardJob
<1>9. CASE UNCHANGED vars
  BY <1>1, <1>9 DEF vars
<1> QED
  BY <1>2, <1>3, <1>4, <1>5, <1>6, <1>7, <1>8, <1>9 DEF Next

\* The record is in agreement from the start.
LEMMA OwnerInvariant == Spec => []OwnerFollows
<1>1. Init => OwnerFollows
  BY DEF Init, OwnerFollows, Told
<1> QED BY <1>1, StepKeepsOwner, TypeCorrect, PTL DEF Spec

\* The owners that hear of every change agree with the kernel in every settled
\* state, whichever transaction led to it.
THEOREM OwnersAgree == Spec => []OwnerAgrees
<1>1. OwnerFollows => OwnerAgrees
  BY DEF OwnerFollows, OwnerAgrees
<1> QED BY <1>1, OwnerInvariant, PTL

-----------------------------------------------------------------------------
(* Attempt rows: an unknown outcome can be closed *)

CurrentRow(e, r) ==
    /\ r.number = attemptCount[e] /\ r.generation = generation[e]
    /\ r.fence = leaseFence[e] /\ r.state = "attempted"

\* The attempt rows of one effect: numbers and fences are within the counters,
\* a fence names one row, and a running or unknown attempt has the row that the
\* next transaction looks up by generation and fence.
RowsOf(e) ==
    /\ \A r \in attempts[e] :
        r.number \in 1 .. attemptCount[e] /\ r.fence \in 0 .. leaseFence[e]
    /\ \A r, q \in attempts[e] : r.fence = q.fence => r = q
    /\ state[e] = "attempted" => \E r \in attempts[e] : CurrentRow(e, r)
    /\ state[e] = "outcome_unknown" => \E r \in attempts[e] : UnknownRow(e, r)

\* A row that the browser completes has fence 0, which is the effect's fence only
\* because a JSSDK send is never offered again once a worker has claimed it.
BrowserOf(e) ==
    profile[e].kind = "sidebar_jssdk_send" =>
        /\ state[e] # "retryable_failed"
        /\ state[e] \in {"absent", "queued"} => attempts[e] = {} /\ leaseFence[e] = 0

RowsInStep == \A e \in Effects : RowsOf(e) /\ BrowserOf(e)

\* What a step leaves alone stays in step.
LEMMA RowsFrame ==
    ASSUME NEW f, RowsOf(f), BrowserOf(f), profile'[f] = profile[f],
           state'[f] = state[f], generation'[f] = generation[f],
           attemptCount'[f] = attemptCount[f], leaseFence'[f] = leaseFence[f],
           attempts'[f] = attempts[f]
    PROVE  RowsOf(f)' /\ BrowserOf(f)'
BY DEF RowsOf, BrowserOf, CurrentRow, UnknownRow

\* An effect that leaves the running and unknown states, its rows untouched.
LEMMA RowsKept ==
    ASSUME TypeOK, RowsInStep, NEW e \in Effects,
           NEW s \in {"queued", "cancelled"}, state' = [state EXCEPT ![e] = s],
           UNCHANGED <<profile, attemptCount, leaseFence, attempts>>,
           \A f \in Effects \ {e} : generation'[f] = generation[f],
           state[e] \in {"absent", "queued"}
               \/ profile[e].kind # "sidebar_jssdk_send"
    PROVE  RowsInStep'
<1>1. state'[e] = s /\ \A f \in Effects \ {e} : state'[f] = state[f]
  BY DEF TypeOK
<1>2. \A f \in Effects \ {e} : RowsOf(f)' /\ BrowserOf(f)'
  BY <1>1, RowsFrame DEF RowsInStep
<1>3. RowsOf(e)'
  BY <1>1 DEF RowsInStep, RowsOf
<1>4. BrowserOf(e)'
  BY <1>1 DEF RowsInStep, BrowserOf
<1> QED BY <1>2, <1>3, <1>4 DEF RowsInStep

\* A row is settled in place: it keeps its number, generation and fence.
LEMMA SettleKeepsRows ==
    ASSUME TypeOK, RowsInStep, NEW e \in Effects, NEW r \in attempts[e], NEW t,
           NEW s, NEW b1, NEW b2, NEW p, state' = [state EXCEPT ![e] = s],
           attempts' = [attempts EXCEPT ![e] =
                (@ \ {r}) \cup {Settled(r, t, b1, b2, p)}],
           UNCHANGED <<profile, generation, attemptCount, leaseFence>>,
           s # "attempted",
           s = "outcome_unknown" =>
                /\ t = "outcome_unknown"
                /\ r.generation = generation[e] /\ r.fence = leaseFence[e],
           profile[e].kind = "sidebar_jssdk_send" =>
                s \notin {"retryable_failed", "absent", "queued"}
    PROVE  RowsInStep'
<1> DEFINE new == Settled(r, t, b1, b2, p)
<1>1. /\ new.number = r.number /\ new.generation = r.generation
      /\ new.fence = r.fence /\ new.state = t
  BY DEF Settled
<1>2. /\ state'[e] = s /\ attempts'[e] = (attempts[e] \ {r}) \cup {new}
      /\ \A f \in Effects \ {e} : state'[f] = state[f] /\ attempts'[f] = attempts[f]
  BY DEF TypeOK
<1> HIDE DEF new
<1>3. \A f \in Effects \ {e} : RowsOf(f)' /\ BrowserOf(f)'
  BY <1>2, RowsFrame DEF RowsInStep
<1>4. RowsOf(e)'
  <2>1. \A q \in attempts'[e] :
          q.number \in 1 .. attemptCount[e] /\ q.fence \in 0 .. leaseFence[e]
    BY <1>1, <1>2 DEF RowsInStep, RowsOf
  <2>2. \A q, v \in attempts'[e] : q.fence = v.fence => q = v
    BY <1>1, <1>2 DEF RowsInStep, RowsOf
  <2>3. s = "outcome_unknown" => \E q \in attempts'[e] :
          /\ q.generation = generation[e] /\ q.fence = leaseFence[e]
          /\ q.state = "outcome_unknown"
    BY <1>1, <1>2
  <2> QED BY <1>2, <2>1, <2>2, <2>3 DEF RowsOf, UnknownRow
<1>5. BrowserOf(e)'
  BY <1>2 DEF BrowserOf
<1> QED BY <1>3, <1>4, <1>5 DEF RowsInStep

\* A new row is the current one.
LEMMA NewRow ==
    ASSUME TypeOK, RowsInStep, NEW e \in Effects, NEW r, NEW s,
           state' = [state EXCEPT ![e] = s],
           attempts' = [attempts EXCEPT ![e] = @ \cup {r}],
           UNCHANGED <<profile, generation>>,
           attemptCount' = [attemptCount EXCEPT ![e] = @ + 1],
           \A f \in Effects \ {e} : leaseFence'[f] = leaseFence[f],
           leaseFence[e] <= leaseFence'[e], leaseFence'[e] \in Nat,
           r.number = attemptCount[e] + 1, r.generation = generation[e],
           r.fence = leaseFence'[e], r.state = s,
           \A q \in attempts[e] : q.fence # r.fence,
           s \notin {"absent", "queued", "retryable_failed"}
    PROVE  RowsInStep'
<1>1. /\ state'[e] = s /\ attempts'[e] = attempts[e] \cup {r}
      /\ attemptCount'[e] = attemptCount[e] + 1
      /\ \A f \in Effects \ {e} : /\ state'[f] = state[f]
                                  /\ attempts'[f] = attempts[f]
                                  /\ attemptCount'[f] = attemptCount[f]
  BY DEF TypeOK
<1>2. \A f \in Effects \ {e} : RowsOf(f)' /\ BrowserOf(f)'
  BY <1>1, RowsFrame DEF RowsInStep
<1>3. RowsOf(e)'
  <2>1. \A q \in attempts'[e] :
          q.number \in 1 .. attemptCount'[e] /\ q.fence \in 0 .. leaseFence'[e]
    <3>1. attemptCount[e] \in Nat /\ leaseFence[e] \in Nat
      BY DEF TypeOK
    <3>2. \A q \in attempts[e] :
            q.number \in 1 .. attemptCount[e] /\ q.fence \in 0 .. leaseFence[e]
      BY DEF RowsInStep, RowsOf
    <3> QED BY <1>1, <3>1, <3>2
  <2>2. \A q, v \in attempts'[e] : q.fence = v.fence => q = v
    BY <1>1 DEF RowsInStep, RowsOf
  <2>3. r \in attempts'[e]
    BY <1>1
  <2> QED BY <1>1, <2>1, <2>2, <2>3 DEF RowsOf, CurrentRow, UnknownRow
<1>4. BrowserOf(e)'
  BY <1>1 DEF BrowserOf
<1> QED BY <1>2, <1>3, <1>4 DEF RowsInStep

\* Commands keep the rows in step.
LEMMA ControlKeepsRows ==
    ASSUME TypeOK, RowsInStep, NEW e \in Effects, NEW k \in Keys, Control(e, k)
    PROVE  RowsInStep'
<1>1. CASE AcceptAndQueue(e, k)
  <2>1. \A f \in Effects \ {e} : generation'[f] = generation[f]
    BY <1>1 DEF AcceptAndQueue, TypeOK
  <2> QED BY <1>1, <2>1, RowsKept DEF AcceptAndQueue
<1>2. CASE Cancel(e, k) \/ CancelQueuedEffectWithin(e, k)
  BY <1>2, RowsKept DEF Cancel, CancelQueuedEffectWithin
<1>3. CASE Retry(e, k) \/ RetryTagCatalogMutationWithin(e, k)
  <2>1. Requeue(e, k) /\ profile[e].kind # "sidebar_jssdk_send"
    BY <1>3 DEF Retry, MayRetry, RetryTagCatalogMutationWithin, RowsInStep, BrowserOf
  <2>2. \A f \in Effects \ {e} : generation'[f] = generation[f]
    BY <2>1 DEF Requeue, TypeOK
  <2> QED BY <2>1, <2>2, RowsKept DEF Requeue
<1>4. CASE Reconcile(e, k) \/ ReconcileByOwner(e, k)
  <2>1. CloseUnknown(e, k)
    BY <1>4 DEF Reconcile, ReconcileByOwner
  <2>2. PICK r \in attempts[e] : attempts' = [attempts EXCEPT ![e] =
            (@ \ {r}) \cup {Settled(r, "reconciled", r.called, r.real, r.proof)}]
    BY <2>1 DEF CloseUnknown
  <2>3. /\ state' = [state EXCEPT ![e] = "reconciled"]
        /\ UNCHANGED <<profile, generation, attemptCount, leaseFence>>
    BY <2>1 DEF CloseUnknown
  <2> QED BY <2>2, <2>3, SettleKeepsRows
<1>5. CASE CompleteClientEffectWithin(e, k)
  <2>1. PICK s \in {"executed", "outcome_unknown", "final_failed"} :
        /\ attempts' = [attempts EXCEPT ![e] = @ \cup
                {[number |-> attemptCount[e] + 1, generation |-> generation[e],
                  fence |-> 0, state |-> s, called |-> TRUE,
                  real |-> s # "final_failed", proof |-> "plain"]}]
        /\ state' = [state EXCEPT ![e] = s]
    BY <1>5 DEF CompleteClientEffectWithin
  <2>2. attempts[e] = {} /\ leaseFence[e] = 0
    BY <1>5 DEF CompleteClientEffectWithin, RowsInStep, BrowserOf
  <2> DEFINE row == [number |-> attemptCount[e] + 1, generation |-> generation[e],
                     fence |-> 0, state |-> s, called |-> TRUE,
                     real |-> s # "final_failed", proof |-> "plain"]
  <2>3. /\ row.number = attemptCount[e] + 1 /\ row.generation = generation[e]
        /\ row.fence = 0 /\ row.state = s
    OBVIOUS
  <2>4. attempts' = [attempts EXCEPT ![e] = @ \cup {row}]
    BY <2>1
  <2> HIDE DEF row
  <2>5. /\ UNCHANGED <<profile, generation, leaseFence>>
        /\ attemptCount' = [attemptCount EXCEPT ![e] = @ + 1]
    BY <1>5 DEF CompleteClientEffectWithin
  <2>6. /\ leaseFence'[e] = 0 /\ leaseFence[e] <= leaseFence'[e]
        /\ leaseFence'[e] \in Nat
        /\ \A f \in Effects \ {e} : leaseFence'[f] = leaseFence[f]
    BY <2>2, <2>5
  <2> QED BY <2>1, <2>2, <2>3, <2>4, <2>5, <2>6, NewRow
<1> QED BY <1>1, <1>2, <1>3, <1>4, <1>5 DEF Control

\* The worker's transactions keep the rows in step.
LEMMA WorkerKeepsRows ==
    ASSUME TypeOK, RowsInStep, NEW e \in Effects
    PROVE  /\ Claim(e) => RowsInStep'
           /\ RecoverStale(e) => RowsInStep'
           /\ \A c \in inflight : RecordOutcome(c) => RowsInStep'
<1>1. ASSUME Claim(e) PROVE RowsInStep'
  <2> DEFINE row == [number |-> attemptCount[e] + 1,
              generation |-> generation[e], fence |-> leaseFence[e] + 1,
              state |-> "attempted", called |-> FALSE, real |-> FALSE,
              proof |-> "plain"]
  <2>1. /\ row.number = attemptCount[e] + 1 /\ row.generation = generation[e]
        /\ row.fence = leaseFence[e] + 1 /\ row.state = "attempted"
    OBVIOUS
  <2>2. attempts' = [attempts EXCEPT ![e] = @ \cup {row}]
    BY <1>1 DEF Claim
  <2> HIDE DEF row
  <2>3. /\ state' = [state EXCEPT ![e] = "attempted"]
        /\ UNCHANGED <<profile, generation>>
        /\ attemptCount' = [attemptCount EXCEPT ![e] = @ + 1]
        /\ leaseFence' = [leaseFence EXCEPT ![e] = @ + 1]
    BY <1>1 DEF Claim
  <2>4. leaseFence[e] \in Nat
    BY DEF TypeOK
  <2>5. /\ leaseFence'[e] = leaseFence[e] + 1
        /\ \A f \in Effects \ {e} : leaseFence'[f] = leaseFence[f]
    BY <2>3 DEF TypeOK
  <2>6. leaseFence'[e] \in Nat /\ leaseFence[e] <= leaseFence'[e]
    BY <2>4, <2>5
  <2>7. \A q \in attempts[e] : q.fence # row.fence
    BY <2>1, <2>4 DEF RowsInStep, RowsOf
  <2> QED BY <2>1, <2>2, <2>3, <2>5, <2>6, <2>7, NewRow
<1>2. ASSUME RecoverStale(e) PROVE RowsInStep'
  <2>1. PICK r \in attempts[e] :
        /\ r.generation = generation[e] /\ r.fence = leaseFence[e]
        /\ attempts' = [attempts EXCEPT ![e] = (@ \ {r}) \cup
                {Settled(r, "outcome_unknown", r.called, r.real, r.proof)}]
    BY <1>2 DEF RecoverStale, StaleState
  <2>2. /\ state' = [state EXCEPT ![e] = "outcome_unknown"]
        /\ UNCHANGED <<profile, generation, attemptCount, leaseFence>>
    BY <1>2 DEF RecoverStale, StaleState
  <2> QED BY <2>1, <2>2, SettleKeepsRows
<1>3. ASSUME NEW c \in inflight, RecordOutcome(c) PROVE RowsInStep'
  <2> DEFINE persisted == IF AutoRetries(c) THEN "queued" ELSE c.ans.next
  <2>1. c.eff \in Effects /\ c.ans.next \in Outcomes
    BY DEF TypeOK, Claims, Answers
  <2>2. PICK r \in attempts[c.eff] :
        /\ OwnsRow(c, r)
        /\ attempts' = [attempts EXCEPT ![c.eff] = (@ \ {r}) \cup
              {Settled(r, c.ans.next, c.ans.called, c.ans.real, c.ans.proof)}]
    BY <1>3 DEF RecordOutcome
  <2>3. /\ state' = [state EXCEPT ![c.eff] = persisted]
        /\ UNCHANGED <<profile, generation, attemptCount, leaseFence>>
        /\ Tell(c.eff, Announced(c))
        /\ OwnsEffect(c)
    BY <1>3 DEF RecordOutcome
  <2>4. /\ persisted # "attempted"
        /\ persisted = "outcome_unknown" => c.ans.next = "outcome_unknown"
    BY <2>1 DEF Outcomes
  <2>5. r.generation = generation[c.eff] /\ r.fence = leaseFence[c.eff]
    BY <2>2, <2>3 DEF OwnsRow, OwnsEffect
  <2>6. Announced(c).state = persisted
    BY DEF Announced, Completion
  <2> HIDE DEF persisted
  <2>7. ASSUME profile[c.eff].kind = "sidebar_jssdk_send"
        PROVE  persisted = "outcome_unknown"
    <3>1. CompleteEffect(profile[c.eff], owner[c.eff], Announced(c)) # {}
      BY <2>3 DEF Tell
    <3>2. CompleteEffect(profile[c.eff], owner[c.eff], Announced(c))
            = SidebarExpirySink(owner[c.eff], Announced(c))
      BY <2>7 DEF CompleteEffect, OutboundRouter, OutboundKinds, PaymentKinds, OpsKind
    <3> QED BY <2>6, <3>1, <3>2 DEF SidebarExpirySink, When
  <2>8. PICK f \in Effects : f = c.eff
    BY <2>1
  <2> QED BY <2>2, <2>3, <2>4, <2>5, <2>7, <2>8, SettleKeepsRows
<1> QED BY <1>1, <1>2, <1>3

\* Every step keeps the rows in step.
LEMMA StepKeepsRows == TypeOK /\ RowsInStep /\ [Next]_vars => RowsInStep'
<1> SUFFICES ASSUME TypeOK, RowsInStep, [Next]_vars PROVE RowsInStep'
  OBVIOUS
<1>1. ASSUME UNCHANGED <<profile, state, generation, attemptCount, leaseFence, attempts>>
      PROVE  RowsInStep'
  BY <1>1, RowsFrame DEF RowsInStep
<1>2. ASSUME NEW e \in Effects, NEW k \in Keys, Control(e, k) PROVE RowsInStep'
  BY <1>2, ControlKeepsRows
<1>3. ASSUME NEW e \in Effects, Claim(e) \/ RecoverStale(e) PROVE RowsInStep'
  BY <1>3, WorkerKeepsRows
<1>4. ASSUME NEW c \in inflight, RecordOutcome(c) PROVE RowsInStep'
  <2>1. c.eff \in Effects
    BY DEF TypeOK, Claims
  <2> QED BY <1>4, <2>1, WorkerKeepsRows
<1>5. ASSUME NEW c \in inflight, CallProvider(c) \/ Abandon(c) PROVE RowsInStep'
  BY <1>1, <1>5 DEF CallProvider, Abandon
<1>6. ASSUME NEW e \in Effects, LeaseExpires(e) PROVE RowsInStep'
  BY <1>1, <1>6 DEF LeaseExpires
<1>7. ASSUME NEW j \in jobs, RetireJob(j[1], j[2]) \/ DiscardJob(j[1], j[2])
      PROVE RowsInStep'
  BY <1>1, <1>7 DEF RetireJob, DiscardJob
<1>8. CASE UNCHANGED vars
  BY <1>1, <1>8 DEF vars
<1> QED BY <1>2, <1>3, <1>4, <1>5, <1>6, <1>7, <1>8 DEF Next

\* The sink of an owner that shows the outcome as unknown takes the verdict.
LEMMA VerdictIsTaken ==
    ASSUME NEW p \in Profiles, NEW own, NEW n \in Nat, NEW g,
           ControlProjects(p), p.kind \notin CannotBeReconciled,
           own.state = "outcome_unknown", n >= 1
    PROVE  SinkTakes(p, own, Completion("reconciled", FALSE, FALSE, FALSE, n, g))
<1> DEFINE c == Completion("reconciled", FALSE, FALSE, FALSE, n, g)
<1>1. c.state = "reconciled" /\ c.attempt = n /\ ArtifactGiven(c)
  BY DEF Completion, ArtifactGiven
<1> HIDE DEF c
<1>2. \/ p.kind = OpsKind
      \/ p.kind \in {"wecom_tag_catalog", "wecom_tag_catalog_mutation",
               "outbound_message", "automation_message"}
      \/ p.kind = "outbound_media" /\ MediaLane(p)
  BY DEF ControlProjects, MediaLane, CannotBeReconciled, GenerationKinds
<1>3. CASE p.kind = OpsKind
  <2>1. CompleteEffect(p, own, c) = OpsReportSink(own, c)
    BY <1>3 DEF CompleteEffect, OpsKind, PaymentKinds, OutboundKinds
  <2> QED BY <2>1 DEF OpsReportSink, SinkTakes, c
<1>4. CASE p.kind # OpsKind
  <2>1. CompleteEffect(p, own, c) = OutboundRouter(p, own, c)
    BY <1>2, <1>4 DEF CompleteEffect, OutboundKinds, PaymentKinds
  <2>2. /\ PrivateMessageSink(own, c) # {} /\ AutomationMessageSink(own, c) # {}
        /\ TagCatalogSink(own, c) # {} /\ TagMutationSink(own, c) # {}
        /\ MaterialSink(own, c) # {}
    BY <1>1 DEF PrivateMessageSink, AutomationMessageSink, TagCatalogSink,
       TagMutationSink, MaterialSink, When, MessageStates, Open
  <2>3. OutboundRouter(p, own, c) # {}
    BY <1>2, <1>4, <2>2 DEF OutboundRouter
  <2> QED BY <2>1, <2>3 DEF SinkTakes, c
<1> QED BY <1>3, <1>4

\* An unknown outcome always has exactly one row to close, and its owner's sink
\* takes the verdict, whatever led there.
THEOREM UnknownIsClosable == Spec => []UnknownIsReconcilable
<1>1. Init => RowsInStep
  BY DEF Init, RowsInStep, RowsOf, BrowserOf
<1>2. ASSUME TypeOK, RowsInStep, OwnerFollows PROVE UnknownIsReconcilable
  <2> SUFFICES ASSUME NEW e \in Effects, state[e] = "outcome_unknown"
               PROVE  /\ Cardinality({r \in attempts[e] : UnknownRow(e, r)}) = 1
                      /\ ControlProjects(profile[e])
                           /\ profile[e].kind \notin CannotBeReconciled =>
                              SinkTakes(profile[e], owner[e],
                                  Completion("reconciled", FALSE, FALSE, FALSE,
                                             attemptCount[e], generation[e]))
    BY DEF UnknownIsReconcilable
  <2>1. PICK r \in attempts[e] : UnknownRow(e, r)
    BY <1>2 DEF RowsInStep, RowsOf
  <2>2. \A q \in attempts[e] : UnknownRow(e, q) => q = r
    BY <1>2, <2>1 DEF RowsInStep, RowsOf, UnknownRow
  <2>3. {q \in attempts[e] : UnknownRow(e, q)} = {r}
    BY <2>1, <2>2
  <2>4. Cardinality({q \in attempts[e] : UnknownRow(e, q)}) = 1
    BY <2>3, FS_Singleton
  <2>5. attemptCount[e] \in Nat /\ attemptCount[e] >= 1
    BY <1>2, <2>1 DEF RowsInStep, RowsOf, TypeOK
  <2>6. ControlProjects(profile[e]) => owner[e].state = "outcome_unknown"
    BY <1>2 DEF OwnerFollows
  <2>7. profile[e] \in Profiles
    BY <1>2 DEF TypeOK
  <2> QED BY <2>4, <2>5, <2>6, <2>7, VerdictIsTaken
<1>3. TypeOK /\ RowsInStep /\ OwnerFollows => UnknownIsReconcilable
  BY <1>2
<1> QED BY <1>1, <1>3, StepKeepsRows, OwnerInvariant, TypeCorrect, PTL DEF Spec
=============================================================================
