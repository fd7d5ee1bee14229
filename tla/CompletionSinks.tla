---------------------------- MODULE CompletionSinks ----------------------------
(***************************************************************************)
(* The owners' completion sinks.  Inside the kernel's own transaction the   *)
(* kernel tells the owner what became of its effect; the owner's sink       *)
(* checks the completion against its own record and writes it, ignores it,  *)
(* or refuses it - and a refusal rolls the kernel's transaction back.       *)
(*                                                                         *)
(* A sink is an operator of the owner's record and the completion.  Its     *)
(* value is the set of records it may leave: empty if it refuses, the old   *)
(* record if it ignores the completion.  An owner's record is abstracted to *)
(* the kernel state it mirrors, with the attempt and generation it was last *)
(* told about.  Fences grow with attempt numbers on every path that reaches *)
(* a sink and are left out.                                                 *)
(***************************************************************************)
EXTENDS Naturals, Envelopes

\* AdapterResult with its Attempt, as a sink sees them.  "artifact": the result
\* carries a valid artifact of the kind that the sink reads.
Completion(s, called, real, artifact, n, g) ==
    [state |-> s, called |-> called, real |-> real, artifact |-> artifact,
     attempt |-> n, generation |-> g]

OwnerRecords == [state : States, attempt : Nat, generation : Nat]

Told(s, n, g) == [state |-> s, attempt |-> n, generation |-> g]

Mirror(c) == Told(c.state, c.attempt, c.generation)

When(accepted, record) == IF accepted THEN {record} ELSE {}

ArtifactGiven(c) == c.state = "executed" => c.artifact

\* The states in which a row still takes a completion, where a safe rejection
\* leaves it open.
Open(own) == own.state \in {"queued", "attempted", "outcome_unknown", "retryable_failed"}

-----------------------------------------------------------------------------
(* Messages *)

\* Fault: the sink forgets that a person may close an unknown outcome.
StatesWithoutVerdict == Outcomes

MessageStates == Outcomes \cup {"reconciled"}

PrivateMessageSink(own, c) == When(c.state \in MessageStates, Mirror(c))

AutomationMessageSink(own, c) ==
    When(/\ c.state \in MessageStates
         /\ own.state \notin {"final_failed", "cancelled"}, Mirror(c))

\* Group Ops has no word for a safe rejection.
GroupMessageSink(own, c) ==
    When(/\ c.state \in Outcomes
         /\ ArtifactGiven(c)
         /\ own.state \notin {"reconciled", "final_failed"},
         IF c.state = "retryable_failed"
         THEN Told("outcome_unknown", c.attempt, c.generation) ELSE Mirror(c))

\* The browser owns the send: the server can only lose track of it.
SidebarExpirySink(own, c) ==
    When(/\ c.state = "outcome_unknown" /\ ~c.called /\ ~c.real
         /\ own.state \in {"queued", "outcome_unknown"}, Mirror(c))

CommercePushSink(own, c) ==
    When(c.state \in Outcomes \cup {"reconciled"},
         IF c.state = "retryable_failed"
         THEN Told("attempted", c.attempt, c.generation) ELSE Mirror(c))

SurveyCompletionSink(own, c) == {Mirror(c)}

OpsReportSink(own, c) == {Mirror(c)}

-----------------------------------------------------------------------------
(* Uploaded material *)

MaterialSink(own, c) ==
    LET reconciliation == /\ own.state = "outcome_unknown"
                          /\ c.state \in {"reconciled", "executed"}
    IN  When(/\ own.state \in {"queued", "retryable_failed"} \/ reconciliation
             /\ ArtifactGiven(c)
             /\ c.state = "reconciled" => reconciliation, Mirror(c))

SidebarImageSink(own, c) ==
    When(/\ c.state \in Outcomes
         /\ c.state = "executed" => c.called /\ c.real /\ c.artifact, Mirror(c))

InvitationCodeSink(own, c) ==
    When(c.state \in {"executed", "reconciled"} => c.artifact, Mirror(c))

-----------------------------------------------------------------------------
(* The WeCom catalogue, customers and channels *)

TagCatalogSink(own, c) ==
    When(/\ ArtifactGiven(c)
         /\ own.state \in {"queued", "outcome_unknown", "retryable_failed"}, Mirror(c))

\* A queued completion is the kernel's retry of the same effect.
TagMutationSink(own, c) ==
    When(/\ c.attempt >= 1
         /\ ArtifactGiven(c)
         /\ \/ /\ c.state = "queued"
               /\ own.state \in {"final_failed", "retryable_failed"}
               /\ c.generation = own.generation + 1
               /\ c.attempt = own.attempt
            \/ c.state # "queued" /\ Open(own), Mirror(c))

ContactDescriptionSink(own, c) == {Mirror(c)}

CustomerTagSink(own, c) == When(c.attempt >= 1 /\ Open(own), Mirror(c))

EntrantActionSink(own, c) == When(Open(own), Mirror(c))

\* Every line of the handed-over batch carries the attempt and generation it was
\* last told about, and a later attempt must be of the same generation.
OwnerHandoffSink(own, c) ==
    When(/\ c.state \in Outcomes
         /\ ArtifactGiven(c)
         /\ own.attempt <= c.attempt
         /\ own.attempt \in 1 .. (c.attempt - 1) => own.generation = c.generation
         /\ own.state \in {"queued", "retryable_failed"}, Mirror(c))

ChannelAssetSink(own, c) ==
    IF c.state = "retryable_failed" THEN {own}
    ELSE When(/\ ArtifactGiven(c)
              /\ own.state \in {"queued", "attempted", "outcome_unknown"}, Mirror(c))

\* "accepted" in the link receipts is the state in which the effect is queued.
ChannelLinkSink(own, c) ==
    IF c.state = "retryable_failed" THEN {own}
    ELSE When(/\ ArtifactGiven(c)
              /\ own.state \in {"queued", "attempted", "outcome_unknown"}, Mirror(c))

-----------------------------------------------------------------------------
(* Model generations: an output that the owner cannot use is a failure to it. *)

UsableOrNot(c) ==
    {Mirror(c)} \cup
        IF c.state = "executed"
        THEN {Told("final_failed", c.attempt, c.generation)} ELSE {}

GenerationSink(own, c) ==
    IF c.attempt < 1 \/ c.state \notin Outcomes THEN {}
    ELSE IF own.state # "queued" THEN {own}
    ELSE UsableOrNot(c)

RecommendationSink(own, c) ==
    IF c.attempt < 1 \/ c.state \notin Outcomes THEN {}
    ELSE IF \/ own.state \notin {"queued", "retryable_failed", "outcome_unknown"}
            \/ own.state = c.state THEN {own}
    ELSE UsableOrNot(c)

-----------------------------------------------------------------------------
(* Payment *)

PrepaySink(own, c) ==
    IF c.state \in {"outcome_unknown", "retryable_failed"} THEN {own}
    ELSE When(own.state = "queued" /\ ArtifactGiven(c), Mirror(c))

\* An ordinary refund waits for the Provider's own notice of success.
RefundSink(own, c) ==
    IF c.state \in {"outcome_unknown", "final_failed"} /\ own.state = "queued"
    THEN {Mirror(c)} ELSE {own}

ShopRefundSink(own, c) ==
    IF c.state = "executed"
    THEN When(own.state = "queued" /\ c.artifact, Mirror(c))
    ELSE RefundSink(own, c)

DistributionSink(own, c) ==
    IF c.state \in {"executed", "outcome_unknown", "final_failed"}
    THEN {Mirror(c)} ELSE {own}

\* The executed unfreeze keeps its state until it is queried.
UnfreezeSink(own, c) ==
    IF c.state \in {"outcome_unknown", "final_failed"} THEN {Mirror(c)} ELSE {own}

-----------------------------------------------------------------------------
OutboundRouter(p, own, c) ==
    CASE p.kind = "outbound_message"           -> PrivateMessageSink(own, c)
      [] p.kind = "automation_message"         -> AutomationMessageSink(own, c)
      [] p.kind = "group_message"              -> GroupMessageSink(own, c)
      [] p.kind = "sidebar_jssdk_send"         -> SidebarExpirySink(own, c)
      [] p.kind = "commerce_product_push"      -> CommercePushSink(own, c)
      [] p.kind = "survey_completion"          -> SurveyCompletionSink(own, c)
      [] p.kind = "outbound_media" /\ MediaLane(p)  -> MaterialSink(own, c)
      [] p.kind = "outbound_media" /\ ~MediaLane(p) -> SidebarImageSink(own, c)
      [] p.kind = "group_invitation_code"      -> InvitationCodeSink(own, c)
      [] p.kind = "wecom_tag_catalog"          -> TagCatalogSink(own, c)
      [] p.kind = "wecom_tag_catalog_mutation" -> TagMutationSink(own, c)
      [] p.kind = "wecom_contact_description"  -> ContactDescriptionSink(own, c)
      [] p.kind = "customer_tag_command"       -> CustomerTagSink(own, c)
      [] p.kind = "customer_owner_handoff"     -> OwnerHandoffSink(own, c)
      [] p.kind \in {"channel_welcome_message", "channel_entry_tag"} ->
            EntrantActionSink(own, c)
      [] p.kind = "channel_acquisition_asset"  -> ChannelAssetSink(own, c)
      [] p.kind = "channel_acquisition_link_mutation" -> ChannelLinkSink(own, c)

PaymentRouter(p, own, c) ==
    CASE p.kind \in {"wechat_pay_prepay_v1", "alipay_wap_pay_v1",
                     "alipay_page_pay_v1"} -> PrepaySink(own, c)
      [] p.kind \in {"wechat_pay_refund_v1", "alipay_refund_v1"} -> RefundSink(own, c)
      [] p.kind = "wechat_shop_refund_v1" -> ShopRefundSink(own, c)
      [] p.kind \in {"wechat_pay_profit_sharing_receiver_v1",
                     "wechat_pay_profit_sharing_order_v1"} -> DistributionSink(own, c)
      [] p.kind = "wechat_pay_profit_sharing_unfreeze_v1" -> UnfreezeSink(own, c)

CompleteEffect(p, own, c) ==
    CASE p.kind = OpsKind                 -> OpsReportSink(own, c)
      [] p.kind = "ai_audience_recommend" -> RecommendationSink(own, c)
      [] p.kind = "ai_agent_generate"     -> GenerationSink(own, c)
      [] p.kind \in PaymentKinds          -> PaymentRouter(p, own, c)
      [] p.kind \in OutboundKinds         -> OutboundRouter(p, own, c)

SinkTakes(p, own, c) == CompleteEffect(p, own, c) # {}
=============================================================================
