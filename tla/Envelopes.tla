------------------------------- MODULE Envelopes -------------------------------
(***************************************************************************)
(* What an owning domain hands to the External Effects kernel: the kind of  *)
(* operation and the delivery lane (internal/externaleffects/port), and the *)
(* lanes the kernel treats specially.                                       *)
(***************************************************************************)

PaymentKinds == {"wechat_pay_prepay_v1", "wechat_pay_refund_v1",
    "wechat_shop_refund_v1", "wechat_pay_profit_sharing_receiver_v1",
    "wechat_pay_profit_sharing_order_v1",
    "wechat_pay_profit_sharing_unfreeze_v1", "alipay_wap_pay_v1",
    "alipay_page_pay_v1", "alipay_refund_v1"}

OutboundKinds == {"outbound_message", "automation_message", "outbound_media",
    "wecom_tag_catalog", "wecom_tag_catalog_mutation",
    "wecom_contact_description", "group_message", "channel_acquisition_asset",
    "channel_welcome_message", "channel_entry_tag", "customer_tag_command",
    "customer_owner_handoff", "commerce_product_push", "group_invitation_code",
    "channel_acquisition_link_mutation", "sidebar_jssdk_send",
    "survey_completion"}

OpsKind == "feishu_ops_notification_v1"

Kinds == PaymentKinds \cup OutboundKinds
            \cup {"ai_agent_generate", "ai_audience_recommend", OpsKind}

\* AcceptCommand.Valid: the operations owner has its own lane, the others
\* choose the default lane or one of the two bounded outbound lanes.
LegalProfiles ==
    {p \in [kind : Kinds,
            lane : {"", "outbound_excel", "outbound_media", "ops_notification"}] :
        p.kind = OpsKind <=> p.lane = "ops_notification"}

effectQueue(p) ==
    CASE p.lane = "ops_notification" -> "ops_notification"
      [] p.lane = "outbound_excel"   -> "outbound_excel"
      [] p.lane = "outbound_media"   -> "outbound_media"
      [] p.lane = "" -> IF p.kind = "channel_welcome_message"
                        THEN "outbound_welcome" ELSE "outbound"

\* The lanes on which a completed rejection may be retried, and on which the
\* kernel itself requeues.
MediaLane(p) ==
    p.kind = "outbound_media" /\ effectQueue(p) = "outbound_media"
ExcelMessageLane(p) ==
    /\ p.kind \in {"outbound_message", "automation_message"}
    /\ effectQueue(p) = "outbound_excel"
BoundedLane(p) == MediaLane(p) \/ ExcelMessageLane(p)

\* external_effects.state ("absent": no row yet).
States == {"absent", "queued", "attempted", "executed", "outcome_unknown",
           "reconciled", "retryable_failed", "final_failed", "cancelled"}

\* What one attempt can come to.
Outcomes == {"executed", "outcome_unknown", "retryable_failed", "final_failed"}
=============================================================================
