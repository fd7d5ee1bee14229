--------------------------- MODULE MCExternalEffects ---------------------------
(***************************************************************************)
(* Instances of ExternalEffects for TLC: the envelopes the effects carry.   *)
(***************************************************************************)
EXTENDS ExternalEffects, TLC

Profile(k, l) == [kind |-> k, lane |-> l]

\* Every kind on every lane its owner puts it on.
OwnerProfiles ==
    {Profile(k, "") : k \in Kinds \ {OpsKind}}
        \cup {Profile(OpsKind, "ops_notification"),
              Profile("outbound_media", "outbound_media"),
              Profile("outbound_message", "outbound_excel")}

\* A refund handed over by Payment.
PaymentProfile == {Profile("wechat_pay_refund_v1", "")}

\* A batch of customers handed to another employee.
HandoffProfile == {Profile("customer_owner_handoff", "")}

\* An assistant's message on the Excel lane.
ExcelProfile == {Profile("outbound_message", "outbound_excel")}

KeySymmetry == Permutations(Keys)
=============================================================================
