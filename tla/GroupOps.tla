-------------------------------- MODULE GroupOps --------------------------------
(***************************************************************************)
(* One plan of internal/groupops and the messages it sends to WeCom groups. *)
(* A run freezes the plan's message nodes as execution intents, one per     *)
(* node and group.  The first intent of a group is accepted as an external  *)
(* effect at once; each later one waits until WeCom has taken the message   *)
(* before it.  A webhook event makes a run of its own, with one message for *)
(* each of the groups it names.                                             *)
(*                                                                         *)
(* The effects kernel is reduced to the states that one group message can   *)
(* be in; module ExternalEffects has it in full.                            *)
(***************************************************************************)
EXTENDS Naturals, FiniteSets

CONSTANTS Starts,     \* trigger and idempotency key of a request to run the plan
          Events,     \* identities of the signed webhook events
          Requests,   \* webhook requests being served
          Groups,     \* groups bound to the plan
          NodeCount,  \* enabled message nodes of the plan
          MaxRevision \* bound on the plan's revision

ASSUME GroupOpsConstants ==
    /\ NodeCount \in Nat \ {0} /\ MaxRevision \in Nat \ {0}
    /\ Starts \cap Events = {}

VARIABLES plan,    \* row of group_ops_plans; hook: its webhook accepts events
          intent,  \* rows of group_ops_execution_intents with their execution and effect
          claimed, \* group_ops_protocol_replays: the groups an event first named
          request, \* webhook requests between their two transactions
          jobs     \* continuation jobs, by the intent whose message was taken

vars == <<plan, intent, claimed, request, jobs>>

Nodes == 1 .. NodeCount
WebhookNode == 0

Ids == [key : Starts \cup Events, revision : 0 .. MaxRevision,
        node : Nodes \cup {WebhookNode}, group : Groups]

PlanStatuses == {"draft", "active", "paused", "archived"}
Verdicts == {"executed", "unknown", "retryable", "final_failed"}

Row == [state : {"waiting", "accepted", "halted"},
        after : 0 .. NodeCount,         \* node of the predecessor, 0 without one
        revision : 1 .. MaxRevision,
        effect : {"none", "queued", "running", "cancelled"} \cup Verdicts,
        call : {"none", "loaded"} \cup Verdicts,  \* of the worker, until it is settled
        execution : {"none", "accepted", "provider_accepted", "outcome_unknown",
                     "final_failed"},
        sent : Nat]                      \* times that WeCom got the message

Idle == {}

Init ==
    /\ plan = [status |-> "draft", revision |-> 1, hook |-> TRUE]
    /\ intent = [i \in {} |-> {}]
    /\ claimed = [e \in Events |-> {}]
    /\ request = [q \in Requests |-> Idle]
    /\ jobs = {}

-----------------------------------------------------------------------------
(* The plan: mutate, on the locked row and the expected revision             *)

Become(status, hook) ==
    /\ plan.revision < MaxRevision
    /\ plan' = [status |-> status, revision |-> plan.revision + 1, hook |-> hook]
    /\ UNCHANGED <<intent, claimed, request, jobs>>

\* Update and PutWebhookDescriptor; the other edits are for drafts only and
\* change nothing but the revision that is modelled here.
Update(hook) == plan.status \in {"draft", "paused"} /\ Become(plan.status, hook)

Activate == plan.status \in {"draft", "paused"} /\ Become("active", plan.hook)

Pause == plan.status = "active" /\ Become("paused", plan.hook)

Archive == plan.status # "archived" /\ Become("archived", plan.hook)

-----------------------------------------------------------------------------
(* Runs of the plan                                                          *)

\* An accepted intent with its execution and its queued effect
\* (AcceptAndQueueWithin, InsertExecution, BindAcceptedExecutionIntent).
Accepted(after, revision) ==
    [state |-> "accepted", after |-> after, revision |-> revision, effect |-> "queued",
     call |-> "none", execution |-> "accepted", sent |-> 0]

Waiting(after, revision) ==
    [Accepted(after, revision) EXCEPT !.state = "waiting", !.effect = "none",
                                      !.execution = "none"]

\* ListExecutionKeys: the intents that only wait are not among them.
ExecutionKeys ==
    {<<i.node, i.group>> : i \in {j \in DOMAIN intent :
        /\ intent[j].execution # "none" /\ intent[j].revision = plan.revision}}

\* buildDrafts.
Drafts == (Nodes \X Groups) \ ExecutionKeys

\* Fault: every message is eligible at once and only its time orders it.
NoPredecessor(d, drafts) == 0

\* CreateExecutionIntents: the draft before it, of the same group.
Predecessor(d, drafts) ==
    LET before == {c[1] : c \in {b \in drafts : b[2] = d[2] /\ b[1] < d[1]}}
    IN  IF before = {} THEN 0 ELSE CHOOSE n \in before : \A m \in before : m <= n

\* AcceptPlan, with RunDue and AcceptBroadcast in front of it.  The run of the
\* same start and revision is found again, with the intents it has.
AcceptPlan(s) ==
    LET Id(d) == [key |-> s, revision |-> plan.revision, node |-> d[1], group |-> d[2]]
        new == {Id(d) : d \in Drafts} \ DOMAIN intent
        After(i) == Predecessor(<<i.node, i.group>>, Drafts)
    IN  /\ plan.status = "active"
        /\ intent' = [i \in DOMAIN intent \cup new |->
              IF i \notin new THEN intent[i]
              ELSE IF After(i) = 0 THEN Accepted(0, plan.revision)
              ELSE Waiting(After(i), plan.revision)]
        /\ UNCHANGED <<plan, claimed, request, jobs>>

Parent(i) == [i EXCEPT !.node = intent[i].after]

\* ClaimNextExecutionIntent.
Followers(i) ==
    {c \in DOMAIN intent : /\ intent[c].state = "waiting" /\ Parent(c) = i
                           /\ intent[i].state = "accepted"
                           /\ intent[i].execution = "provider_accepted"}

\* ContinueEffect: the job is done when there is nothing to follow.
ContinueEffect(i) ==
    /\ i \in jobs
    /\ jobs' = jobs \ {i}
    /\ intent' = [c \in DOMAIN intent |->
          IF c \notin Followers(i) THEN intent[c]
          ELSE IF plan.status = "active" /\ plan.revision = intent[c].revision
          THEN Accepted(intent[c].after, intent[c].revision)
          ELSE [intent[c] EXCEPT !.state = "halted"]]
    /\ UNCHANGED <<plan, claimed, request>>

-----------------------------------------------------------------------------
(* Webhook events                                                            *)

\* Fault: the run of an event belongs to the revision it met.
RunOfRevision(e) == [key |-> e, revision |-> plan.revision]

\* webhookRunSourceKey: the revision is not part of it.
WebhookRun(e) == [key |-> e, revision |-> 0]

WebhookId(e, g) == [key |-> e, revision |-> WebhookRun(e).revision,
                    node |-> WebhookNode, group |-> g]

HasRun(e) == \E g \in Groups : WebhookId(e, g) \in DOMAIN intent

\* validDynamicWebhookDetail, for groups that are bound.
TakesEvents == plan.status = "active" /\ plan.hook

\* ClaimWebhookReplay, and the first transaction of AcceptWebhook: an event that
\* has its run is answered from it.
ReceiveEvent(q, e, groups) ==
    /\ request[q] = Idle
    /\ claimed[e] \in {{}, groups}
    /\ claimed' = [claimed EXCEPT ![e] = groups]
    /\ request' = [request EXCEPT ![q] =
          IF ~HasRun(e) /\ TakesEvents THEN {e} ELSE Idle]
    /\ UNCHANGED <<plan, intent, jobs>>

\* The second transaction, after the material was looked up: the run that another
\* request made meanwhile is answered before the plan is looked at.
AcceptEvent(q, e) ==
    /\ e \in request[q]
    /\ request' = [request EXCEPT ![q] = Idle]
    /\ LET new == IF HasRun(e) \/ ~TakesEvents THEN {}
                  ELSE {WebhookId(e, g) : g \in claimed[e]}
       IN  intent' = [i \in DOMAIN intent \cup new |->
              IF i \in new THEN Accepted(0, plan.revision) ELSE intent[i]]
    /\ UNCHANGED <<plan, claimed, jobs>>

\* The material cannot be prepared, or the process dies: the sender asks again.
AbandonRequest(q) ==
    /\ request[q] # Idle
    /\ request' = [request EXCEPT ![q] = Idle]
    /\ UNCHANGED <<plan, intent, claimed, jobs>>

-----------------------------------------------------------------------------
(* Sending: GroupMessageProvider.Execute under the kernel's lease            *)

Set(i, row) == intent' = [intent EXCEPT ![i] = row]

\* LoadDispatchExecution.
Dispatchable(i) ==
    /\ intent[i].execution = "accepted"
    /\ plan.status = "active"
    /\ plan.revision = intent[i].revision

\* The execution is read, its sender checked and its media made ready.
Load(i) ==
    /\ intent[i].effect = "queued"
    /\ \E call \in {"final_failed"} \cup (IF Dispatchable(i) THEN {"loaded"} ELSE {}) :
          Set(i, [intent[i] EXCEPT !.effect = "running", !.call = call])
    /\ UNCHANGED <<plan, claimed, request, jobs>>

\* The kernel refuses the answer of a worker whose lease has run out.
Answered(i, answer) == IF intent[i].effect = "running" THEN answer ELSE "none"

\* SendGroupMessage: WeCom takes the message and the answer may be lost, or it
\* does not.  The worker sends even when its lease has run out meanwhile.
Send(i) ==
    /\ intent[i].call = "loaded"
    /\ \/ \E answer \in {"executed", "unknown"} :
             Set(i, [intent[i] EXCEPT !.call = Answered(i, answer), !.sent = @ + 1])
       \/ \E answer \in {"unknown", "retryable", "final_failed"} :
             Set(i, [intent[i] EXCEPT !.call = Answered(i, answer)])
    /\ UNCHANGED <<plan, claimed, request, jobs>>

\* Fault: the job is left to a later transaction, which never comes.
TellsNobody(verdict) == FALSE

\* Whether the completion adds the continuation job to its transaction.
TellsNext(verdict) == verdict = "executed"

\* GroupMessageCompletionSink and Repository.CompleteEffect, in the kernel's
\* transaction: a safe rejection is an unknown outcome to Group Ops.
Outcome(verdict) ==
    CASE verdict = "executed" -> "provider_accepted"
      [] verdict = "final_failed" -> "final_failed"
      [] OTHER -> "outcome_unknown"

Settle(i, verdict) ==
    /\ intent[i].effect = "running"
    /\ intent[i].execution # "final_failed"
    /\ Set(i, [intent[i] EXCEPT !.effect = verdict, !.execution = Outcome(verdict),
                                !.call = IF @ = "loaded" THEN "loaded" ELSE "none"])
    /\ jobs' = IF TellsNext(verdict) THEN jobs \cup {i} ELSE jobs
    /\ UNCHANGED <<plan, claimed, request>>

Complete(i) == intent[i].call \in Verdicts /\ Settle(i, intent[i].call)

\* The lease ran out: the worker died or is late.
Expire(i) == Settle(i, "unknown")

\* The administrator's kernel commands, which do not tell Group Ops.
Retry(i) ==
    /\ intent[i].effect = "retryable"
    /\ Set(i, [intent[i] EXCEPT !.effect = "queued"])
    /\ UNCHANGED <<plan, claimed, request, jobs>>

Cancel(i) ==
    /\ intent[i].effect = "queued"
    /\ Set(i, [intent[i] EXCEPT !.effect = "cancelled"])
    /\ UNCHANGED <<plan, claimed, request, jobs>>

-----------------------------------------------------------------------------

Administration ==
    \/ \E hook \in BOOLEAN : Update(hook)
    \/ Activate
    \/ Pause
    \/ Archive
    \/ \E s \in Starts : AcceptPlan(s)
    \/ \E i \in DOMAIN intent : Retry(i) \/ Cancel(i)

Webhook ==
    \E q \in Requests :
        \/ \E e \in Events, groups \in SUBSET Groups \ {{}} : ReceiveEvent(q, e, groups)
        \/ \E e \in Events : AcceptEvent(q, e)
        \/ AbandonRequest(q)

Workers ==
    \/ \E i \in jobs : ContinueEffect(i)
    \/ \E i \in DOMAIN intent : Load(i) \/ Send(i) \/ Complete(i) \/ Expire(i)

Next == Administration \/ Webhook \/ Workers

Spec == Init /\ [][Next]_vars

-----------------------------------------------------------------------------

TypeOK ==
    /\ plan \in [status : PlanStatuses, revision : 1 .. MaxRevision, hook : BOOLEAN]
    /\ DOMAIN intent \subseteq Ids /\ \A i \in DOMAIN intent : intent[i] \in Row
    /\ claimed \in [Events -> SUBSET Groups]
    /\ request \in [Requests -> {Idle} \cup {{e} : e \in Events}]
    /\ jobs \subseteq DOMAIN intent

InRunBefore(j, i) ==
    /\ j.key = i.key /\ j.revision = i.revision /\ j.group = i.group /\ j.node < i.node

\* A run sends each of its messages to a group at most once and in the order of
\* the nodes: when a message has gone out, WeCom has confirmed every message that
\* stands before it in the same run - none of them is unknown, rejected or still
\* under way with a worker whose lease has run out (CreateExecutionIntents,
\* ClaimNextExecutionIntent, the completion sink).
SentInOrder ==
    /\ TypeOK
    /\ \A i \in DOMAIN intent :
          /\ intent[i].sent <= 1
          /\ intent[i].sent = 1 => \A j \in DOMAIN intent :
                InRunBefore(j, i) => /\ intent[j].execution = "provider_accepted"
                                     /\ intent[j].sent = 1

\* A webhook event sends at most one message to a group, and only to the groups
\* that it first named, however often it is delivered, whichever requests overlap
\* and whatever happens to the plan between them (ClaimWebhookReplay,
\* AcceptWebhook, webhookRunSourceKey).
EventSentOnce ==
    \A i, j \in DOMAIN intent :
        /\ i.key \in Events => i.group \in claimed[i.key]
        /\ (i.key \in Events /\ i.key = j.key /\ i.group = j.group
              /\ intent[i].sent > 0 /\ intent[j].sent > 0) => i = j

\* No message waits behind one that WeCom has taken without the stored job that
\* will accept it, or halt it if the plan was stopped or changed: the job is added
\* in the transaction that records the message as taken, and survives a restart
\* (the completion sink, EnqueueGroupOpsContinuationWithin, ContinueEffect).
FollowerHasJob ==
    \A i \in DOMAIN intent : Followers(i) # {} => i \in jobs

\* What the repository promises of a plan (docs/prd/2026-09-05-v3-parity/
\* 07-group-ops.md): waking a plan again does not send a message twice under one
\* revision, and no later node of a group overtakes an earlier one.
MessageSentOnce ==
    \A i, j \in DOMAIN intent :
        (/\ i.key \in Starts /\ j.key \in Starts /\ i.revision = j.revision
         /\ i.node = j.node /\ i.group = j.group
         /\ intent[i].sent > 0 /\ intent[j].sent > 0) => i = j

=============================================================================
