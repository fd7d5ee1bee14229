----------------------------- MODULE GroupOpsProofs -----------------------------
(***************************************************************************)
(* Theorems about the messages of a group plan, for every set of starts,    *)
(* events, requests and groups and for every number of nodes and revisions. *)
(***************************************************************************)
EXTENDS GroupOps, TLAPS, WellFoundedInduction

-----------------------------------------------------------------------------
(* The inductive invariant                                                   *)

\* What a row knows of its own message: the worker that is about to send has the
\* first attempt, and a verdict "executed" stands for a message that went out.
MessageOK(r) ==
    /\ r.state # "accepted" => /\ r.effect = "none" /\ r.call = "none"
                               /\ r.execution = "none" /\ r.sent = 0
    /\ r.state = "accepted" => r.execution # "none"
    /\ r.call = "loaded" => r.sent = 0 /\ r.effect \in {"running", "unknown"}
    /\ r.call \in Verdicts => r.effect = "running"
    /\ r.call = "executed" => r.sent = 1
    /\ (r.effect = "queued" /\ r.execution = "accepted") => r.sent = 0
    /\ r.execution = "accepted" => r.effect \in {"queued", "running", "cancelled"}
    /\ r.execution = "provider_accepted" => r.effect = "executed" /\ r.sent = 1
    /\ r.sent <= 1

Rows ==
    /\ intent \in [DOMAIN intent -> Row]
    /\ \A i \in DOMAIN intent : MessageOK(intent[i])

\* Where an intent comes from can be told from its identity.
Origins ==
    \A i \in DOMAIN intent :
        /\ i.key \in Starts => /\ i.node \in Nodes
                               /\ i.revision = intent[i].revision
                               /\ i.revision <= plan.revision
        /\ i.key \in Events => /\ i.node = WebhookNode /\ i.revision = 0
                               /\ i.group \in claimed[i.key]

PlanId(s, n, g) == [key |-> s, revision |-> plan.revision, node |-> n, group |-> g]

\* The run of a start has every message of the revision that nobody has executed,
\* so that the same start adds nothing to it.
RunsAreWhole ==
    \A i \in DOMAIN intent :
        (i.key \in Starts /\ i.revision = plan.revision) =>
            \A n \in Nodes, g \in Groups :
                <<n, g>> \in Drafts => PlanId(i.key, n, g) \in DOMAIN intent

\* Nothing of its run stands between a message and the one it waits for.
NothingBetween ==
    \A i, j \in DOMAIN intent : InRunBefore(j, i) => j.node <= intent[i].after

\* What is accepted has everything before it confirmed.
AcceptedInOrder ==
    \A i, j \in DOMAIN intent :
        intent[i].state = "accepted" /\ InRunBefore(j, i) =>
            intent[j].execution = "provider_accepted"

IInv ==
    /\ TypeOK /\ Rows /\ Origins /\ RunsAreWhole /\ NothingBetween
    /\ AcceptedInOrder /\ FollowerHasJob

-----------------------------------------------------------------------------
(* Steps that change one message                                             *)

\* What sending, settling and the kernel's commands do to a message.
Progress(i) ==
    /\ DOMAIN intent' = DOMAIN intent
    /\ intent' \in [DOMAIN intent -> Row]
    /\ \A j \in DOMAIN intent \ {i} : intent'[j] = intent[j]
    /\ intent'[i].state = intent[i].state
    /\ intent'[i].after = intent[i].after
    /\ intent'[i].revision = intent[i].revision
    /\ MessageOK(intent'[i])
    /\ intent[i].execution # "none" => intent'[i].execution # "none"
    /\ intent[i].execution = "provider_accepted" =>
          intent'[i].execution = "provider_accepted"
    /\ intent'[i].execution = "provider_accepted" =>
          intent[i].execution = "provider_accepted" \/ i \in jobs'
    /\ jobs \subseteq jobs' /\ jobs' \subseteq DOMAIN intent
    /\ UNCHANGED <<plan, claimed, request>>

\* Writing one row leaves the others alone.
LEMMA SetMakes ==
    ASSUME Rows, NEW i \in DOMAIN intent, NEW row \in Row, Set(i, row)
    PROVE  /\ DOMAIN intent' = DOMAIN intent
           /\ intent' \in [DOMAIN intent -> Row]
           /\ intent'[i] = row
           /\ \A j \in DOMAIN intent \ {i} : intent'[j] = intent[j]
BY DEF Rows, Set

\* A worker that loads a message makes progress on its row alone.
LEMMA LoadProgress ==
    ASSUME TypeOK, Rows, NEW i \in DOMAIN intent, Load(i)
    PROVE  Progress(i)
<1>1. PICK call \in {"final_failed"} \cup (IF Dispatchable(i) THEN {"loaded"} ELSE {}) :
        Set(i, [intent[i] EXCEPT !.effect = "running", !.call = call])
  BY DEF Load
<1> DEFINE row == [intent[i] EXCEPT !.effect = "running", !.call = call]
<1>2. intent[i] \in Row /\ MessageOK(intent[i])
  BY DEF Rows
<1>3. call \in {"final_failed", "loaded"} /\ (call = "loaded" => Dispatchable(i))
  BY <1>1
<1>4. row \in Row
  BY <1>2, <1>3 DEF Row, Verdicts
<1>5. MessageOK(row)
  BY <1>2, <1>3 DEF Row, Verdicts, MessageOK, Load, Dispatchable
<1>6. row.state = intent[i].state /\ row.after = intent[i].after
      /\ row.revision = intent[i].revision /\ row.execution = intent[i].execution
  BY <1>2 DEF Row
<1>7. Set(i, row)
  BY <1>1
<1> HIDE DEF row
<1> QED BY <1>4, <1>5, <1>6, <1>7, SetMakes DEF Load, Progress, TypeOK

\* So does the one call to WeCom.
LEMMA SendProgress ==
    ASSUME TypeOK, Rows, NEW i \in DOMAIN intent, Send(i)
    PROVE  Progress(i)
<1>1. intent[i] \in Row /\ MessageOK(intent[i]) /\ intent[i].call = "loaded"
  BY DEF Rows, Send
<1>2. intent[i].sent = 0 /\ intent[i].effect \in {"running", "unknown"}
  BY <1>1 DEF MessageOK
<1>3. ASSUME NEW row \in Row, Set(i, row), MessageOK(row), row.state = intent[i].state,
             row.after = intent[i].after, row.revision = intent[i].revision,
             row.execution = intent[i].execution
      PROVE  Progress(i)
  BY <1>3, SetMakes DEF Send, Progress, TypeOK
<1>4. CASE \E answer \in {"executed", "unknown"} :
             Set(i, [intent[i] EXCEPT !.call = Answered(i, answer), !.sent = @ + 1])
  <2>1. PICK answer \in {"executed", "unknown"} :
             Set(i, [intent[i] EXCEPT !.call = Answered(i, answer), !.sent = @ + 1])
    BY <1>4
  <2> DEFINE row == [intent[i] EXCEPT !.call = Answered(i, answer), !.sent = @ + 1]
  <2>5. Answered(i, answer) \in {"none", "loaded"} \cup Verdicts /\ intent[i].sent + 1 \in Nat
    BY <1>2 DEF Answered, Verdicts
  <2>2. row \in Row
    BY <1>1, <2>5 DEF Row
  <2>3. MessageOK(row)
    BY <1>1, <1>2 DEF Row, Verdicts, MessageOK, Answered
  <2>4. row.state = intent[i].state /\ row.after = intent[i].after
        /\ row.revision = intent[i].revision /\ row.execution = intent[i].execution
    BY <1>1 DEF Row
  <2> QED BY <2>1, <2>2, <2>3, <2>4, <1>3
<1>5. CASE \E answer \in {"unknown", "retryable", "final_failed"} :
             Set(i, [intent[i] EXCEPT !.call = Answered(i, answer)])
  <2>1. PICK answer \in {"unknown", "retryable", "final_failed"} :
             Set(i, [intent[i] EXCEPT !.call = Answered(i, answer)])
    BY <1>5
  <2> DEFINE row == [intent[i] EXCEPT !.call = Answered(i, answer)]
  <2>2. row \in Row
    BY <1>1, <1>2 DEF Row, Verdicts, Answered
  <2>3. MessageOK(row)
    BY <1>1, <1>2 DEF Row, Verdicts, MessageOK, Answered
  <2>4. row.state = intent[i].state /\ row.after = intent[i].after
        /\ row.revision = intent[i].revision /\ row.execution = intent[i].execution
    BY <1>1 DEF Row
  <2> QED BY <2>1, <2>2, <2>3, <2>4, <1>3
<1> QED BY <1>4, <1>5 DEF Send

\* So does recording a verdict that is true or unknown.
LEMMA SettleProgress ==
    ASSUME TypeOK, Rows, NEW i \in DOMAIN intent, NEW verdict \in Verdicts,
           Settle(i, verdict), verdict \in {intent[i].call, "unknown"}
    PROVE  Progress(i)
<1> DEFINE row == [intent[i] EXCEPT !.effect = verdict, !.execution = Outcome(verdict),
                                    !.call = IF @ = "loaded" THEN "loaded" ELSE "none"]
<1>1. intent[i] \in Row /\ MessageOK(intent[i]) /\ intent[i].effect = "running"
  BY DEF Rows, Settle
<1>2. row \in Row
  BY <1>1 DEF Row, Verdicts, Outcome
<1>3. MessageOK(row)
  BY <1>1 DEF Row, Verdicts, MessageOK, Outcome
<1>4. row.state = intent[i].state /\ row.after = intent[i].after
      /\ row.revision = intent[i].revision /\ row.execution = Outcome(verdict)
  BY <1>1 DEF Row
<1>5. intent[i].execution # "provider_accepted" /\ Outcome(verdict) # "none"
  BY <1>1 DEF MessageOK, Outcome, Verdicts
<1>6. Outcome(verdict) = "provider_accepted" => i \in jobs'
  BY DEF Outcome, Verdicts, Settle, TellsNext
<1>7. jobs \subseteq jobs' /\ jobs' \subseteq DOMAIN intent
  BY DEF Settle, TypeOK
<1>8. Set(i, row) /\ UNCHANGED <<plan, claimed, request>>
  BY DEF Settle
<1> QED BY <1>2, <1>3, <1>4, <1>5, <1>6, <1>7, <1>8, SetMakes DEF Progress

\* So do an administrator's retry and cancel.
LEMMA CommandProgress ==
    ASSUME TypeOK, Rows, NEW i \in DOMAIN intent, Retry(i) \/ Cancel(i)
    PROVE  Progress(i)
<1>1. PICK effect \in {"queued", "cancelled"} :
        /\ Set(i, [intent[i] EXCEPT !.effect = effect])
        /\ intent[i].effect = IF effect = "queued" THEN "retryable" ELSE "queued"
  BY DEF Retry, Cancel
<1> DEFINE row == [intent[i] EXCEPT !.effect = effect]
<1>2. intent[i] \in Row /\ MessageOK(intent[i])
  BY DEF Rows
<1>3. row \in Row
  BY <1>2 DEF Row, Verdicts
<1>4. MessageOK(row)
  BY <1>1, <1>2 DEF Row, Verdicts, MessageOK
<1>5. row.state = intent[i].state /\ row.after = intent[i].after
      /\ row.revision = intent[i].revision /\ row.execution = intent[i].execution
  BY <1>2 DEF Row
<1> QED BY <1>1, <1>3, <1>4, <1>5, SetMakes DEF Progress, Retry, Cancel, TypeOK

-----------------------------------------------------------------------------
(* Facts about runs                                                          *)

\* A message executed under the revision stays executed under it.
LEMMA DraftsShrink ==
    ASSUME plan' = plan, DOMAIN intent \subseteq DOMAIN intent',
           \A i \in DOMAIN intent :
               /\ intent'[i].revision = intent[i].revision
               /\ intent[i].execution # "none" => intent'[i].execution # "none"
    PROVE  Drafts' \subseteq Drafts
BY DEF Drafts, ExecutionKeys

\* Progress on one row keeps the invariant.
LEMMA ProgressKeeps ==
    ASSUME IInv, NEW i \in DOMAIN intent, Progress(i)
    PROVE  IInv'
<1> USE DEF IInv
<1>1. /\ DOMAIN intent' = DOMAIN intent
      /\ plan' = plan /\ claimed' = claimed /\ request' = request
      /\ jobs \subseteq jobs' /\ jobs' \subseteq DOMAIN intent
  BY DEF Progress
<1>2. \A j \in DOMAIN intent :
         /\ intent'[j] \in Row
         /\ MessageOK(intent'[j])
         /\ intent'[j].state = intent[j].state
         /\ intent'[j].after = intent[j].after
         /\ intent'[j].revision = intent[j].revision
         /\ intent[j].execution # "none" => intent'[j].execution # "none"
         /\ intent[j].execution = "provider_accepted" =>
               intent'[j].execution = "provider_accepted"
         /\ intent'[j].execution = "provider_accepted" =>
               intent[j].execution = "provider_accepted" \/ j \in jobs'
  BY DEF Progress, Rows
<1>3. TypeOK'
  BY <1>1, <1>2 DEF TypeOK
<1>4. Rows'
  BY <1>1, <1>2 DEF Rows, Progress
<1>5. Origins'
  BY <1>1, <1>2 DEF Origins
<1>6. RunsAreWhole'
  <2>1. Drafts' \subseteq Drafts
    BY <1>1, <1>2, DraftsShrink
  <2> QED BY <1>1, <2>1 DEF RunsAreWhole, PlanId
<1>7. NothingBetween'
  BY <1>1, <1>2 DEF NothingBetween, InRunBefore
<1>8. AcceptedInOrder'
  BY <1>1, <1>2 DEF AcceptedInOrder, InRunBefore
<1>9. FollowerHasJob'
  <2>1. SUFFICES ASSUME NEW j \in DOMAIN intent, NEW c \in DOMAIN intent,
                        c \in Followers(j)'
                 PROVE  j \in jobs'
    BY <1>1 DEF FollowerHasJob, Followers
  <2>2. /\ intent[c].state = "waiting" /\ Parent(c) = j /\ intent[j].state = "accepted"
        /\ intent[j].execution = "provider_accepted" \/ j \in jobs'
    BY <1>1, <1>2, <2>1 DEF Followers, Parent
  <2>3. intent[j].execution = "provider_accepted" => c \in Followers(j)
    BY <2>2 DEF Followers
  <2> QED BY <1>1, <2>2, <2>3 DEF FollowerHasJob
<1> QED BY <1>3, <1>4, <1>5, <1>6, <1>7, <1>8, <1>9

\* A set of nodes has a last one, so the predecessor of a message is one of the
\* messages before it and none comes between.
LEMMA LastNode ==
    ASSUME NEW T \in SUBSET Nodes, T # {}
    PROVE  \E n \in T : \A m \in T : m <= n
<1> DEFINE less == {ss \in Nat \X Nat : ss[1] < ss[2]}
           back == {NodeCount - n : n \in T}
<1>1. NodeCount \in Nat /\ T \subseteq Nat /\ \A n \in T : n <= NodeCount
  BY GroupOpsConstants DEF Nodes
<1>2. back \subseteq Nat /\ back # {}
  <2>1. \A n \in T : NodeCount - n \in Nat /\ NodeCount - n \in back
    BY <1>1
  <2> QED BY <2>1
<1>3. \A x, y \in Nat : x < y => <<x, y>> \in less
  OBVIOUS
<1>4. IsWellFoundedOn(less, Nat)
  BY NatLessThanWellFounded DEF OpToRel
<1> HIDE DEF less
<1>5. \E x \in back : \A y \in back : ~(<<y, x>> \in less)
  <2> HIDE DEF back
  <2> QED BY <1>2, <1>4, WFMin
<1>6. PICK x \in back : \A y \in back : ~(y < x)
  BY <1>2, <1>3, <1>5
<1>7. PICK n \in T : x = NodeCount - n
  BY <1>6
<1>8. \A m \in T : m <= n
  <2> SUFFICES ASSUME NEW m \in T PROVE m <= n
    OBVIOUS
  <2>1. NodeCount - m \in back
    OBVIOUS
  <2> QED BY <1>1, <1>6, <1>7, <2>1
<1> QED BY <1>8

\* No drafted message of a group stands between a message and its predecessor.
LEMMA PredecessorIsBefore ==
    ASSUME NEW drafts \in SUBSET (Nodes \X Groups), NEW n \in Nodes, NEW g \in Groups
    PROVE  /\ Predecessor(<<n, g>>, drafts) \in 0 .. NodeCount
           /\ \A m \in Nodes : <<m, g>> \in drafts /\ m < n =>
                 m <= Predecessor(<<n, g>>, drafts)
<1> DEFINE before == {c[1] : c \in {b \in drafts : b[2] = g /\ b[1] < n}}
<1>1. before \subseteq Nodes
  OBVIOUS
<1>2. \A m \in Nodes : <<m, g>> \in drafts /\ m < n => m \in before
  OBVIOUS
<1>3. Predecessor(<<n, g>>, drafts) =
         IF before = {} THEN 0 ELSE CHOOSE k \in before : \A m \in before : m <= k
  BY DEF Predecessor
<1> HIDE DEF before
<1>4. CASE before = {}
  BY <1>2, <1>3, <1>4, GroupOpsConstants
<1>5. CASE before # {}
  <2>1. \E k \in before : \A m \in before : m <= k
    BY <1>1, <1>5, LastNode
  <2>2. /\ Predecessor(<<n, g>>, drafts) \in before
        /\ \A m \in before : m <= Predecessor(<<n, g>>, drafts)
    BY <1>3, <1>5, <2>1
  <2>3. Nodes \subseteq 0 .. NodeCount
    BY GroupOpsConstants DEF Nodes
  <2> QED BY <1>1, <1>2, <2>2, <2>3
<1> QED BY <1>4, <1>5

-----------------------------------------------------------------------------
(* Steps that add messages or let them go on                                 *)

\* New rows are well typed and have not been sent.
LEMMA FreshRows ==
    ASSUME NEW after \in 0 .. NodeCount, NEW revision \in 1 .. MaxRevision
    PROVE  /\ Accepted(after, revision) \in Row /\ MessageOK(Accepted(after, revision))
           /\ Waiting(after, revision) \in Row /\ MessageOK(Waiting(after, revision))
<1>1. Accepted(after, revision) \in Row
  BY DEF Accepted, Row
<1>2. MessageOK(Accepted(after, revision))
  BY DEF Accepted, MessageOK, Verdicts
<1>3. Waiting(after, revision) \in Row
  BY DEF Waiting, Accepted, Row
<1>4. MessageOK(Waiting(after, revision))
  BY DEF Waiting, Accepted, MessageOK, Verdicts
<1> QED BY <1>1, <1>2, <1>3, <1>4

\* The start that is repeated adds nothing; the messages of a new run are the only
\* ones of it.
LEMMA AcceptPlanKeeps ==
    ASSUME IInv, NEW s \in Starts, AcceptPlan(s)
    PROVE  IInv'
<1> USE DEF IInv
<1> DEFINE Id(d) == [key |-> s, revision |-> plan.revision, node |-> d[1], group |-> d[2]]
           new == {Id(d) : d \in Drafts} \ DOMAIN intent
           After(i) == Predecessor(<<i.node, i.group>>, Drafts)
           Fresh(i) == IF After(i) = 0 THEN Accepted(0, plan.revision)
                       ELSE Waiting(After(i), plan.revision)
<1>1. /\ plan' = plan /\ claimed' = claimed /\ request' = request /\ jobs' = jobs
      /\ intent' = [i \in DOMAIN intent \cup new |->
            IF i \notin new THEN intent[i] ELSE Fresh(i)]
  BY DEF AcceptPlan
<1>2. DOMAIN intent' = DOMAIN intent \cup new
  BY <1>1
<1>3. \A i \in DOMAIN intent : intent'[i] = intent[i]
  BY <1>1
<1>4. \A i \in new : intent'[i] = Fresh(i)
  BY <1>1
<1>5. plan.revision \in 1 .. MaxRevision /\ Drafts \subseteq Nodes \X Groups
  BY DEF TypeOK, Drafts
<1>6. \A i \in new : /\ i \in Ids /\ i \notin DOMAIN intent
                     /\ i.key = s /\ i.revision = plan.revision
                     /\ i.node \in Nodes /\ i.group \in Groups
                     /\ <<i.node, i.group>> \in Drafts
  <2>1. SUFFICES ASSUME NEW d \in Drafts, Id(d) \notin DOMAIN intent
                 PROVE  /\ Id(d) \in Ids /\ Id(d).key = s
                        /\ Id(d).revision = plan.revision /\ Id(d).node \in Nodes
                        /\ Id(d).group \in Groups
                        /\ <<Id(d).node, Id(d).group>> \in Drafts
    OBVIOUS
  <2>2. PICK n \in Nodes, g \in Groups : d = <<n, g>>
    BY <1>5
  <2>3. plan.revision \in 0 .. MaxRevision
    BY <1>5, GroupOpsConstants
  <2> QED BY <2>1, <2>2, <2>3 DEF Ids
<1>7. \A n \in Nodes, g \in Groups :
         <<n, g>> \in Drafts => PlanId(s, n, g) \in DOMAIN intent'
  BY <1>2 DEF PlanId
<1> HIDE DEF new
<1>8. ASSUME NEW i \in DOMAIN intent, i.key = s, i.revision = plan.revision
      PROVE  new = {}
  <2>1. SUFFICES ASSUME NEW k \in new PROVE FALSE
    OBVIOUS
  <2>2. PlanId(s, k.node, k.group) \in DOMAIN intent
    BY <1>6, <1>8 DEF RunsAreWhole
  <2>3. k = PlanId(s, k.node, k.group)
    BY <1>6 DEF Ids, PlanId
  <2> QED BY <1>6, <2>2, <2>3
<1>9. \A i \in new : /\ After(i) \in 0 .. NodeCount
                     /\ \A m \in Nodes : <<m, i.group>> \in Drafts /\ m < i.node =>
                           m <= After(i)
  BY <1>5, <1>6, PredecessorIsBefore
<1> HIDE DEF After
<1>10. \A i \in new : /\ Fresh(i) \in Row /\ MessageOK(Fresh(i))
                      /\ Fresh(i).revision = plan.revision
                      /\ Fresh(i).after = After(i)
                      /\ Fresh(i).state = "accepted" => After(i) = 0
                      /\ Fresh(i).execution # "provider_accepted"
  <2>1. 0 \in 0 .. NodeCount
    BY GroupOpsConstants
  <2> QED BY <1>5, <1>9, <2>1, FreshRows DEF Accepted, Waiting
<1> HIDE DEF Fresh
<1>11. \A i, j \in DOMAIN intent' : InRunBefore(j, i) =>
          (i \in DOMAIN intent <=> j \in DOMAIN intent)
  BY <1>2, <1>6, <1>8 DEF InRunBefore
<1>12. \A i, j \in new : InRunBefore(j, i) => j.node <= After(i) /\ After(i) # 0
  <2> SUFFICES ASSUME NEW i \in new, NEW j \in new, InRunBefore(j, i)
               PROVE  j.node <= After(i) /\ After(i) # 0
    OBVIOUS
  <2>1. j.node < i.node /\ j.group = i.group /\ j.node \in Nodes
        /\ <<j.node, j.group>> \in Drafts
    BY <1>6 DEF InRunBefore
  <2>2. j.node <= After(i)
    BY <1>9, <2>1
  <2>3. j.node > 0
    BY <2>1, GroupOpsConstants DEF Nodes
  <2> QED BY <1>9, <2>1, <2>2, <2>3, GroupOpsConstants DEF Nodes
<1>13. TypeOK'
  BY <1>1, <1>2, <1>3, <1>4, <1>6, <1>10 DEF TypeOK
<1>14. Rows'
  <2>1. \A i \in DOMAIN intent' : intent'[i] \in Row /\ MessageOK(intent'[i])
    BY <1>2, <1>3, <1>4, <1>10 DEF Rows
  <2>2. intent' = [i \in DOMAIN intent' |-> intent'[i]]
    BY <1>1
  <2> QED BY <2>1, <2>2 DEF Rows
<1>15. Origins'
  <2>1. s \notin Events /\ plan.revision <= plan.revision
    BY <1>5, GroupOpsConstants
  <2> QED BY <1>1, <1>2, <1>3, <1>4, <1>6, <1>10, <2>1 DEF Origins
<1>16. RunsAreWhole'
  <2>1. Drafts' \subseteq Drafts
    BY <1>1, <1>2, <1>3, DraftsShrink
  <2> QED BY <1>1, <1>2, <1>6, <1>7, <2>1 DEF RunsAreWhole, PlanId
<1>17. NothingBetween'
  BY <1>2, <1>3, <1>4, <1>10, <1>11, <1>12 DEF NothingBetween, InRunBefore
<1>18. AcceptedInOrder'
  BY <1>2, <1>3, <1>4, <1>10, <1>11, <1>12 DEF AcceptedInOrder, InRunBefore
<1>19. FollowerHasJob'
  <2>1. SUFFICES ASSUME NEW i \in DOMAIN intent', NEW c \in DOMAIN intent',
                        c \in Followers(i)'
                 PROVE  i \in jobs'
    BY DEF FollowerHasJob, Followers
  <2>2. /\ intent'[c].state = "waiting" /\ Parent(c)' = i
        /\ intent'[i].state = "accepted" /\ intent'[i].execution = "provider_accepted"
    BY <2>1 DEF Followers
  <2>3. i \in DOMAIN intent
    BY <1>2, <1>4, <1>10, <2>2
  <2>4. Parent(c)' = [c EXCEPT !.node = intent'[c].after]
    BY DEF Parent
  <2>5. c \in DOMAIN intent
    <3>1. SUFFICES ASSUME c \in new PROVE FALSE
      BY <1>2
    <3>2. i.key = s /\ i.revision = plan.revision
      BY <1>6, <2>2, <2>4, <3>1 DEF Ids
    <3> QED BY <1>8, <2>3, <3>1, <3>2
  <2>6. c \in Followers(i)
    BY <1>3, <2>2, <2>3, <2>4, <2>5 DEF Followers, Parent
  <2> QED BY <1>1, <2>3, <2>6 DEF FollowerHasJob
<1> QED BY <1>13, <1>14, <1>15, <1>16, <1>17, <1>18, <1>19

\* The message that follows is accepted behind one that WeCom has taken, and
\* everything before that one was taken before.
LEMMA ContinueKeeps ==
    ASSUME IInv, NEW i \in jobs, ContinueEffect(i)
    PROVE  IInv'
<1> USE DEF IInv
<1> DEFINE Released(c) ==
        IF plan.status = "active" /\ plan.revision = intent[c].revision
        THEN Accepted(intent[c].after, intent[c].revision)
        ELSE [intent[c] EXCEPT !.state = "halted"]
<1>1. /\ plan' = plan /\ claimed' = claimed /\ request' = request /\ jobs' = jobs \ {i}
      /\ intent' = [c \in DOMAIN intent |->
            IF c \notin Followers(i) THEN intent[c] ELSE Released(c)]
  BY DEF ContinueEffect
<1>2. DOMAIN intent' = DOMAIN intent /\ i \in DOMAIN intent
  BY <1>1 DEF TypeOK
<1>3. \A c \in DOMAIN intent \ Followers(i) : intent'[c] = intent[c]
  BY <1>1
<1>4. \A c \in Followers(i) :
         /\ c \in DOMAIN intent /\ intent[c].state = "waiting"
         /\ Parent(c) = i /\ intent[i].state = "accepted"
         /\ intent[i].execution = "provider_accepted" /\ intent[c].execution = "none"
  BY DEF Followers, Rows, MessageOK
<1>5. \A c \in Followers(i) :
         /\ intent'[c] \in Row /\ MessageOK(intent'[c])
         /\ intent'[c].after = intent[c].after
         /\ intent'[c].revision = intent[c].revision
         /\ intent'[c].state # "waiting"
         /\ intent'[c].execution # "provider_accepted"
  <2> SUFFICES ASSUME NEW c \in Followers(i)
               PROVE  /\ Released(c) \in Row /\ MessageOK(Released(c))
                      /\ Released(c).after = intent[c].after
                      /\ Released(c).revision = intent[c].revision
                      /\ Released(c).state # "waiting"
                      /\ Released(c).execution # "provider_accepted"
    BY <1>1, <1>4
  <2>1. intent[c] \in Row /\ MessageOK(intent[c]) /\ intent[c].state = "waiting"
    BY <1>4 DEF Rows
  <2>2. intent[c].after \in 0 .. NodeCount /\ intent[c].revision \in 1 .. MaxRevision
    BY <2>1 DEF Row
  <2>3. CASE plan.status = "active" /\ plan.revision = intent[c].revision
    BY <2>2, <2>3, FreshRows DEF Accepted
  <2>4. CASE ~(plan.status = "active" /\ plan.revision = intent[c].revision)
    <3> DEFINE row == [intent[c] EXCEPT !.state = "halted"]
    <3>1. row \in Row
      BY <2>1 DEF Row
    <3>2. MessageOK(row)
      BY <2>1 DEF Row, MessageOK, Verdicts
    <3>3. /\ row.after = intent[c].after /\ row.revision = intent[c].revision
          /\ row.state # "waiting" /\ row.execution # "provider_accepted"
      BY <2>1 DEF Row, MessageOK
    <3>4. Released(c) = row
      BY <2>4
    <3> HIDE DEF row
    <3> QED BY <3>1, <3>2, <3>3, <3>4
  <2> QED BY <2>3, <2>4
<1> HIDE DEF Released
<1>6. \A c \in DOMAIN intent :
         /\ intent'[c] \in Row /\ MessageOK(intent'[c])
         /\ intent'[c].after = intent[c].after
         /\ intent'[c].revision = intent[c].revision
         /\ intent[c].execution # "none" => intent'[c] = intent[c]
         /\ intent'[c].execution = "provider_accepted" => intent'[c] = intent[c]
         /\ intent'[c].state = "waiting" => intent'[c] = intent[c] /\ c \notin Followers(i)
  BY <1>3, <1>4, <1>5 DEF Rows
<1>7. TypeOK'
  BY <1>1, <1>2, <1>6 DEF TypeOK
<1>8. Rows'
  <2>1. intent' = [c \in DOMAIN intent' |-> intent'[c]]
    BY <1>1
  <2> QED BY <1>2, <1>6, <2>1 DEF Rows
<1>9. Origins'
  BY <1>1, <1>2, <1>6 DEF Origins
<1>10. RunsAreWhole'
  <2>1. Drafts' \subseteq Drafts
    BY <1>1, <1>2, <1>6, DraftsShrink
  <2> QED BY <1>1, <1>2, <2>1 DEF RunsAreWhole, PlanId
<1>11. NothingBetween'
  BY <1>2, <1>6 DEF NothingBetween, InRunBefore
<1>12. AcceptedInOrder'
  <2> SUFFICES ASSUME NEW c \in DOMAIN intent, NEW j \in DOMAIN intent,
                      intent'[c].state = "accepted", InRunBefore(j, c)
               PROVE  intent[j].execution = "provider_accepted"
    BY <1>2, <1>6 DEF AcceptedInOrder, InRunBefore
  <2>1. CASE c \notin Followers(i)
    BY <1>3, <2>1 DEF AcceptedInOrder
  <2>2. CASE c \in Followers(i)
    <3>1. i = [c EXCEPT !.node = intent[c].after] /\ c \in Ids /\ j \in Ids
      BY <1>4, <2>2 DEF Parent, TypeOK
    <3>2. /\ i.key = c.key /\ i.revision = c.revision /\ i.group = c.group
          /\ i.node = intent[c].after
      BY <3>1 DEF Ids
    <3>3. j.node <= i.node
      BY <3>2 DEF NothingBetween
    <3>4. /\ j.key = i.key /\ j.revision = i.revision /\ j.group = i.group
      BY <3>2 DEF InRunBefore
    <3>5. CASE j.node = i.node
      <4>1. j = i
        BY <1>2, <3>1, <3>4, <3>5 DEF Ids, TypeOK
      <4> QED BY <1>4, <2>2, <4>1
    <3>6. CASE j.node # i.node
      <4>1. j.node \in Nat /\ i.node \in Nat
        BY <1>2, <3>1, GroupOpsConstants DEF Ids, Nodes, WebhookNode, TypeOK
      <4>2. InRunBefore(j, i)
        BY <3>3, <3>4, <3>6, <4>1 DEF InRunBefore
      <4> QED BY <1>2, <1>4, <2>2, <4>2 DEF AcceptedInOrder
    <3> QED BY <3>5, <3>6
  <2> QED BY <2>1, <2>2
<1>13. FollowerHasJob'
  <2>1. SUFFICES ASSUME NEW k \in DOMAIN intent, NEW c \in DOMAIN intent,
                        c \in Followers(k)'
                 PROVE  k \in jobs'
    BY <1>2 DEF FollowerHasJob, Followers
  <2>2. /\ intent'[c].state = "waiting" /\ [c EXCEPT !.node = intent'[c].after] = k
        /\ intent'[k].state = "accepted" /\ intent'[k].execution = "provider_accepted"
    BY <2>1 DEF Followers, Parent
  <2>3. c \in Followers(k) /\ c \notin Followers(i)
    BY <1>6, <2>2 DEF Followers, Parent
  <2> QED BY <1>1, <2>3 DEF FollowerHasJob
<1> QED BY <1>7, <1>8, <1>9, <1>10, <1>11, <1>12, <1>13

\* Accepting a webhook event keeps the invariant.
LEMMA AcceptEventKeeps ==
    ASSUME IInv, NEW q \in Requests, NEW e \in Events, AcceptEvent(q, e)
    PROVE  IInv'
<1> USE DEF IInv
<1> DEFINE new == IF HasRun(e) \/ ~TakesEvents THEN {}
                  ELSE {WebhookId(e, g) : g \in claimed[e]}
<1>1. /\ plan' = plan /\ claimed' = claimed /\ jobs' = jobs
      /\ request' = [request EXCEPT ![q] = Idle]
      /\ intent' = [i \in DOMAIN intent \cup new |->
            IF i \in new THEN Accepted(0, plan.revision) ELSE intent[i]]
  BY DEF AcceptEvent
<1>2. DOMAIN intent' = DOMAIN intent \cup new
  BY <1>1
<1>3. \A i \in new : /\ i \in Ids /\ i \notin DOMAIN intent
                     /\ i.key = e /\ i.revision = 0 /\ i.node = WebhookNode
                     /\ i.group \in claimed[e]
  <2> SUFFICES ASSUME ~HasRun(e), NEW g \in claimed[e]
               PROVE  LET i == WebhookId(e, g) IN
                      /\ i \in Ids /\ i \notin DOMAIN intent
                      /\ i.key = e /\ i.revision = 0 /\ i.node = WebhookNode
                      /\ i.group \in claimed[e]
    OBVIOUS
  <2>1. g \in Groups
    BY DEF TypeOK
  <2>2. WebhookId(e, g) \notin DOMAIN intent
    BY <2>1 DEF HasRun
  <2>3. 0 \in 0 .. MaxRevision
    BY GroupOpsConstants
  <2> QED BY <2>1, <2>2, <2>3 DEF WebhookId, WebhookRun, Ids
<1> HIDE DEF new
<1>4. \A i \in DOMAIN intent : intent'[i] = intent[i]
  BY <1>1, <1>3
<1>5. \A i \in new : intent'[i] = Accepted(0, plan.revision)
  BY <1>1
<1>6. Accepted(0, plan.revision) \in Row /\ MessageOK(Accepted(0, plan.revision))
  <2>1. 0 \in 0 .. NodeCount /\ plan.revision \in 1 .. MaxRevision
    BY GroupOpsConstants DEF TypeOK
  <2> QED BY <2>1, FreshRows
<1>7. e \notin Starts
  BY GroupOpsConstants
<1>8. \A i, j \in DOMAIN intent' : InRunBefore(j, i) => i \notin new /\ j \notin new
  <2> SUFFICES ASSUME NEW i \in DOMAIN intent', NEW j \in DOMAIN intent',
                      InRunBefore(j, i), i.key = e, j.key = e
               PROVE  FALSE
    BY <1>3 DEF InRunBefore
  <2>1. i.node = 0 /\ j.node = 0
    BY <1>2, <1>3 DEF Origins, WebhookNode
  <2> QED BY <2>1 DEF InRunBefore
<1>9. TypeOK'
  BY <1>1, <1>2, <1>3, <1>4, <1>5, <1>6 DEF TypeOK
<1>10. Rows'
  <2>1. intent' = [i \in DOMAIN intent' |-> intent'[i]]
    BY <1>1
  <2> QED BY <1>2, <1>4, <1>5, <1>6, <2>1 DEF Rows
<1>11. Origins'
  BY <1>1, <1>2, <1>3, <1>4, <1>7 DEF Origins
<1>12. RunsAreWhole'
  <2>1. Drafts' \subseteq Drafts
    BY <1>1, <1>2, <1>4, DraftsShrink
  <2> QED BY <1>1, <1>2, <1>3, <1>7, <2>1 DEF RunsAreWhole, PlanId
<1>13. NothingBetween'
  BY <1>2, <1>4, <1>8 DEF NothingBetween, InRunBefore
<1>14. AcceptedInOrder'
  BY <1>2, <1>4, <1>8 DEF AcceptedInOrder, InRunBefore
<1>15. FollowerHasJob'
  <2>1. SUFFICES ASSUME NEW i \in DOMAIN intent', NEW c \in DOMAIN intent',
                        c \in Followers(i)'
                 PROVE  i \in jobs'
    BY DEF FollowerHasJob, Followers
  <2>2. /\ intent'[c].state = "waiting" /\ [c EXCEPT !.node = intent'[c].after] = i
        /\ intent'[i].state = "accepted" /\ intent'[i].execution = "provider_accepted"
    BY <2>1 DEF Followers, Parent
  <2>3. i \in DOMAIN intent /\ c \in DOMAIN intent
    BY <1>2, <1>5, <2>2 DEF Accepted
  <2>4. c \in Followers(i)
    BY <1>4, <2>2, <2>3 DEF Followers, Parent
  <2> QED BY <1>1, <2>3, <2>4 DEF FollowerHasJob
<1> QED BY <1>9, <1>10, <1>11, <1>12, <1>13, <1>14, <1>15

\* A plan that is changed or stopped leaves the messages alone, and no run is of
\* the revision that comes next.
LEMMA PlanKeeps ==
    ASSUME IInv, NEW status \in PlanStatuses, NEW hook \in BOOLEAN, Become(status, hook)
    PROVE  IInv'
<1> USE DEF IInv
<1>1. /\ plan' = [status |-> status, revision |-> plan.revision + 1, hook |-> hook]
      /\ intent' = intent /\ claimed' = claimed /\ request' = request /\ jobs' = jobs
  BY DEF Become
<1>2. plan.revision \in 1 .. MaxRevision - 1 /\ plan.revision + 1 \in 1 .. MaxRevision
  BY GroupOpsConstants DEF Become, TypeOK
<1>3. TypeOK'
  BY <1>1, <1>2 DEF TypeOK
<1>4. Rows'
  BY <1>1 DEF Rows
<1>5. \A i \in DOMAIN intent : i.key \in Starts => i.revision \in Nat
  BY GroupOpsConstants DEF Origins, Rows, Row
<1>6. plan'.revision = plan.revision + 1
  BY <1>1
<1>7. Origins'
  BY <1>1, <1>2, <1>5, <1>6 DEF Origins
<1>8. RunsAreWhole'
  BY <1>1, <1>2, <1>5, <1>6 DEF RunsAreWhole, Origins
<1>9. NothingBetween' /\ AcceptedInOrder'
  BY <1>1 DEF NothingBetween, AcceptedInOrder, InRunBefore
<1>10. FollowerHasJob'
  BY <1>1 DEF FollowerHasJob, Followers, Parent
<1> QED BY <1>3, <1>4, <1>7, <1>8, <1>9, <1>10

\* A request that comes in or is given up changes no message; the groups an event
\* has named stay named.
LEMMA RequestKeeps ==
    ASSUME IInv, plan' = plan, intent' = intent, jobs' = jobs,
           request' \in [Requests -> {Idle} \cup {{e} : e \in Events}],
           claimed' \in [Events -> SUBSET Groups],
           \A e \in Events : claimed[e] \subseteq claimed'[e]
    PROVE  IInv'
<1> USE DEF IInv
<1>1. TypeOK'
  BY DEF TypeOK
<1>2. Rows' /\ NothingBetween' /\ AcceptedInOrder'
  BY DEF Rows, NothingBetween, AcceptedInOrder, InRunBefore
<1>3. Origins'
  BY DEF Origins
<1>4. RunsAreWhole'
  BY DEF RunsAreWhole, Drafts, ExecutionKeys, PlanId
<1>5. FollowerHasJob'
  BY DEF FollowerHasJob, Followers, Parent
<1> QED BY <1>1, <1>2, <1>3, <1>4, <1>5

\* Before any start the invariant holds.
LEMMA InitIInv == Init => IInv
<1> SUFFICES ASSUME Init PROVE IInv
  OBVIOUS
<1>1. DOMAIN intent = {}
  BY DEF Init
<1>2. TypeOK
  BY <1>1, GroupOpsConstants DEF Init, TypeOK, PlanStatuses
<1>3. Rows
  BY <1>1 DEF Init, Rows
<1> QED BY <1>1, <1>2, <1>3 DEF IInv, Origins, RunsAreWhole, NothingBetween,
                                AcceptedInOrder, FollowerHasJob

\* The invariant is inductive.
LEMMA NextIInv == IInv /\ [Next]_vars => IInv'
<1> SUFFICES ASSUME IInv, [Next]_vars PROVE IInv'
  OBVIOUS
<1>1. TypeOK /\ Rows
  BY DEF IInv
<1>2. CASE Administration
  <2>1. plan.status \in PlanStatuses /\ plan.hook \in BOOLEAN
    BY <1>1 DEF TypeOK
  <2>2. ASSUME NEW hook \in BOOLEAN, Update(hook) PROVE IInv'
    BY <2>1, <2>2, PlanKeeps DEF Update
  <2>3. ASSUME Activate \/ Pause \/ Archive PROVE IInv'
    BY <2>1, <2>3, PlanKeeps DEF Activate, Pause, Archive, PlanStatuses
  <2>4. ASSUME NEW s \in Starts, AcceptPlan(s) PROVE IInv'
    BY <2>4, AcceptPlanKeeps
  <2>5. ASSUME NEW i \in DOMAIN intent, Retry(i) \/ Cancel(i) PROVE IInv'
    BY <1>1, <2>5, CommandProgress, ProgressKeeps
  <2> QED BY <1>2, <2>2, <2>3, <2>4, <2>5 DEF Administration
<1>3. CASE Webhook
  <2>1. PICK q \in Requests :
          \/ \E e \in Events, groups \in SUBSET Groups \ {{}} : ReceiveEvent(q, e, groups)
          \/ \E e \in Events : AcceptEvent(q, e)
          \/ AbandonRequest(q)
    BY <1>3 DEF Webhook
  <2>2. ASSUME NEW e \in Events, NEW groups \in SUBSET Groups, ReceiveEvent(q, e, groups)
        PROVE  IInv'
    <3>1. claimed' \in [Events -> SUBSET Groups]
      BY <1>1, <2>2 DEF ReceiveEvent, TypeOK
    <3>2. \A d \in Events : claimed[d] \subseteq claimed'[d]
      BY <1>1, <2>2 DEF ReceiveEvent, TypeOK
    <3>3. request' \in [Requests -> {Idle} \cup {{d} : d \in Events}]
      BY <1>1, <2>2 DEF ReceiveEvent, TypeOK
    <3> QED BY <2>2, <3>1, <3>2, <3>3, RequestKeeps DEF ReceiveEvent
  <2>3. ASSUME NEW e \in Events, AcceptEvent(q, e) PROVE IInv'
    BY <2>3, AcceptEventKeeps
  <2>4. ASSUME AbandonRequest(q) PROVE IInv'
    <3>1. request' \in [Requests -> {Idle} \cup {{d} : d \in Events}]
      BY <1>1, <2>4 DEF AbandonRequest, TypeOK
    <3> QED BY <1>1, <2>4, <3>1, RequestKeeps DEF AbandonRequest, TypeOK
  <2> QED BY <2>1, <2>2, <2>3, <2>4
<1>4. CASE Workers
  <2>1. ASSUME NEW i \in jobs, ContinueEffect(i) PROVE IInv'
    BY <2>1, ContinueKeeps
  <2>2. ASSUME NEW i \in DOMAIN intent, Load(i) PROVE IInv'
    BY <1>1, <2>2, LoadProgress, ProgressKeeps
  <2>3. ASSUME NEW i \in DOMAIN intent, Send(i) PROVE IInv'
    BY <1>1, <2>3, SendProgress, ProgressKeeps
  <2>4. ASSUME NEW i \in DOMAIN intent, Complete(i) PROVE IInv'
    BY <1>1, <2>4, SettleProgress, ProgressKeeps DEF Complete
  <2>5. ASSUME NEW i \in DOMAIN intent, Expire(i) PROVE IInv'
    BY <1>1, <2>5, SettleProgress, ProgressKeeps DEF Expire, Verdicts
  <2> QED BY <1>4, <2>1, <2>2, <2>3, <2>4, <2>5 DEF Workers
<1>5. CASE UNCHANGED vars
  <2>1. claimed \in [Events -> SUBSET Groups]
        /\ request \in [Requests -> {Idle} \cup {{e} : e \in Events}]
    BY <1>1 DEF TypeOK
  <2> QED BY <1>5, <2>1, RequestKeeps DEF vars
<1> QED BY <1>2, <1>3, <1>4, <1>5 DEF Next

-----------------------------------------------------------------------------
(* Theorems                                                                  *)

\* Every reachable state satisfies the invariant.
LEMMA Inductive == Spec => []IInv
BY InitIInv, NextIInv, PTL DEF Spec

\* A run sends each of its messages to a group at most once and in the order of
\* the nodes, however many nodes, groups, starts and revisions there are
\* (CreateExecutionIntents, ClaimNextExecutionIntent, the completion sink).
THEOREM MessagesInOrder == Spec => []SentInOrder
<1>1. IInv => SentInOrder
  <2> SUFFICES ASSUME IInv, NEW i \in DOMAIN intent
               PROVE  /\ intent[i].sent <= 1
                      /\ intent[i].sent = 1 => \A j \in DOMAIN intent :
                            InRunBefore(j, i) =>
                               /\ intent[j].execution = "provider_accepted"
                               /\ intent[j].sent = 1
    BY DEF SentInOrder, IInv
  <2>1. \A j \in DOMAIN intent : MessageOK(intent[j])
    BY DEF IInv, Rows
  <2>2. intent[i].sent = 1 => intent[i].state = "accepted"
    BY <2>1 DEF MessageOK
  <2> QED BY <2>1, <2>2 DEF IInv, AcceptedInOrder, MessageOK
<1> QED BY <1>1, Inductive, PTL

\* A webhook event sends at most one message to each of the groups it first
\* named, whichever requests deliver it and whatever the plan goes through
\* (ClaimWebhookReplay, AcceptWebhook, webhookRunSourceKey).
THEOREM EventsSentOnce == Spec => []EventSentOnce
<1>1. IInv => EventSentOnce
  <2> SUFFICES ASSUME IInv, NEW i \in DOMAIN intent, NEW j \in DOMAIN intent,
                      i.key \in Events
               PROVE  /\ i.group \in claimed[i.key]
                      /\ i.key = j.key /\ i.group = j.group => i = j
    BY DEF EventSentOnce
  <2>1. i \in Ids /\ j \in Ids
    BY DEF IInv, TypeOK
  <2> QED BY <2>1 DEF IInv, Origins, Ids
<1> QED BY <1>1, Inductive, PTL

\* No message waits behind one that WeCom has taken without the stored job that
\* accepts or halts it (the completion sink, ContinueEffect).
THEOREM FollowersHaveJobs == Spec => []FollowerHasJob
<1>1. IInv => FollowerHasJob
  BY DEF IInv
<1> QED BY <1>1, Inductive, PTL

=============================================================================
