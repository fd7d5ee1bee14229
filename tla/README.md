# TLA+ models of AI-CRM v3

AI-CRM v3 is a modular monolith in Go over one PostgreSQL database. About
thirty business modules under `src/internal` share a few pieces of
infrastructure, and those pieces decide whether a customer is charged, refunded
or written to once, twice or never. This directory models them, checks the models
with TLC and proves the most important results with TLAPS.

## The system

| Component | State it keeps | Operations | What is hard |
|---|---|---|---|
| **External Effects kernel** (`internal/externaleffects`) | effect rows (state, generation, attempt count, fence, lease), attempt rows, operation receipts, River jobs | `AcceptAndQueue`, `Cancel`, `Retry`, `Reconcile` and their in-transaction variants, `CompleteClientEffectWithin`, `RetryTagCatalogMutationWithin`, `RunAttempt` | a crash between two transactions with a Provider call in the middle; redelivered and superseded jobs; late workers; ambiguous answers |
| **Completion sinks** (`outbound`, `payment`, `tag`, `channel`, `customer`, `automation`, `segment`, `aiassistant`, `survey`, `adminops`) | the owner's own record of each effect | `CompleteEffect`, called inside the kernel's transaction | a refusal rolls the kernel back; lists of kinds that are told, kept in several places |
| **Webhook inbox** (`platform/webhook`) | inbox rows with attempts, budget and lease | `Ingest`, `Claim`, `Complete`, `Retry` | crash after a claim, exhausted attempts, two workers on one delivery |
| **WeCom callbacks** (`wecom/processor.go`, `lifecycle.go`, `store_postgres.go`, `callback_store_postgres.go`, `admin_http.go`) | receipts, event cursors by contact and employee, relationships by customer and employee | `ProcessOnce`, `ProcessWithin`, an administrator's retry | late, repeated and same-second callbacks; identities that appear, merge and conflict in between |
| **Idempotency receipts** (`platform/idempotency`), **outbox** (`platform/outbox`) | receipts, events | begin, claim, record; append | replay under another payload |
| **Payment and Order** (`internal/payment`, `internal/order`) | payments, refunds, orders, callback receipts, reconciliation jobs | create, refund, callback, query, completion, settle | three channels report one event; answers that are stale when applied; two clocks |
| **Coupon** (`internal/coupon`) | rules, claims, redemptions | publish, stop, claim, reserve, consume, release | the last coupon; a checkout that fails after the coupon expired |
| **Service periods** (`internal/order/store/entitlement.go`) | entitlements, grant and refund receipts | grant, revoke, import | late notices, renewals on imported periods, partial refunds |
| **Distribution** (`internal/distribution`, `payment/app/distribution_settlement.go`) | commissions, exceptions, split instructions, unfreezes | due check, recheck, prepare, reconcile, release | a decision made on a state read before the transaction; refunds after the split |
| **Group operations** (`internal/groupops`, `outbound/group_message.go`) | plans, execution intents, webhook replays, continuation jobs | activate, run, receive event, dispatch, continue | order of messages across workers and crashes; overlapping webhook requests |
| **Identity, Customer, Channel, Tag, Segment** | master data, projections of WeCom | sync, merge, command, publish | stale snapshots, merges under running commands |
| **Automation, AI assistant, Operation cycle** | plans and runs | approve, schedule, advance | long-running runs over effects that may stay unknown |
| Everything else (media, product, survey forms, dashboards, access, configuration, front end, migrations) | rows edited in one transaction | CRUD | nothing a model checker would add to; listed in `PROJECT.json` |

Components interact in four ways: an owner accepts an effect *inside its own
transaction*; the kernel tells the owner the outcome *inside the kernel's
transaction*, through one composed completion router
(`cmd/aicrm/payment_adapters.go`); River delivers jobs at least once; and
Providers' callbacks land in the webhook inbox, from which timer-driven workers apply
them.

## Modules

| Module | Models |
|---|---|
| `Envelopes` | kinds, lanes, states: which envelopes the kernel accepts and which queue they take |
| `CompletionSinks` | for every kind, what the owner's sink does with a completion |
| `ExternalEffects` | the kernel: one action per transaction, and one for the Provider call between two of them |
| `EffectContract` | the abstract promise: at most once, reopened only if undone, ambiguous is final |
| `ExternalEffectsProofs` | the theorems |
| `MCExternalEffects` | envelopes for TLC |
| `WebhookInbox` | a row of the inbox and what `Claim`, `Complete` and `Retry` do to it |
| `CallbackInbox` | the external-contact callbacks: inbox, workers, contact lifecycle, receipts, administrator |
| `FollowLedger` | the abstract promise: a callback settles once, and who follows whom depends on the set of settled callbacks, not on their order |
| `CallbackInboxProofs` | the theorems |
| `MCCallbackInbox` | callbacks for TLC |
| `Payments` | one WeChat Pay checkout: payment, refunds, order, and the Provider where the money moves |
| `MoneyLedger` | the abstract promise: the order follows the money, each return is booked once |
| `Coupons` | one coupon rule, the claims under it and the orders that spend them |
| `Entitlements` | the service period of one customer for one product |
| `Commissions` | the commission of one distributed order, from the paid event to the split and the unfreeze |
| `GroupOps` | one plan of messages to WeCom groups, its runs and its webhook events |
| `PaymentsProofs`, `CouponsProofs`, `EntitlementsProofs`, `CommissionsProofs`, `GroupOpsProofs` | the theorems |
| `SumTheorems` | what the community modules' `SumFunctionOnSet` computes, for the proofs about amounts and days |
| `MCPayments`, `MCCoupons`, `MCEntitlements`, `MCCommissions`, `MCGroupOps` | symmetries for TLC |

### The kernel

`state`, `generation`, `attemptCount`, `leaseFence` and `lease` are the columns of
`external_effects`; `lease` is kept relative to the database clock (none, active,
expired). `attempts` are the rows of `external_effect_attempts`, `receipts` those of
`external_effect_operation_receipts`, `jobs` the River jobs not yet finished. `inflight`
holds the `RunAttempt` calls between their first transaction (`Claim`) and their second
(`RecordOutcome`); `CallProvider` is the call in between. `Abandon` covers every way
in which the second commit does not happen: a crash, a cancelled context, a sink that
refuses, a compare-and-set that fails. `owner` is what the owning domain was last told.
`delivered` is a ghost: how often the Provider performed the operation.

A Provider's answer is any combination of the adapter's flags that the adapters' own code
allows (`HonestAdapter`: an operation is performed only through a call that is reported, an
unclassified error counts as one, and `SafeToRetryRejected` and the tag catalogue's evidence come
from a complete answer with an error code, or from before the call). Nothing is assumed of
`final_failed`: the payment adapters say it of every answer outside 2xx
(`payment/provider/wechatpay.go:260`), also when the server failed after it had performed the
operation. The kernel's classification in `RunAttempt` is modelled branch by
branch (`Classify`), so that contradictory flags are part of every run. River may discard a job
after any run (`DiscardJob`): 25 is its default, and runs are not counted.

The operations of administrators and owners are actions with the code's guards and
receipts. A command that replays a receipt or returns an error changes nothing and is a
stuttering step.

### The sinks

An owner's record is abstracted to the kernel state it mirrors with the attempt and
generation it was last told of. A sink returns the set of records it may leave; the
empty set is a refusal, which disables the action that would have committed. Digests,
artifact contents and the per-line bookkeeping of a handed-over batch are abstracted;
whether an artifact is valid is a flag.

### The callback inbox

`inbox` is `webhook_inbox` (a lease is absent, active or expired; `due` says whether
`next_attempt_at` is reached), `receipts` and `retries` are the two kinds of
`wecom_callback_receipts`, `cursor` is `wecom_external_contact_event_cursors`, `rel` is
`wecom_follow_relationships`. `batch` is what a worker process holds in memory between its
transactions: the attempt number and budget as they were claimed. `writes` records what the
lifecycle wrote in other modules' tables, `identity` what OneID would answer; the
latter changes at any time (`IdentityChanges`, external).

`ClaimBatch` is `ProcessOnce`'s claim. `ProcessDelivery` is the first transaction of
`processDelivery`, which commits the lifecycle (`ProcessWithin`), the receipt and the
completion together; `RecordFailure` is the second, after the first was rolled back
for whatever reason. `AbandonBatch` is a crash, a lost compare-and-set or an error, any of
which ends the batch. `AdminRetry` is the privileged retry with its receipt.

`ProcessWithin` has four results: ignored before admission, admitted but of an
unknown contact, admitted with an identity conflict, applied. Payloads are abstracted to
kind, contact, employee and second; the channel's attribution of an entrant, which
decides nothing here, is left out.

### Payment and order

`payment`, `order` and `refund` are rows of `payments`, `orders` and `payment_refunds`;
`effect` is the kernel's state of the prepay and of each refund request, reduced to what Payment
can tell apart. `trade` and `moneyBack` are the Provider's records, which no table of
the program holds: they say whether the money moved. `Perform` is the Provider's side of
a call, `CompleteEffect` the kernel's second transaction with Payment's sink in it,
`PaymentCallback` and `RefundCallback` are `ApplyVerifiedCallback`, `Ask` and `Apply` the
two halves of a reconciliation: the answer is read outside any transaction and
applied in a later one. `SettlePaymentWithin` of the order joins each of these transactions and
may refuse the whole of it. Times matter because three guards compare them; the Provider's
have whole seconds (`Second` ticks), the server's do not. An order has one payment
(`migrations/0021`, a UNIQUE), and only WeChat Pay is admitted (`payment/app/service.go:396`).
`split` is what profit sharing has reserved; `Commissions` has the other side of it.

The Provider has a clock of its own, and any time may be the one of a payment or a refund. An
answer outside 2xx ends a refund or a prepay, performed or not (`Answered`). River gives a
reconciliation job up after 16 or 12 runs; the model lets any run be the last (`DiscardJob`).

`MoneyLedger` knows neither effects nor callbacks: an order becomes paid once
the money is there, fails only if it never will be, and books each return of money at most once.

### Coupons

The rule, the claims, the redemptions and the order's checkout snapshot are four tables in two
domains that change in the same transactions. A settlement carries the Provider's time, which
may lie before the server's clock; a released coupon becomes available or expired by that
time. The administrator's page only sends `UpdateDraft`; `Update`, which the service also offers,
is modelled with its guards. Copying a rule makes an independent draft and is left out.

### Service periods

`period` has the native row and the imported one, `grant` and `refunded` the receipts that make
grants and revocations idempotent. `baseline` is a ghost: the end of the imported
period. Each payment and refund is processed up to `MaxDelay` days after it happened. A
refund of an order whose days have lapsed shortens the period that was bought
after it; `04-entitlement-coupon.md`, section 6, documents that as a rule taken over from the old
system, so no property denies it. Remarks, alliance edits and the refund of a mapped
historical order are left out.

### Commissions

`due` is the one River job of a commission: it reads Payment or asks the Provider outside its
transactions and decides later on what it read, so its record carries the values it saw.
`rechecks` are the River jobs every refund leaves behind; one that is refused or meets an outage 24
times is discarded (`DiscardRecheck`), and stays as a row of River's if it reports money that went
back to the buyer. A refund the Provider made and Payment takes for failed is `misread`. `rewound`
records that a due check wrote the refunded total it had read over a larger one. `instruction`, `effect` and `split` are
Payment's row, the kernel's effect and the Provider's record of the split; `unfreeze` and
`release` the same for what is left of the frozen funds. One order item and one distributor: the
commissions of different items share only the order's available funds. Settlement rows,
deadline warnings, audit rows and the administrator's handling of exceptions write no
row that decides anything here. `CancelUnsubmittedProfitSharing` has no caller, and a commission
of zero is never created.

### Group operations

`intent` joins an execution intent with its execution, its effect and the call a worker has under
way; `sent` counts what WeCom really got. `AcceptPlan` is a request to run the plan: it finds
the run of its key and revision again, drafts what has no execution yet, accepts the first
message of each group and lets the others wait. The completion sink adds the
continuation job in the kernel's transaction; `ContinueEffect` accepts the next message, or halts
it when the plan was stopped or changed. A webhook request has two transactions with a lookup
of its material between them (`ReceiveEvent`, `AcceptEvent`). Nodes and groups of a plan can be
edited only in draft and are constants. `ManualReconcile` with `ReconcileExecution` is not an
action because it can never apply: it needs a task receipt, which a message of unknown outcome does
not have (`07-group-ops.md:74` notes it). `Execute`'s branch for a message without identifier
(`outbound/group_message.go:253`) ends in the same final failure as a rejection does; the client
(`wecom/adapter/client.go:1713`) turns such an answer into a rejection before it gets there. The times of delay nodes, the delivery
read-back, the directory, the catalogue and imported history are left out.

## Runs

| Run | Result | Question |
|---|---|---|
| `safety` | passes | Is the kernel safe for every kind on every lane its owner uses, and does it implement `EffectContract`? |
| `timely` | passes | If no process outlives its lease, is an unknown outcome stable evidence, and does every effect settle, unless River discards its job? |
| `ordering` | passes | Do cursors and relationships depend only on which callbacks were processed? Four callbacks about two contacts, added, deleted and added again, two of them of one second, in every order. |
| `takeover` | passes | With two workers that stall, crash and take over, and an administrator: is a callback applied once, are the receipts true, do budgets hold, does every callback come to an end? |
| `books` | passes | Do order, payment, refunds and Provider agree whatever order completions, callbacks and stale answers come in, and does the checkout implement `MoneyLedger`? |
| `booked` | passes | If callbacks never come, does the reconciliation job still bring the Provider's decision into the books, unless River gives it up? |
| `coupons` | passes | Can stock or a customer's share be oversold, or a coupon pay for two orders, while the rule is edited, stopped and archived? |
| `periods` | passes | Has a customer all the days that are paid for, and no more, through late notices, renewals, an import and refunds? |
| `splits` | passes | With refunds and a lost qualification racing the split: is what is shown true, and does the payment cover everything? |
| `payout` | passes | Is a split that arrived booked in the end, and does every hold end? |
| `messages` | passes | Do the messages of a run keep their order and an event its single message, through lost answers, late workers, overlapping requests and edits of the plan? |
| `resend` | violated | Does waking a plan again send nothing twice, as the product requirements say? Not while a message waits for the one before it. |

The properties of `safety`:

* `AtMostOnceDelivery`: the Provider performs an effect at most once.
* `NotDoneMeansUndelivered`: what is queued, to be retried or cancelled was not performed, and
  neither was a final failure all of whose attempts carry the tag catalogue's proof, the only one
  that is ever reopened. Of any other final failure nothing is claimed: the adapters do not
  make it true.
* `SingleFlight`: one worker at a time, and a late one is fenced off.
* `UnknownIsReconcilable`: the row that a reconciliation looks up by generation and
  fence exists and is unique (the browser's completion writes fence 0, the worker's the
  current fence), and the sink takes the verdict.
* `GenerationsAreAuthorised`: one retry receipt per generation, however often a command
  is repeated.
* `OwnerAgrees`: the owner's record follows the effect on every path on which the owner is told.
* `AmbiguityIsFinal`: nothing but a person moves an unknown outcome, and never to anything
  but reconciled.
* `ImplementsContract`: all of this as a refinement. A final failure is the phase `closed`, which
  vouches for nothing; only what is undone is opened again.

The properties of `timely`:

* `EvidenceIsStable`: the Provider does not act once the outcome is unknown.
* `EffectsSettle`: an accepted effect leaves queued and attempted, or River discarded the job of its
  generation. The owner handoff is excepted by name, since `MCExternalEffects_handoff.cfg` shows it
  stuck; the run has it among its envelopes.

The properties of the callback runs:

* `AppliedOnce`: the lifecycle of a callback commits at most once, and nothing comes after.
* `StatusIsReceipted`: row and receipts tell the same story; the administrator's page is
  built from the receipts and its retry is aimed at one.
* `RetryGrantsOne`: attempts stay within the budget, the budget within what was granted.
* `RelationshipIsLatest`: a relationship is what the latest callback applied to it says,
  also when several contacts are one customer.
* `NoGhosts`: nothing is created on behalf of a callback that an already processed one beats.
* `ImplementsLedger`: order independence as a refinement.
* `CallbacksSettle`: every callback ends processed or failed, or is stranded as
  `MCCallbackInbox_lastattempt.cfg` shows (so it says nothing about that defect). Abandoned attempts count towards the budget, so this also covers the
  callbacks of a batch that an earlier one ended.

The properties of the money runs:

* `BooksAreTrue`: payment and order tell one story; the order's refunded amount is the sum of the
  completed refunds, each counted once; what is booked has really moved.
* `NeverOvercommitted`: what is reserved for refunds and for a receiver stays within what was
  paid, and what was or may still be returned is part of it. The one exception is a refund that an
  answer outside 2xx ended (`FailedByAnswer`): `FailedRefundReturnsNothing`, without it, is
  violated by `MCPayments_servererror.cfg`.
* `MovedIsBookable`: no guard on status, amount or receipt stands between money that
  moved and its booking, whatever time the Provider gave it; a time the payment admits the order
  admits too. A time before the row's is refused for good (`MCPayments_paytime.cfg`,
  `MCPayments_refundtime.cfg`).
* `SettledIsFinal`: a late completion or a stale answer takes nothing back.
* `ImplementsLedger`: the same as a refinement. `TradeIsBooked`: a payment whose time the row
  admits, and the close of a trade that left a job behind, reach the books without any callback,
  or River gave the job up.
* `NeverOversold`, `TablesAgree`, `SpentStaysSpent`: the stock and the share of each customer; the
  agreement of the four tables, so that no settlement is refused because of the coupon; a
  coupon comes back only if it was still valid when its order failed.
* `PeriodsArePaidFor`, `PaidIsCovered`: no day too many, and, while nothing is refunded,
  none too few. `HistoryIsKept`: an imported period survives refunds of what renewed it.
  `TakenBackOnce`: a second partial refund takes no more days.
* `CommissionIsTrue`: shown as paid only if the Provider confirmed the receiver, with the amount
  that was sent (`PaidIsReal`); only refunds that Payment has are counted (`CountsRealRefunds`); one
  not counted yet is in a recheck, waiting or discarded, unless the due check rewound the total
  (`RefundsAreQueued`); and a split above what Payment's completed refunds leave owed is an open
  exception as soon as they are counted (`OverpaidIsVisible`). What may stay uncounted is shown by
  `MCCommissions_laterefund.cfg` and `MCCommissions_rewound.cfg`.
* `CancelledForCause`: cancelled only if the money cannot arrive any more, and only because of
  refunds. `FundsCoverSplit`: while the split may still be paid, the payment covers it together
  with every refund that Payment counts, completed or under way, and nothing was unfrozen. A
  `misread` refund is outside the sum (`MCCommissions_servererror.cfg`).
* `SplitIsBooked`, `HoldsEnd`: a split that arrived is booked, and a commission that could be
  settled is not left waiting.

The properties of the group messages:

* `SentInOrder`: within a run a message is sent at most once, and only when WeCom has
  confirmed all that stand before it.
* `EventSentOnce`: an event sends one message to each group it first named.
* `FollowerHasJob`: a message whose predecessor was taken has a stored job. It is the safety half
  of "a restart loses no later node"; River running stored jobs is the other half.

**Bounds.** One effect: effects share no state but the acceptance keys, so a second one
adds interleavings of independent rows. Two receipt keys: one to repeat and one to be
fresh. Three generations (`MaxGeneration`) allow a retry after a retry; the automatic
retry stops after three attempts rather than five (`AutoRetryLimit`), so that both the
bounded requeue and its exhaustion happen in one generation and again in the next. In
`safety` a worker may stall past its lease (`PausesPastLease`), in `timely` not. The
theorems hold for every value of all of them. Deadlock checking is off: when every
effect is settled and the commands are used up the system rests.

For callbacks, `ordering` has four callbacks, one worker that claims one at a time and a
budget of one (customers are symmetric: no definition tells them apart): failures and abandonment leave any subset unprocessed, so every order of every
subset occurs. `takeover` has a good and an undecodable callback, two workers, a budget of
two (the code's is eight) and two administrator's keys, so that a takeover, a late worker, an
exhausted budget and a second grant all happen. `Event`, which fixes what the callbacks
report, is a constant of each instance and arbitrary in the theorems.

`books` has one payment of two minor units and two refunds, so that two halves, a whole and
one too many all occur; two instants and a Provider's time that is either of them, so that a
success may be timed before or after the row; one unapplied answer at a time, which may
already be stale; and calls after the lease (938,000 states). `booked` needs no refunds and has
seven instants, two to the Provider's second (31,000 states). `coupons`
has three claims, two customers, two orders, limits of one to three and a validity of one tick, so
that a coupon expires while its order is pending (103,000 states). `periods` has two orders of one
or three days on a clock of four, notices a day late, and an import in any state (861,000 states).
`splits` has two refunds of half the price, one purchase and a deadline within reach, and follows
behaviours in which River is at most two rechecks behind (`ShortBacklog`; 2.1 million states);
`payout`, with fairness, one refund (78,000 states). The amounts make the rounding of
`CalculateCommission` visible: half of the commission rounds down. `messages` has three nodes, one
group, one start, one event, two overlapping requests and four revisions (about 240,000 states):
groups of a plan share only its row. `resend` needs two starts and two nodes.

**Fairness.** `Claim`, `RecoverStale` and `LeaseExpires` are weakly fair: River delivers
a live job again until it returns nil or is discarded (snoozes and retries are part of that, and so
is a Preflight that is ready at last), and time passes. A job that is never discarded has had
fewer failing runs than River allows, which is why fairness is claimed of live jobs only, and
the properties name the discard as an end. Nothing is assumed of a worker after its
claim, nor of any person.

In `CallbackInbox` a claim that includes a given candidate is weakly fair, because the worker's
timer fires every thirty seconds (`deploy/aicrm-wecom-worker.timer`) and `Claim` takes the
oldest candidates first; a worker process that holds a batch works on it or ends; leases
and delays run out. Whether an attempt succeeds is not assumed.

In `Payments` an answer that was read is applied or forgotten, and a reconciliation job is strongly
fair while it lives: River repeats it until the row is terminal or its sixteen or twelve attempts
are used up (`reconciliation_river.go:19-20`), which is the action `DiscardJob` and an end that the
properties name. Nothing is assumed of callbacks, which may never come, nor of the Provider. In
`Commissions` the due check
snoozes, which uses up no attempts, so its steps are fair; those a lookup or a crash may
prevent are strongly fair, which assumes that not every one of the 24 attempts of the job fails;
rechecks are weakly fair until they are discarded. Nothing is assumed of buyers, refunds, the
Provider or the clock. `GroupOps`, `Coupons` and `Entitlements` state no liveness.

**Known disagreements.** The configurations below show places where the code
does not do what a comment or document says. Each is reproduced with
`tlc -config <file> <module>` and ends in a counterexample. `resend` is the one that is part
of the project's runs; the others are kept for whoever changes that code.

| Configuration | Property | What it shows |
|---|---|---|
| `MCExternalEffects_projection` | `RecoveryIncludesProjection` | `externaleffects/worker.go:58` says recovery includes the owner's projection; an expired attempt of Payment's is not projected. |
| `MCExternalEffects_handoff` | `ExpiredAttemptsFailClosed` | The handoff's sink (`customer/owner_handoff_store.go:753`) refuses a generation it was not told of, so that after a retry an expired attempt can never be closed. |
| `MCExternalEffects_excel` | `RejectionsBackOff` | `media-preparation-api.md:75` lets a rate-limited message back off; the private message's sink (`outbound/group_message.go:584`) has no case for queued. |
| `MCCallbackInbox_lastattempt` | `AbandonedIsTakenOver` | A callback whose worker dies on its last allowed attempt is claimable by nobody (`platform/webhook/store.go:66`). |
| `MCCallbackInbox_samesecond` | `EqualCursorsFailClosed` | The comment at `wecom/store_postgres.go:164` says callbacks of the same second fail closed; deletion wins. |
| `MCPayments_paytime` | `AnyPaymentIsBooked` | A payment whose success time, by the Provider's clock, lies before the row's `updated_at` is refused by every notice and every answer (`payment/domain/payment.go:155`). |
| `MCPayments_refundtime` | `RefundIsBooked` | The same for a refund, for which the Provider's whole seconds suffice: one made within the second of the request is timed before it. |
| `MCPayments_servererror` | `FailedRefundReturnsNothing` | A server's error (5xx) counts as a final failure (`payment/provider/wechatpay.go:260`) although the refund may have been performed; its amount is then offered again. |
| `MCCommissions_servererror` | `ReturnedCoversSplit` | The consequence for a split: what the Provider returned and what is split exceed the payment. |
| `MCCommissions_preflight` | `SplitIsCurrent` | The refunded total read before the transaction (`distribution/app/settlement.go:99`) may be stale when the split is accepted. |
| `MCCommissions_rewound` | `OverpaymentIsFound` | The same stale total is written over one that rechecks had already counted (`distribution/domain/distribution.go`, `RepriceFromPaidMinor`): the split is too large, no exception is open and no recheck is left to find it. |
| `MCCommissions_laterefund` | `RefundsAreRecorded` | A refund whose time lies before the commission's `updated_at` is refused on every recheck (`distribution/domain/distribution.go:269`), until River discards the job. |
| `MCCommissions_release` | `FailedReleaseIsReported` | The CHECK at `migrations/0156:114` refuses the row that would report a failed unfreeze. |

## Theorems

`ExternalEffectsProofs` proves for every set of effects, keys and legal envelopes and
every bound: type correctness, at-most-once delivery, that what is offered again was not done, single
flight, that ambiguity is final, that an unknown outcome is stable evidence when no
process outlives its lease, that the kernel implements `EffectContract`, that generations are
authorised, that owners agree, and that an unknown outcome can be closed. The
assumptions are `ProfilesAssumption` and `BoundsAssumption` of `ExternalEffects`; what
adapters ensure is part of the model (`HonestAdapter`, `AnswersOf`), and does not include that a
final failure is true.

At-most-once is not inductive. `DeliveryInv` adds what makes it so. *Single flight*: a
`RunAttempt` in flight either still owns the effect (same generation and fence, state
attempted) or the effect is unknown or reconciled and its lease has expired; so a claim,
which needs the state queued, never meets another worker. *Pending work is
undelivered*: a worker that has not called yet, or that came back with a retryable verdict or with
the tag catalogue's proof, is on an effect that was not performed. The first half
is why the call that follows is the first one; the second is why recording the
verdict keeps `NotDoneMeansUndelivered`. It rests on `ClassifySound` and `EvidenceSound`: whatever flags an
adapter combines, the kernel says retryable, or keeps a proof, only if nothing was performed. A final
failure without proof may have been performed; at-most-once survives because `Retry` takes
retryable failures only, and the guarded retry of the tag catalogue asks for the proof of
every attempt.

The three bookkeeping theorems have invariants of their own. `GenerationsCounted` adds that an
effect that was never accepted has no retry receipts. `OwnerFollows` is stricter than `OwnerAgrees`
for a running attempt: its owner shows it as queued, because the sinks of model generations ignore
what they are told in any other state. It rests on `SinkMirrors` (the sinks in the control list write
what they are told), on `MediaWantsArtifact` (which is why a cancel or a retry of material is refused rather
than recorded as an upload), and on the control list being part of the lease recovery's list.
`RowsInStep` says that fences name rows and that a running or unknown attempt has its row.
A browser's report writes fence 0, and `Reconcile` looks up the effect's fence: the row is found only
because a JSSDK send is never queued again after a worker claimed it (`BrowserOf`), which in turn holds
because `SidebarExpirySink` takes nothing but an unknown outcome. Another sink for that kind that let
a retryable failure through would make unknown outcomes impossible to close.

`CallbackInboxProofs` proves for all sets of callbacks, whatever they report, and of
workers, keys and identities: type correctness, `AppliedOnce`, `StatusIsReceipted`,
`RetryGrantsOne`, `RelationshipIsLatest`, `NoGhosts`, and that the inbox implements
`FollowLedger`. The assumptions are `EventAssumption` (instants are positive, which
`decodeDelivery` checks) and `BudgetAssumption`.

`AppliedOnce` and `StatusIsReceipted` are inductive only together, and with the fact that no
receipt is ahead of its row (`InboxInv`): the row that a worker may complete is being processed,
so the current attempt has no receipt yet, and the attempt number of a claim is larger than any
receipt's. `FollowInv` says that a cursor is the latest of the settled callbacks of its
pair and a relationship the latest of those applied to it; that `Newer` is a strict weak
order (`NewerOrder`, `AdvanceIsLatest`) makes both inductive whatever the order. `BudgetInv`
counts the retry receipts of a callback, which are finite.

`GroupOpsProofs` proves `SentInOrder`, `EventSentOnce` and `FollowerHasJob` for all sets of starts,
events, requests and groups and any number of nodes and revisions. The assumption is
`GroupOpsConstants`. The order of messages is not inductive: what is sent was accepted, and what is
accepted has everything before it confirmed (`AcceptedInOrder`). A continuation accepts a
message behind its predecessor only, so that nothing of the run may stand between the two
(`NothingBetween`); a repeated start could put something there, were the run not whole already
(`RunsAreWhole`, which rests on executions never going away within a revision). `MessageOK` says
that a worker about to send has the message's first attempt: this is why `sent` stays at one.

`CouponsProofs` proves `NeverOversold`, `TablesAgree` and `SpentStaysSpent` for all sets of claims,
customers and orders, every price and all limits, from `CouponConstants`. `StockInv` ties the issue
counter to the number of claims; a rule's discount is then final as soon as some order names a
coupon, which is why a pending order's price still matches when the payment arrives. `NotShared` and
`TakenIsUsed` are the two halves of "one order per coupon" that each settlement needs.

`PaymentsProofs` proves `BooksAreTrue`, `MovedIsBookable`, `SettledIsFinal`, `NeverOvercommitted` and
that the checkout implements `MoneyLedger`: for every price, every set of refunds and every bound, from
`AmountAssumption`, `ClockAssumption`, `FaultAssumption` and `RefundAssumption`. The Provider's times are arbitrary and
it may fail a call it performed. The invariant `IInv` has two halves. `RowInv` relates
single rows: an answer under way was true when it was read (`AnswersAreTrue`, which is why a stale one
may still be applied), whatever moved at the Provider was handed over by a row that stands behind it
(`MoneyIsReal`, `RefundsAreBacked`), a receipt is in the books (`ReceiptsAreBooked`), and one refund is
under way at a time. `FailureHasCause`, added for `NeverOvercommitted`, says why a refund failed:
the Provider closed it, or an answer to the call ended it, the only way in which money may have left. `SumInv` relates totals: finitely many refunds were requested, the completed
ones add up to the order's refunded amount, and reserve and split fit into the payment.

`EntitlementsProofs` proves `PeriodsArePaidFor`, `PaidIsCovered`, `HistoryIsKept` and
`TakenBackOnce` for all sets of orders and durations, from `EntitlementConstants`. What is not visible in
those properties, and must be kept, is where the imported end survives: while a renewal stands on
the historical row, some grant on it remembers that end as its prior one
(`BaselineIsKnown`), so that a refund that takes days back can still find it. A row that is no
longer active has no days left (`EndedIsPast`) that a later refund could hand out again.

`CommissionsProofs` proves `CommissionIsTrue`, `CancelledForCause` and `FundsCoverSplit` for every
price, rate, share and set of refunds and purchases, from `CommissionConstants` and
`CommissionIsPositive`. The due check reads before it decides and the
buyer may ask for a refund in between: `ReadIsPast` says that what it carries counts only refunds that
Payment had, and `AnswersAreTrue` that an answer carried to the next transaction is the Provider's.
`SplitFollows` relates instruction, effect and split, and `NotReleased` says that the rest of the
payment is not released while the split may still be paid. `RefundsAreQueued` (`UncountedIsQueued`)
is proved by itself: the counted total follows Payment's only through a recheck that reports the
refund, every completed refund leaves one, and a recheck goes away only when it has brought the
total up to date or is discarded; the due check, which writes a total it read before, is the one
writer that can lower it, and marks the row `rewound`. Two assumptions were made explicit by
the proof: the distributor has a qualifying purchase when the paid event is consumed
(`Purchases # {}`; otherwise no commission arises), and the commission is at least one minor unit
(`CommissionIsPositive`; a commission of zero has a status of its own,
`distribution/domain/distribution.go:230`). The proof also found that the CASE of `ApplyAnswer`
had overlapping guards for an instruction that is already paid; the definition now keeps a paid
instruction first, as the code's early return does.

`SumTheorems` is what the proofs about totals rest on: the sum over a finite set is a natural number,
depends only on what is added, and changes by the element added or removed, whichever element the
library's recursion chooses. Since no induction rule with an operator parameter can be used, the
proofs take a smallest counterexample (`SmallestSubset`).

Only model-checked: liveness (`EffectsSettle`, `CallbacksSettle`, `TradeIsBooked`, `SplitIsBooked`,
`HoldsEnd`), since fairness and ENABLED are out of the prover's reach. Every safety invariant and every
action property that a passing run checks is proved.

## Limits

* The repository has 233,000 lines of Go in 997 files, most of them HTTP handlers, queries,
  mappings between records, migration tools and Provider clients. The models cover the transactions
  in which several actors or failures meet; a large part of what is left has nothing
  a state machine would say. `PROJECT.json` lists it component by component.
* In `ExternalEffects` the owner's record changes only through the kernel. What Payment and
  Group operations do to their own rows besides is in `Payments`, `Commissions` and `GroupOps`, each
  with the kernel reduced to the states of its own effects.
* The kernel's cancel, retry and lease recovery do not tell Payment, so `Payments` has them as
  one action, `EffectMoves`. A buyer pays only what was handed over (`BuyerPays`), at any time. Abandoning and
  restarting a checkout, and payments of the old system, which cannot be refunded, are left out.
* `delivered` counts the server's Provider calls; a browser's JSSDK send is reported, not
  made, by the server.
* Prepay's recovery permission and other reasons for which a sink may refuse at run time
  are covered by `Abandon`.
* `Ingest` is `webhook.Service.Ingest` for this provider; decrypting a callback and the
  welcome grant that may be stored next to it are not modelled. The inbox's other provider,
  the message archive, is not modelled yet.
* The lifecycle's writes in other modules are recorded, not modelled.
* River's discarding of a job is modelled for the kernel's jobs, the reconciliation jobs and the
  rechecks, without counting the runs. It is not for the due check (24 attempts) and the
  continuation job of Group operations (12, `groupops/app/continuation.go:37`): `SplitIsBooked` and
  `HoldsEnd` assume that the due check is not discarded, and after `FollowerHasJob` a message whose
  continuation job was discarded would wait for ever.
* `messages` has one group, so that "the groups an event first named" differ only in the theorem.

## Plan

1. (done) the External Effects kernel, its contract, the sinks, and the delivery theorems;
2. (done) the webhook inbox with the external-contact callbacks, the follow ledger, and their
   theorems;
3. (done) Payment with the order it settles and the ledger it implements; coupons; service
   periods; commissions with profit sharing and the unfreeze;
4. (done) Group operations' runs and webhook events;
5. the sidebar's one-time send grants; the AI assistant's plan review over the kernel;
   the archive worker and the message archive's cursor; idempotency receipts and the outbox;
   identity merges, segment publication, contact synchronisation;
6. (done) proofs: every safety invariant, action property and refinement that a passing run
   checks;
7. proofs of what the new models of item 5 promise, as they are added.
