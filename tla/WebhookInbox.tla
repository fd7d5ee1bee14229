---------------------------- MODULE WebhookInbox ----------------------------
(***************************************************************************)
(* Rows of webhook_inbox and what the statements of                        *)
(* internal/platform/webhook do to one of them.  Instants are abstracted   *)
(* to what the statements compare them with: `lease' says whether          *)
(* lease_expires_at is absent, ahead or behind, `due' whether              *)
(* next_attempt_at has been reached.                                       *)
(***************************************************************************)
EXTENDS Integers

Statuses == {"received", "processing", "retryable", "processed", "failed"}

Leases == {"none", "active", "expired"}

Rows ==
    [status : Statuses \cup {"absent"}, attempts : Nat, max : Nat,
     lease : Leases, due : BOOLEAN]

(* A callback that the Provider has not delivered yet has no row.          *)
NoRow ==
    [status |-> "absent", attempts |-> 0, max |-> 0, lease |-> "none", due |-> FALSE]

(* Ingest and PutIfAbsent: a first delivery; a repetition returns the row  *)
(* as it stands.                                                           *)
ReceivedRow(max) ==
    [status |-> "received", attempts |-> 0, max |-> max, lease |-> "none", due |-> TRUE]

ClaimableWhenFree(row) ==
    row.status \in {"received", "retryable"} /\ row.attempts < row.max /\ row.due

(* The candidates of Claim.                                                *)
Claimable(row) ==
    /\ \/ row.status \in {"received", "retryable"}
       \/ row.status = "processing" /\ row.lease = "expired"
    /\ row.attempts < row.max
    /\ row.due

ClaimedAgain(row) ==
    [row EXCEPT !.status = "processing", !.lease = "active",
                !.attempts = IF row.status = "received" THEN 1 ELSE @]

(* What a claim sets: a takeover or a retry is an attempt of its own.      *)
ClaimedRow(row) ==
    [row EXCEPT !.status = "processing", !.attempts = @ + 1, !.lease = "active"]

OwnsProcessing(row, attempt) == row.status = "processing"

(* The compare-and-set of Complete.                                        *)
OwnsRow(row, attempt) ==
    row.status = "processing" /\ row.attempts = attempt

(* Only a retryable completion carries a next_attempt_at.                  *)
CompletedRow(row, status) ==
    [row EXCEPT !.status = status, !.lease = "none", !.due = @ /\ status # "retryable"]

RetriedTwiceRow(row) ==
    [row EXCEPT !.status = "retryable", !.max = row.attempts + 2,
                !.lease = "none", !.due = TRUE]

(* The compare-and-set of Retry and what it sets.                          *)
RetryMatches(row, attempt, status) ==
    row.status = status /\ row.attempts = attempt

RetriedRow(row) ==
    [row EXCEPT !.status = "retryable",
                !.max = IF @ > row.attempts THEN @ ELSE row.attempts + 1,
                !.lease = "none", !.due = TRUE]
=============================================================================
