---------------------------- MODULE FollowLedger ----------------------------
(***************************************************************************)
(* What the processing of WeCom's external-contact callbacks promises: a   *)
(* callback is settled at most once and for ever, and whatever the order   *)
(* in which they are settled, what is known of a contact and an employee   *)
(* is what the latest settled callback about the two says, a deletion      *)
(* winning against an activation of the same second.                       *)
(***************************************************************************)
EXTENDS Integers

CONSTANTS Deliveries,   \* callbacks the Provider may deliver
          Pairs,        \* a contact and an employee
          Lifecycle,    \* the callbacks that report a change between the two
          PairOf,       \* [Deliveries -> Pairs]
          FactOf        \* [Deliveries -> [at : Nat \ {0}, active : BOOLEAN]]

VARIABLES settled,      \* callbacks whose business result is committed
          following     \* what is known of each pair

ledger == <<settled, following>>

(* Nothing is known yet: earlier than every callback.                      *)
Nothing == [at |-> 0, active |-> FALSE]

(* A later second wins; within a second a deletion wins.                   *)
Beats(e, f) ==
    \/ e.at > f.at
    \/ e.at = f.at /\ ~e.active /\ f.active

About(S, p) == {d \in S \cap Lifecycle : PairOf[d] = p}

Latest(S, v) ==
    /\ IF S = {} THEN v = Nothing ELSE \E d \in S : v = FactOf[d]
    /\ \A d \in S : ~Beats(FactOf[d], v)

LedgerInit ==
    /\ settled = {}
    /\ following = [p \in Pairs |-> Nothing]

Settle(d) ==
    /\ d \notin settled
    /\ settled' = settled \cup {d}
    /\ \E v \in {FactOf[e] : e \in Deliveries} \cup {Nothing} :
          /\ Latest(About(settled', PairOf[d]), v)
          /\ following' = [following EXCEPT ![PairOf[d]] = v]

LedgerNext == \E d \in Deliveries : Settle(d)

LedgerSpec == LedgerInit /\ [][LedgerNext]_ledger
=============================================================================
