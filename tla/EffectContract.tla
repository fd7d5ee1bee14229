----------------------------- MODULE EffectContract -----------------------------
(***************************************************************************)
(* What the External Effects kernel promises the domains that use it       *)
(* (internal/externaleffects/port): an operation handed over once is        *)
(* performed at the Provider at most once; it is offered again, or waits to *)
(* be, only if it was not performed; and when nobody can tell, it waits for *)
(* a person.  A final failure is the adapter's word and not vouched for.    *)
(* No leases, fences, jobs or receipts.                                     *)
(***************************************************************************)
EXTENDS Naturals

CONSTANTS Effects,
          LateDelivery  \* may the Provider act after the outcome was given up?

VARIABLES phase,  \* [Effects -> Phases]
          done    \* [Effects -> Nat]: times the Provider performed the operation

Phases == {"absent", "open", "running", "succeeded", "failed", "closed",
           "ambiguous", "resolved", "withdrawn"}

Init ==
    /\ phase = [e \in Effects |-> "absent"]
    /\ done = [e \in Effects |-> 0]

Move(e, from, to) ==
    /\ phase[e] \in from
    /\ phase' = [phase EXCEPT ![e] = to]
    /\ UNCHANGED done

Submit(e)   == Move(e, {"absent"}, "open")
Start(e)    == Move(e, {"open"}, "running")
Withdraw(e) == Move(e, {"open"}, "withdrawn")
\* A browser-owned operation succeeds without ever running on a server.
Succeed(e)  == Move(e, {"open", "running"}, "succeeded")
\* Giving up is always allowed, and final but for a person's verdict.
Lose(e)     == Move(e, {"open", "running"}, "ambiguous")
Resolve(e)  == Move(e, {"ambiguous"}, "resolved")
\* Calling it finally failed needs nothing, and proves nothing.
Close(e)    == Move(e, {"open", "running"}, "closed")
\* Offering the operation again, and failing it with that in view, need it undone.
Fail(e)     == done[e] = 0 /\ Move(e, {"running"}, "failed")
Reopen(e)   == done[e] = 0 /\ Move(e, {"running", "failed", "closed"}, "open")

\* The Provider performs the operation: once, while it runs.
Perform(e) ==
    /\ done[e] = 0
    /\ phase[e] \in {"running"}
            \cup IF LateDelivery THEN {"ambiguous", "resolved"} ELSE {}
    /\ done' = [done EXCEPT ![e] = 1]
    /\ UNCHANGED phase

Next ==
    \E e \in Effects :
        \/ Submit(e) \/ Start(e) \/ Withdraw(e) \/ Succeed(e) \/ Lose(e)
        \/ Resolve(e) \/ Close(e) \/ Fail(e) \/ Reopen(e) \/ Perform(e)

Spec == Init /\ [][Next]_<<phase, done>>
=============================================================================
