--------------------------- MODULE MCCallbackInbox ---------------------------
(***************************************************************************)
(* Instances of CallbackInbox for TLC: the callbacks WeCom delivers.       *)
(***************************************************************************)
EXTENDS CallbackInbox, TLC

CONSTANTS d1, d2, d3, d4, c1, c2, e1

Report(kind, contact, at) ==
    [kind |-> kind, contact |-> contact, employee |-> e1, at |-> at]

\* One contact added, deleted and added again within the second of the deletion,
\* and a second contact that may turn out to be the same customer.
FollowAndLeave ==
    (d1 :> Report("add", c1, 1)) @@ (d2 :> Report("delete", c1, 2))
        @@ (d3 :> Report("half", c1, 2)) @@ (d4 :> Report("edit", c2, 1))

\* An add, and a payload that no attempt can decode.
GoodAndBad == (d1 :> Report("add", c1, 1)) @@ (d2 :> Report("invalid", c1, 1))

\* A single add.
OneAdd == (d1 :> Report("add", c1, 1))

\* Added, and deleted within the same second.
SameSecond == (d1 :> Report("add", c1, 1)) @@ (d2 :> Report("delete", c1, 1))

\* No definition tells customers apart.
CustomerSymmetry == Permutations(Customers)
=============================================================================
