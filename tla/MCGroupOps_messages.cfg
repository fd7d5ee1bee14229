CONSTANTS
    Starts = {s1}
    Events = {e1}
    Requests = {q1, q2}
    Groups = {g1}
    NodeCount = 3
    MaxRevision = 4
SYMMETRY Symmetry
SPECIFICATION Spec
INVARIANTS
    SentInOrder
    EventSentOnce
    FollowerHasJob
CHECK_DEADLOCK FALSE
