CONSTANTS
    Starts = {s1, s2}
    Events = {}
    Requests = {q1}
    Groups = {g1}
    NodeCount = 2
    MaxRevision = 2
SYMMETRY Symmetry
SPECIFICATION Spec
INVARIANT
    MessageSentOnce
CHECK_DEADLOCK FALSE
