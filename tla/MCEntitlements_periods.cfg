SPECIFICATION Spec
CONSTANTS
    Orders = {o1, o2}
    Durations = {1, 3}
    MaxTime = 4
    MaxRefunds = 2
    MaxDelay = 1
SYMMETRY OrderSymmetry
CHECK_DEADLOCK FALSE
INVARIANTS
    PeriodsArePaidFor
    PaidIsCovered
    HistoryIsKept
PROPERTIES
    TakenBackOnce
