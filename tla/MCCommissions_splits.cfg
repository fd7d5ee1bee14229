SPECIFICATION Spec
CONSTANTS
    Refunds = {r1, r2}
    Purchases = {q1}
    Paid = 10
    Share = 5
    Rate = 3000
    Due = 0
    Deadline = 1
    MaxTime = 1
CHECK_DEADLOCK FALSE
SYMMETRY CommissionSymmetry
CONSTRAINT ShortBacklog
INVARIANTS
    CommissionIsTrue
    CancelledForCause
    FundsCoverSplit
