SPECIFICATION FairSpec
CONSTANTS
    Refunds = {r1}
    Purchases = {q1}
    Paid = 10
    Share = 5
    Rate = 3000
    Due = 0
    Deadline = 1
    MaxTime = 0
CHECK_DEADLOCK FALSE
PROPERTIES
    SplitIsBooked
    HoldsEnd
