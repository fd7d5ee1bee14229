SPECIFICATION FairSpec
CONSTANTS
    Refunds = {}
    Amount = 2
    Second = 2
    MaxTime = 6
    MaxQueries = 2
    LateCalls = TRUE
CHECK_DEADLOCK FALSE
PROPERTIES
    TradeIsBooked
