SPECIFICATION Spec
CONSTANTS
    Refunds = {r1, r2}
    Amount = 2
    Second = 1
    MaxTime = 1
    MaxQueries = 1
    LateCalls = TRUE
SYMMETRY RefundSymmetry
CHECK_DEADLOCK FALSE
INVARIANTS
    BooksAreTrue
    NeverOvercommitted
    
PROPERTIES
    SettledIsFinal
    ImplementsLedger
