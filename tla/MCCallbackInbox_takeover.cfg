SPECIFICATION FairSpec
CONSTANTS
    d1 = d1  d2 = d2  d3 = d3  d4 = d4
    c1 = c1  c2 = c2  e1 = e1
    Deliveries = {d1, d2}
    Event <- GoodAndBad
    Contacts = {c1}
    Employees = {e1}
    Customers = {k1}
    Workers = {w1, w2}
    Keys = {a1, a2}
    MaxAttempts = 2
    Limit = 2
INVARIANTS
    TypeOK
    AppliedOnce
    StatusIsReceipted
    RetryGrantsOne
PROPERTIES
    CallbacksSettle
