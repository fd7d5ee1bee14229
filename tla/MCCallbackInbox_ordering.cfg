SPECIFICATION Spec
CONSTANTS
    d1 = d1  d2 = d2  d3 = d3  d4 = d4
    c1 = c1  c2 = c2  e1 = e1
    Deliveries = {d1, d2, d3, d4}
    Event <- FollowAndLeave
    Contacts = {c1, c2}
    Employees = {e1}
    Customers = {k1, k2}
    Workers = {w1}
    Keys = {}
    MaxAttempts = 1
    Limit = 1
SYMMETRY CustomerSymmetry
INVARIANTS
    RelationshipIsLatest
PROPERTIES
    NoGhosts
    ImplementsLedger
