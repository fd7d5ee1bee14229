SPECIFICATION Spec
CONSTANTS
    Claims = {k1, k2, k3}
    Customers = {c1, c2}
    Orders = {o1, o2}
    Gross = 2
    Limits = {1, 2, 3}
    ClaimEnds = 2
    Validity = 1
    MaxTime = 3
    None = None
SYMMETRY CouponSymmetry
CHECK_DEADLOCK FALSE
INVARIANTS
    TablesAgree
    NeverOversold
PROPERTIES
    SpentStaysSpent
