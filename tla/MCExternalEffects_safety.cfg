SPECIFICATION Spec
CONSTANTS
    Effects = {e1}
    Keys = {k1, k2}
    Profiles <- OwnerProfiles
    MaxGeneration = 3
    AutoRetryLimit = 3
    PausesPastLease = TRUE
SYMMETRY KeySymmetry
CHECK_DEADLOCK FALSE
INVARIANTS
    TypeOK
    AtMostOnceDelivery
    NotDoneMeansUndelivered
    SingleFlight
    UnknownIsReconcilable
    GenerationsAreAuthorised
    OwnerAgrees
PROPERTIES
    AmbiguityIsFinal
    ImplementsContract
