SPECIFICATION FairSpec
CONSTANTS
    Effects = {e1}
    Keys = {k1, k2}
    Profiles <- OwnerProfiles
    MaxGeneration = 2
    AutoRetryLimit = 3
    PausesPastLease = FALSE
CHECK_DEADLOCK FALSE
PROPERTIES
    EvidenceIsStable
    EffectsSettle
