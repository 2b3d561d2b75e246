SPECIFICATION RetentionSpec
CONSTANTS
    Tenants = {t1}
    Sweepers = {w1, w2}
    Sessions = {s1, s2}
    HoldUntils = {3}
    Reasons = {"litigation"}
    NULL = NULL
    SuspensionGracePeriod = 2
    GraceToDeactivatedDuration = 3
    DeactivatedToPurgeDuration = 2
    CallSpan = 1
    BatchSize = 1
    MaxBatches = 2
    MaxTime = 5
SYMMETRY Symmetry
INVARIANTS RetentionElapsed BillingNeverRegresses
 
