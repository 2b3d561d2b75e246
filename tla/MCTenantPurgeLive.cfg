SPECIFICATION PurgeFairSpec
CONSTANTS
    Tenants = {t1}
    Sweepers = {s1}
    Sessions = {}
    HoldUntils = {}
    Reasons = {}
    NULL = NULL
    SuspensionGracePeriod = 1
    GraceToDeactivatedDuration = 1
    DeactivatedToPurgeDuration = 0
    CallSpan = 0
    BatchSize = 1
    MaxBatches = 1
    MaxTime = 1
    Requests = {r1, r2}
    Admins = {a1, a2}
    Desks = {d1}
    Workers = {w1}
    PurgeBatch = 1
PROPERTIES ApprovedIsSettled DueIsAdvanced
