SPECIFICATION PurgeSpec
CONSTANTS
    Tenants = {t1}
    Sweepers = {s1}
    Sessions = {}
    HoldUntils = {}
    Reasons = {}
    NULL = NULL
    SuspensionGracePeriod = 1
    GraceToDeactivatedDuration = 1
    DeactivatedToPurgeDuration = 1
    CallSpan = 0
    BatchSize = 1
    MaxBatches = 1
    MaxTime = 2
    Requests = {r1, r2}
    Admins = {a1, a2}
    Desks = {d1, d2}
    Workers = {w1, w2}
    PurgeBatch = 1
SYMMETRY Symmetry
INVARIANTS TwoPersonControl DroppedIffExecuted DroppedAfterRetention
PROPERTY ClosedIsFinal
