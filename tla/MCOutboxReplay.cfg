\* One replica, overlapping calls and an operator who re-arms parked events.
CONSTANTS
    Tenants = {t1, t2}
    Calls = {c1, c2}
    Relays = {w1}
    MaxEvents = 2
    MaxReplays = 2
    RelayBatchSize = 2
    MaxOutboxAttempts = 2
    HealthyTicks = 2
    NULL = NULL
SPECIFICATION OutboxSpec
INVARIANT OutboxOrDead
PROPERTY SuspensionSticks
SYMMETRY CallSymmetry
