\* Two replicas and a replay between the two statements of MoveOutboxToDead.
CONSTANTS
    Tenants = {t1}
    Calls = {c1}
    Relays = {w1, w2}
    MaxEvents = 2
    MaxReplays = 1
    RelayBatchSize = 2
    MaxOutboxAttempts = 2
    HealthyTicks = 2
    NULL = NULL
SPECIFICATION OutboxSpec
INVARIANT EventNeverLost
