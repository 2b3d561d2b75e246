\* Two replicas, no operator: every way the relays can share the rows.
CONSTANTS
    Tenants = {t1}
    Calls = {c1}
    Relays = {w1, w2}
    MaxEvents = 2
    MaxReplays = 0
    RelayBatchSize = 1
    MaxOutboxAttempts = 2
    HealthyTicks = 2
    NULL = NULL
SPECIFICATION OutboxFairSpec
INVARIANT EventNeverLost
PROPERTIES OutboxDelivers EventSettled
