SPECIFICATION SessionsSpec
CONSTANTS
    Users = {ann}
    Tenant = acme
    Tokens = {t1}
    Calls = {c1}
    RefreshTTL = 2
    CallSpan = 1
    MaxDeliver = 2
    MaxGeneration <- SmallGenerations
    MaxGrants = 1
    NULL = NULL
INVARIANT AckedIsRevoked
CHECK_DEADLOCK FALSE
