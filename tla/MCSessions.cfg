SPECIFICATION SessionsSpec
CONSTANTS
    Users = {ann}
    Tenant = acme
    Tokens = {t1}
    Calls = {c1, c2}
    RefreshTTL = 2
    CallSpan = 1
    MaxDeliver = 1
    MaxGeneration <- SmallGenerations
    MaxGrants = 1
    NULL = NULL
SYMMETRY SessionSymmetry
INVARIANTS  SupersededSessionsEnd
CHECK_DEADLOCK FALSE
