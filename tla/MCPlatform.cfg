SPECIFICATION MCFairSpec
CONSTANTS
    MaxLogged = 5
    BufferSize = 2
    BatchSize = 2
    Requests = {r1, r2}
    Editors = {e1, e2}
    MaxEdits = 3
    cacheTTL = 2
    setTimeout = 1
    Phases = {p1, p2, p3}
    Unknown = u
    a = a
    b = b
    c = c
    Ids = {a, b, c}
    Section <- SmallSection
    Schemas = {s1, s2, s3}
    Pool = {w1, w2}
    Inbound = {q1, q2, q3}
    Limit = 2
    Window = 2
    MaxCount = 4
    Rpcs = {k1, k2}
    n1 = n1
    n2 = n2
    n3 = n3
    TenantIds = {i1, i2}
    Names = {n1, n2, n3}
    SlugOf <- SmallSlugs
    Callers = {d1, d2}
    SystemRoles = 2
    Newest <- SmallNewest
    NoTenant = none
INVARIANTS ClosedIsFlushed StaleIsBounded CyclesAreFound MergedAsDeclared ReportIsExact CountersExpire OnePerName
 
CHECK_DEADLOCK FALSE
