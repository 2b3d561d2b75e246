SPECIFICATION SagaSpec
CONSTANTS
    Workers = {w1, w2}
    Seeders = 1
    Couriers = 1
    MaxSagas = 2
    MaxTenants = 2
    MaxMishaps = 2
    NULL = NULL
CONSTRAINT FewMishaps
SYMMETRY WorkerSymmetry
INVARIANTS CompletedIsProvisioned CompensatedLeavesNothing 
CHECK_DEADLOCK FALSE
