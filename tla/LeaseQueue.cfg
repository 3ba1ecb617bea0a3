\* Safety of the queue: two jobs compete for two workers.
SPECIFICATION LQSpec
CONSTANTS
    j1 = j1
    j2 = j2
    w1 = w1
    w2 = w2
    d1 = d1
    Jobs = {j1, j2}
    Workers = {w1, w2}
    Deployments = {d1}
    JobDeployment <- MCJobDeployment
    WorkerDeployment <- MCWorkerDeployment
    LeaseSeconds = 2
    RetryDelay = 1
    MaxAttempts = 3
    ReapLimit = 2
    CancelBound = 2
SYMMETRY MCSymmetry
CHECK_DEADLOCK FALSE
INVARIANTS
    ExclusiveLease
    NoStrandedRow
    RetryBudget
    EpochFences
    CancelIsSticky
    AuditTrail
PROPERTIES
    StaleStaysStale
    ImplementsLifecycle
