\* A sweep of limit 1 that is repeated for ever and may die once, next to the
\* publishers of two attempts.
SPECIFICATION SweepFairSpec
CONSTANTS
    j1 = j1
    w1 = w1
    d1 = d1
    s1 = s1
    s2 = s2
    none = none
    sha1 = sha1
    output = output
    Jobs = {j1}
    Workers = {w1}
    Deployments = {d1}
    JobDeployment <- MCJobDeployment
    WorkerDeployment <- MCWorkerDeployment
    LeaseSeconds = 2
    RetryDelay = 1
    MaxAttempts = 2
    ReapLimit = 1
    CancelBound = 1
    Kinds = {output}
    RequiredKinds <- MCRequiredKinds
    Digests = {sha1}
    NoDigest = none
    Grace = 1
    Sweepers = {s1}
    SweepLimit = 1
    CrashBound = 1
CHECK_DEADLOCK FALSE
INVARIANTS
    NeededObjectPresent
    EvidenceIsTrue
PROPERTIES
    OrphansAreSwept
    CancelTerminates
