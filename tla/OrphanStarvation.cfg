\* The same with a limit that the rows already cleaned use up.
SPECIFICATION SweepFairSpec
CONSTANTS
    j1 = j1
    w1 = w1
    d1 = d1
    s1 = s1
    s2 = s2
    none = none
    sha1 = sha1
    output = output
    Jobs = {j1}
    Workers = {w1}
    Deployments = {d1}
    JobDeployment <- MCJobDeployment
    WorkerDeployment <- MCWorkerDeployment
    LeaseSeconds = 1
    RetryDelay = 1
    MaxAttempts = 2
    ReapLimit = 1
    CancelBound = 0
    Kinds = {output}
    RequiredKinds <- MCRequiredKinds
    Digests = {sha1}
    NoDigest = none
    Grace = 1
    Sweepers = {s1}
    SweepLimit = 1
    CrashBound = 0
CHECK_DEADLOCK FALSE
PROPERTIES
    LaterOrphansReached
