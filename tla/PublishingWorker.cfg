\* Two worker processes compete for one job, with a retry, and may crash in
\* every attempt.
SPECIFICATION WorkFairSpec
CONSTANTS
    j1 = j1
    w1 = w1
    w2 = w2
    d1 = d1
    none = none
    sha1 = sha1
    sha2 = sha2
    Output = Output
    Jobs = {j1}
    Workers = {w1, w2}
    Deployments = {d1}
    JobDeployment <- MCJobDeployment
    WorkerDeployment <- MCWorkerDeployment
    LeaseSeconds = 1
    RetryDelay = 1
    MaxAttempts = 2
    ReapLimit = 1
    CancelBound = 1
    Kinds = {Output}
    RequiredKinds <- MCRequiredKinds
    Results <- MCResults
    Digests = {sha1, sha2}
    NoDigest = none
    Grace = 1
CHECK_DEADLOCK FALSE
INVARIANTS
    WinnerIsOwnOutput
    ReleasedOnExit
PROPERTIES
    JobEnds
