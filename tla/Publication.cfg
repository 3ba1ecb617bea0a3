\* Safety of the ledger for arbitrary callers: one job that needs two artifact
\* kinds, one worker row, two attempts.
SPECIFICATION LedgerSpec
CONSTANTS
    j1 = j1
    j2 = j2
    w1 = w1
    w2 = w2
    d1 = d1
    none = none
    sha1 = sha1
    sha2 = sha2
    output = output
    manifest = manifest
    Jobs = {j1}
    Workers = {w1}
    Deployments = {d1}
    JobDeployment <- MCJobDeployment
    WorkerDeployment <- MCWorkerDeployment
    LeaseSeconds = 1
    RetryDelay = 1
    MaxAttempts = 2
    ReapLimit = 1
    CancelBound = 1
    Kinds = {output, manifest}
    RequiredKinds <- MCRequiredKinds
    Digests = {sha1}
    NoDigest = none
    Grace = 1
SYMMETRY MCSymmetry
CHECK_DEADLOCK FALSE
INVARIANTS
    WinnerComplete
    OnlyWinnerExposed
    CondemnedIsStale
    OpenRowHasEvidence
PROPERTIES
    VisibleForEver
