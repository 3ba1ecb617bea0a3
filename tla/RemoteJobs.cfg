\* Two clients of the same or of different namespaces, with equal or different
\* requests; two connections that move the jobs on.
SPECIFICATION RemoteSpec
CONSTANTS
    c1 = c1
    c2 = c2
    n1 = n1
    n2 = n2
    r1 = r1
    r2 = r2
    w1 = w1
    w2 = w2
    Clients = {c1, c2}
    Namespaces = {n1, n2}
    Requests = {r1, r2}
    Writers = {w1, w2}
    MaxAttempts = 1
    PageLimit = 1
    PollBound = 2
    EventBound = 6
    LossBound = 1
    RestartBound = 1
SYMMETRY MCSymmetry
INVARIANTS
    AcceptedIsMine
    EventsExactlyOnce
    DownloadIsMine
    CancelIsKept
CHECK_DEADLOCK FALSE
