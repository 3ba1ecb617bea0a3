\* One client whose submission is answered late or not at all, and an operator
\* who retires the deployment in between.
SPECIFICATION RemoteSpec
CONSTANTS
    c1 = c1
    c2 = c2
    n1 = n1
    n2 = n2
    r1 = r1
    r2 = r2
    w1 = w1
    w2 = w2
    Clients = {c1}
    Namespaces = {n1}
    Requests = {r1}
    Writers = {w1}
    MaxAttempts = 1
    PageLimit = 1
    PollBound = 2
    EventBound = 5
    LossBound = 1
    RestartBound = 1
INVARIANT RetryIsAnswered
CHECK_DEADLOCK FALSE
