\* Three threads and two owners; no symmetry because of the liveness property.
SPECIFICATION EmbeddedFairSpec
CONSTANTS
    t1 = t1
    t2 = t2
    t3 = t3
    Threads = {t1, t2, t3}
    OwnerBound = 2
    CallBound = 3
    FaultBound = 1
    StuckBound = 1
INVARIANTS
    LeasedIsLoaded
    ChildOfItsInvocation
    OneOwner
PROPERTIES
    CallsReturn
CHECK_DEADLOCK FALSE
