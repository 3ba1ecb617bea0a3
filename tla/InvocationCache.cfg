\* Two sessions of one deployment, one rewrite of the input, one step in which
\* file operations fail, one invalidation and one restart.
SPECIFICATION CacheSpec
CONSTANTS
    s1 = s1
    s2 = s2
    video = video
    text = text
    Sessions = {s1, s2}
    Roles = {video}
    Contents <- MCContents
    MaxEntries = 1
    MaxRecords = 1
    FaultBound = 1
    EraBound = 1
    BootBound = 1
    CallBound = 2
SYMMETRY MCSymmetry
INVARIANTS
    InvalidatedIsGone
    CachedIsOfItsKey
