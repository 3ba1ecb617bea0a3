\* One rewrite of the input; no file operation fails and the process lives on.
SPECIFICATION CacheSpec
CONSTANTS
    s1 = s1
    s2 = s2
    video = video
    text = text
    Sessions = {s1, s2}
    Roles = {video}
    Contents <- MCContents
    MaxEntries = 1
    MaxRecords = 1
    FaultBound = 0
    EraBound = 1
    BootBound = 0
    CallBound = 2
SYMMETRY MCSymmetry
INVARIANTS
    DriftCommitsNothing
