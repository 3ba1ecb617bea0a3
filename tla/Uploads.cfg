\* Two concurrent handlers and recovery runs of limit 1 on a session, next to one
\* that has expired; any of them may die.
SPECIFICATION UploadFairSpec
CONSTANTS
    s1 = s1
    s2 = s2
    h1 = h1
    h2 = h2
    c1 = c1
    good = good
    bad = bad
    none = none
    Sessions = {s1, s2}
    Past = {s2}
    Handlers = {h1, h2}
    Cleaners = {c1}
    Contents = {good, bad}
    NoContent = none
    SizeOf <- MCSizeOf
    ExpectedSize <- MCExpectedSize
    ExpectedSha <- MCExpectedSha
    Playable = {good, bad}
    MaxUploadBytes = 1
    SessionTtl = 1
    CleanLimit = 1
    CallBound = 2
CHECK_DEADLOCK FALSE
INVARIANTS
    VerifiedHasBytes
    VerifiedIsDeclared
    NeededStagingPresent
PROPERTIES
    EndedIsFinal
    SessionsEnd
    CleanupNotStarved
    EndedStagingDeleted
