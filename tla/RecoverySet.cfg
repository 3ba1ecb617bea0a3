\* A system that is migrated from nothing or from a legacy ledger, backed up and
\* restored, with two crashes or power failures, one damaged file and one switch of a service.
SPECIFICATION RecoverySpec
CONSTANTS
    Databases = {"home", "spare"}
    Home = "home"
    Spare = "spare"
    Packaged <- MCPackaged
    Releases <- MCReleases
    Blobs = {"b1"}
    CrashBound = 2
    DamageBound = 1
    SwitchBound = 1
INVARIANTS
    LedgerIsHistory
PROPERTIES
    SuccessIsReal
    RetriesFinish
CHECK_DEADLOCK FALSE
