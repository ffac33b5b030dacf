SPECIFICATION Spec
CONSTANTS
    a = a
    b = b
    c = c
    f = f
    Jobs <- ThreeJobs
    Paths <- OnePath
    TTLs <- ShortLong
    MaxTime = 3
INVARIANTS
    TypeOK
    MutualExclusion
PROPERTIES
    CleanupSparesActive
    LockedOnce
    ImplementsLockTable
CHECK_DEADLOCK TRUE
