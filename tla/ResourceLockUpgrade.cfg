SPECIFICATION Spec
CONSTANTS
    a = a
    b = b
    c = c
    f = f
    Jobs <- TwoJobs
    Paths <- OnePath
    TTLs <- ShortLong
    MaxTime = 3
INVARIANTS
    GrantedAsAsked
CHECK_DEADLOCK TRUE
