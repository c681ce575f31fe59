CONSTANTS
    p1 = p1
    p2 = p2
    Procs = {p1, p2}
    NINODES = 4
    NBLOCKS = 8
    NFILE = 2
    NOFILE = 2
    NDIRECT = 1
    MAXFILE = 2
    Requests <- SomeRequests
    MaxCalls = 4
SPECIFICATION Spec
INVARIANTS RefsCounted TreeSound CacheCoherent BlocksOwned NoPanic WaitsGoDown
PROPERTY FreedUnreachable
SYMMETRY Interchangeable
CHECK_DEADLOCK FALSE
