SPECIFICATION FairSpec
CONSTANTS
    Blocks = {1, 2}
    Procs = {p1, p2}
    p1 = p1
    p2 = p2
    LOGSIZE = 8
    MAXOPBLOCKS = 4
    OPWRITES = 2
    NLOG = 8
    MaxOps = 4
    MaxCrashes = 2
INVARIANT SpaceReserved
PROPERTIES ImplementsTransactions CallAdmitted
CHECK_DEADLOCK FALSE
