SPECIFICATION FairSpec
CONSTANTS
    Procs = {p1, p2, p3}
    p1 = p1
    p2 = p2
    p3 = p3
    Readers = {p1, p2}
    Writers = {p2, p3}
    Bytes = {0, 1}
    PIPESIZE = 2
    WRAP = 4
    Sizes = {3}
INVARIANTS SleepersHaveReason FreedUnused
PROPERTIES ImplementsFifo ReadReturns
CHECK_DEADLOCK FALSE
