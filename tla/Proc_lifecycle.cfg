CONSTANTS
    NPROC = 3
    NCPU = 2
    MAXPID = 3
    Sent = {17, 19}
    Targets = {2}
    InitFails = TRUE
SPECIFICATION Spec
INVARIANTS SlotsAccountedFor FamilyTree NoLostChildWakeup PidsUnique
PROPERTY CpusSound
CHECK_DEADLOCK FALSE
