CONSTANTS
    NPROC = 3
    NCPU = 1
    MAXPID = 3
    Sent = {9}
    Targets = {2}
    InitFails = FALSE
SPECIFICATION FairSpec
PROPERTIES OrphanReaped RunnableRuns KilledExits
