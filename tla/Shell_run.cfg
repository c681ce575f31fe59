SPECIFICATION FairSpec
CONSTANTS
    Lines <- MCLines
    BusyLines <- MCBusyLines
    NPROCS = 5
    NOFILE = 5
    MAXARGS = 3
INVARIANTS ParsesGrammar ProgramsConnected
PROPERTY WaitEnds
CHECK_DEADLOCK FALSE
