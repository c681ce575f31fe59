SPECIFICATION FairSpec
CONSTANTS
    CPUs = {0, 1}
    Procs = {0, 1}
    Locks = {"cons"}
    INPUT_BUF = 2
    WRAP = 4
    Keys = {"a", "cr", "eof", "nul", "erase", "kill", "dump"}
    MaxKeys = 1
    Sizes = {2}
INVARIANT LocksMaskInterrupts
PROPERTIES ImplementsTerminal ReaderServed
