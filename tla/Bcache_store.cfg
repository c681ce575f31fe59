SPECIFICATION FairSpec
CONSTANTS
    Procs = {p1, p2}
    p1 = p1
    p2 = p2
    Blocks = {1, 2, 3, 4}
    Modified = {1, 2}
    Data = {0, 1}
    NBUF = 2
    MaxHeld = 2
    MaxPinned = 1
    Drivers = {"ide", "memide"}
    ReadErrors = FALSE
INVARIANT NoBufferLost
PROPERTIES ImplementsStore RequestServed
