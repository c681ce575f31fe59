SPECIFICATION Spec
CONSTANTS
    Procs = {1, 2, 3}
    NFRAMES = 18
    PGSIZE = 2
    NPTENTRIES = 2
    KERNBASE = 16
    KTABLES = 1
    WRAP = 32
    Deltas <- MCDeltas
    Segments <- MCSegments
    MaxSegments = 2
    ArgSizes = {1, 3}
INVARIANTS PagesConserved ImageMatchesSize StackGuarded
