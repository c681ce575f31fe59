SPECIFICATION Spec
CONSTANTS
    HEADER = 8
    WRAP = 256
    NALLOC = 4
    HEAPMAX = 11
    Requests = {1, 9, 40, 250}
    Gaps = {2}
INVARIANTS HeapPartitioned
