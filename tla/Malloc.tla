------------------------------- MODULE Malloc -------------------------------
(***************************************************************************)
(* The user library's allocator: malloc(), free() and morecore() of        *)
(* umalloc.c, in a program that also calls sbrk() itself.                  *)
(*                                                                         *)
(* Addresses count in units of sizeof(Header).  The static header base     *)
(* lies below the heap, at 0.  A program has one thread, so a call is one  *)
(* step.                                                                   *)
(***************************************************************************)
EXTENDS Naturals, FiniteSetsExt

CONSTANTS
    HEADER,         \* sizeof(Header), in bytes
    WRAP,           \* where unsigned integers wrap (2^32); int ends at half of it
    NALLOC,         \* the least number of units morecore() asks for (4096)
    HEAPMAX,        \* the first address that sbrk() does not get
    Requests,       \* the arguments of malloc(), in bytes
    Gaps            \* how many units the program takes with sbrk()

ASSUME HeapAssumption ==
    /\ HEADER \in Nat \ {0} /\ NALLOC \in Nat \ {0} /\ HEAPMAX \in Nat \ {0}
    /\ WRAP \in Nat /\ 2 * HEAPMAX * HEADER <= WRAP
    /\ Requests \subseteq Nat \ {0} /\ Gaps \subseteq Nat \ {0}

base == 0
NULL == HEAPMAX     \* the null pointer: no address of the program
Addrs == 0..(HEAPMAX - 1)

VARIABLES
    ptr, size,      \* s.ptr and s.size of the header at an address
    freep,
    brk,            \* the end of the heap, p->sz
    live,           \* the blocks that malloc() returned and free() has not got
    mine            \* the units the program took with sbrk() itself

vars == <<ptr, size, freep, brk, live, mine>>

Init ==
    /\ ptr = [x \in Addrs |-> base] /\ size = [x \in Addrs |-> 0]
    /\ freep = NULL /\ brk = 1 /\ live = {} /\ mine = {}

\* The three variables that the functions pass on to one another.
Heap == [ptr |-> ptr, size |-> size, freep |-> freep]

\* The k-th header of the free list after freep, and the number of the first
\* one that is in S.
Nth(h, k) == LET nth[i \in Nat] == IF i = 0 THEN h.freep ELSE h.ptr[nth[i - 1]] IN nth[k]
FirstIn(h, S) == Nth(h, CHOOSE k \in 0..HEAPMAX :
                          Nth(h, k) \in S /\ \A i \in 0..(k - 1) : Nth(h, i) \notin S)
Listed(h) == {Nth(h, k) : k \in 0..HEAPMAX}

\* The call leaves h and the blocks L in use; what is no header of one of
\* these blocks is the program's data and is not kept.
SetHeap(h, L) ==
    /\ live' = L /\ freep' = h.freep
    /\ ptr' = [x \in Addrs |-> IF x \in Listed(h) THEN h.ptr[x] ELSE base]
    /\ size' = [x \in Addrs |-> IF x \in Listed(h) \cup L THEN h.size[x] ELSE 0]

-----------------------------------------------------------------------------

\* Where the loop of free() stops: bp lies behind p, or p is the last block.
Precedes(h, p, bp) ==
    \/ bp > p /\ bp < h.ptr[p]
    \/ p >= h.ptr[p] /\ (bp > p \/ bp < h.ptr[p])

\* bp joined to the next block, or linked to it.
JoinedUp(h, p, bp) ==
    IF bp + h.size[bp] = h.ptr[p]
    THEN [h EXCEPT !.size[bp] = @ + h.size[h.ptr[p]], !.ptr[bp] = h.ptr[h.ptr[p]]]
    ELSE [h EXCEPT !.ptr[bp] = h.ptr[p]]

\* p joined to bp, or linked to it.
JoinedDown(h, p, bp) ==
    IF p + h.size[p] = bp
    THEN [h EXCEPT !.size[p] = @ + h.size[bp], !.ptr[p] = h.ptr[bp]]
    ELSE [h EXCEPT !.ptr[p] = bp]

\* Mutant: a freed block is joined to the one below but not to the one above.
FreedNoJoinUp(h, bp) ==
    LET p == FirstIn(h, {x \in Addrs : Precedes(h, x, bp)})
    IN  [JoinedDown([h EXCEPT !.ptr[bp] = h.ptr[p]], p, bp) EXCEPT !.freep = p]

\* free()
Freed(h, bp) ==
    LET p == FirstIn(h, {x \in Addrs : Precedes(h, x, bp)})
    IN  [JoinedDown(JoinedUp(h, p, bp), p, bp) EXCEPT !.freep = p]

Free(bp) ==
    /\ bp \in live
    /\ SetHeap(Freed(Heap, bp), live \ {bp})
    /\ UNCHANGED <<brk, mine>>

-----------------------------------------------------------------------------

\* The units of a request: the sum is unsigned, so that the largest requests
\* get a header only.
Units(nbytes) == ((nbytes + HEADER - 1) % WRAP) \div HEADER + 1
CoreUnits(nu) == Max({nu, NALLOC})

\* What morecore() asks sbrk() for is a positive int.  (Of a request that is too
\* large for this, and too small to wrap in Units, sbrk() takes memory away.)
ASSUME RequestAssumption ==
    \A n \in Requests : n < WRAP /\ 2 * CoreUnits(Units(n)) * HEADER < WRAP

\* The list of one empty block that malloc() starts with.
Started(h) == IF h.freep = NULL THEN [h EXCEPT !.ptr[base] = base, !.size[base] = 0, !.freep = base]
              ELSE h

\* The free blocks that are large enough, and the header before one.
Fits(h, nu) == {x \in Listed(h) : h.size[x] >= nu}
Before(h, x) == CHOOSE y \in Listed(h) : h.ptr[y] = x

\* The first fit from freep's successor on.
Found(h, nu) ==
    LET second == [h EXCEPT !.freep = h.ptr[h.freep]] IN FirstIn(second, Fits(h, nu))

\* What is cut from the block p: all of it, or its tail.
CutAt(h, p, nu) == p + h.size[p] - nu
Cut(h, p, nu) ==
    IF h.size[p] = nu
    THEN [h EXCEPT !.ptr[Before(h, p)] = h.ptr[p], !.freep = Before(h, p)]
    ELSE [h EXCEPT !.size[p] = @ - nu, !.size[CutAt(h, p, nu)] = nu, !.freep = Before(h, p)]

\* malloc() from the free list.
MallocFound(nbytes) ==
    LET h == Started(Heap)
        nu == Units(nbytes)
        p == Found(h, nu)
    IN  /\ Fits(h, nu) # {}
        /\ SetHeap(Cut(h, p, nu), live \cup {CutAt(h, p, nu)})
        /\ UNCHANGED <<brk, mine>>

\* morecore(): sbrk(), and free() of what it returns.
MoreCore(h, nu) == Freed([h EXCEPT !.size[brk] = CoreUnits(nu)], brk)

MallocMore(nbytes) ==
    LET nu == Units(nbytes)
        h == MoreCore(Started(Heap), nu)
        p == Found(h, nu)
    IN  /\ Fits(Started(Heap), nu) = {} /\ brk + CoreUnits(nu) <= HEAPMAX
        /\ SetHeap(Cut(h, p, nu), live \cup {CutAt(h, p, nu)})
        /\ brk' = brk + CoreUnits(nu)
        /\ UNCHANGED mine

\* sbrk() fails: malloc() returns 0 and changes no block.
MallocFails(nbytes) ==
    /\ Fits(Started(Heap), Units(nbytes)) = {} /\ brk + CoreUnits(Units(nbytes)) > HEAPMAX
    /\ SetHeap(Started(Heap), live)
    /\ UNCHANGED <<brk, mine>>

\* The program moves the break itself.
Sbrk(k) ==
    /\ brk + k <= HEAPMAX
    /\ mine' = mine \cup (brk..(brk + k - 1)) /\ brk' = brk + k
    /\ UNCHANGED <<ptr, size, freep, live>>

Next ==
    \/ \E n \in Requests : MallocFound(n) \/ MallocMore(n) \/ MallocFails(n)
    \/ \E bp \in live : Free(bp)
    \/ \E k \in Gaps : Sbrk(k)

Spec == Init /\ [][Next]_vars

-----------------------------------------------------------------------------

\* The units of the block at x, and the free blocks.
Extent(x) == x..(x + size[x] - 1)
FreeBlocks == IF freep = NULL THEN {} ELSE Listed(Heap) \ {base}

\* Whatever the order of malloc(), free() and sbrk(): the free list goes round
\* all free blocks in the order of their addresses and back to base, no two of
\* them touch, and the free blocks, the blocks in use and the program's own
\* units are disjoint and make up the heap.
HeapPartitioned ==
    LET blocks == FreeBlocks \cup live IN
    /\ freep # NULL => \A x \in Listed(Heap) :
         ptr[x] = base \/ (ptr[x] > x + size[x] /\ ~\E y \in Listed(Heap) : x < y /\ y < ptr[x])
    /\ FreeBlocks \cap live = {}
    /\ \A x, y \in blocks : x # y => Extent(x) \cap Extent(y) = {}
    /\ \A x \in blocks : size[x] > 0 /\ Extent(x) \cap mine = {}
    /\ UNION {Extent(x) : x \in blocks} \cup mine = 1..(brk - 1)

=============================================================================
