--------------------------------- MODULE Vm ---------------------------------
(***************************************************************************)
(* Physical pages and the address spaces made of them: kalloc.c, vm.c,     *)
(* exec.c, and the parts of proc.c that use them, fork(), growproc() and   *)
(* wait().                                                                 *)
(*                                                                         *)
(* Pages are taken one at a time and may run out at any of them, while     *)
(* other processes take and free pages: one action is one turn of the      *)
(* loops of setupkvm(), allocuvm() and copyuvm().  Freeing cannot fail, so *)
(* deallocuvm() and freevm() are single steps.  Physical pages are counted *)
(* and not told apart: a page that is lost or freed twice shows in the     *)
(* sum.                                                                    *)
(*                                                                         *)
(* Who calls wait() is the subject of module Proc; here somebody does.     *)
(***************************************************************************)
EXTENDS Integers, FiniteSetsExt

CONSTANTS
    Procs,          \* the slots of the process table, the first for init
    NFRAMES,        \* the physical pages that kinit1() and kinit2() free
    PGSIZE,         \* the size of a page
    NPTENTRIES,     \* the pages that one page table maps
    KERNBASE,       \* the end of user memory
    KTABLES,        \* the page tables of the kernel's mappings, kmap
    WRAP,           \* how many values an unsigned int has (2^32)
    Deltas,         \* the arguments of sbrk()
    Segments,       \* the program headers: [vaddr, memsz, filesz]
    MaxSegments,    \* bound: the headers of a program
    ArgSizes        \* the bytes that exec() puts on the new stack

ASSUME PagesAssumption ==
    /\ PGSIZE \in Nat \ {0} /\ NPTENTRIES \in Nat \ {0} /\ KTABLES \in Nat \ {0}
    /\ KERNBASE \in Nat \ {0} /\ KERNBASE % (PGSIZE * NPTENTRIES) = 0
    /\ WRAP \in Nat /\ WRAP >= 2 * KERNBASE
    /\ Deltas \subseteq Int /\ ArgSizes \subseteq Nat \ {0} /\ MaxSegments \in Nat
    /\ Segments \subseteq [vaddr : 0..WRAP - 1, memsz : 0..WRAP - 1, filesz : 0..WRAP - 1]
ASSUME SlotsAssumption ==
    /\ Procs \subseteq Nat /\ IsFiniteSet(Procs) /\ 1 \in Procs
    /\ NFRAMES \in Nat /\ NFRAMES >= KTABLES + 4

Pages == 0..(KERNBASE \div PGSIZE - 1)
PGROUNDUP(n) == (n + PGSIZE - 1) \div PGSIZE        \* as a number of pages
Below(n) == {v \in Pages : v < PGROUNDUP(n)}        \* the pages of size n

\* Page tables: the user's by PDX of the address, the kernel's after them.
PDX(v) == v \div NPTENTRIES
Ktabs == {KERNBASE \div (PGSIZE * NPTENTRIES) + i : i \in 0..(KTABLES - 1)}

VARIABLES
    nfree,      \* the length of kmem.freelist
    kstack,     \* the slots that have a kernel stack
    image,      \* image[p]: what p->pgdir maps, see NoImage
    sz,         \* p->sz
    stk,        \* stk[p]: the page of the user stack that exec() set up
    st,         \* where p is, see TypeOK
    call,       \* the call p makes: "none", "fork", "sbrk", "exec" while it loads
                \* the program and "stack" after that
    build,      \* build[p]: the page directory that fork() or exec() makes
    bsz,        \* the local sz of exec()
    a, top,     \* the loop of allocuvm() or copyuvm(): next page, new size
    seg, nseg,  \* exec(): the current header, and how many were read
    child,      \* fork(): np
    panicked

locals == <<bsz, a, top, seg, nseg, child>>
vars == <<nfree, kstack, image, sz, stk, st, call, build, bsz, a, top, seg, nseg, child,
          panicked>>

\* An address space: whether there is a page directory, its page tables, the
\* pages with PTE_P, and those of them without PTE_U.
NoImage == [dir |-> FALSE, tab |-> {}, pg |-> {}, sup |-> {}]
NoSegment == [vaddr |-> 0, memsz |-> 0, filesz |-> 0]
FramesOf(m) == (IF m.dir THEN 1 ELSE 0) + Cardinality(m.tab) + Cardinality(m.pg)

\* After kinit2() and userinit().
Init ==
    LET first == [dir |-> TRUE, tab |-> Ktabs \cup {0}, pg |-> {0}, sup |-> {}] IN
    /\ nfree = NFRAMES - 1 - FramesOf(first) /\ kstack = {1}
    /\ image = [p \in Procs |-> IF p = 1 THEN first ELSE NoImage]
    /\ sz = [p \in Procs |-> IF p = 1 THEN PGSIZE ELSE 0]
    /\ stk = [p \in Procs |-> 0]
    /\ st = [p \in Procs |-> IF p = 1 THEN "user" ELSE "unused"]
    /\ call = [p \in Procs |-> "none"] /\ build = [p \in Procs |-> NoImage]
    /\ bsz = [p \in Procs |-> 0] /\ a = [p \in Procs |-> 0] /\ top = [p \in Procs |-> 0]
    /\ seg = [p \in Procs |-> NoSegment] /\ nseg = [p \in Procs |-> 0]
    /\ child = [p \in Procs |-> 1] /\ panicked = FALSE

-----------------------------------------------------------------------------
(* vm.c on one address space. *)

\* mappages(): page v of m gets a physical page, and a page table if PDX(v)
\* has none.  Cost is what kalloc() must deliver for it.
Cost(m, v) == IF PDX(v) \in m.tab THEN 1 ELSE 2
Mapped(m, v, user) ==
    [m EXCEPT !.tab = @ \cup {PDX(v)}, !.pg = @ \cup {v},
              !.sup = IF user THEN @ ELSE @ \cup {v}]

\* deallocuvm(m, oldsz, newsz), where a page without a table is skipped.
Dropped(m, oldsz, newsz) ==
    {v \in m.pg : PDX(v) \in m.tab /\ v >= PGROUNDUP(newsz) /\ v * PGSIZE < oldsz}
Dealloc(m, oldsz, newsz) ==
    [m EXCEPT !.pg = @ \ Dropped(m, oldsz, newsz), !.sup = @ \ Dropped(m, oldsz, newsz)]

\* Mutant: freevm() frees the page tables of the user part only.
FreedUser(m) == (IF m.dir THEN 1 ELSE 0) + Cardinality(m.tab \ Ktabs)
                + Cardinality(Dropped(m, KERNBASE, 0))

\* freevm(): how many pages it frees.
Freed(m) == (IF m.dir THEN 1 ELSE 0) + Cardinality(m.tab)
            + Cardinality(Dropped(m, KERNBASE, 0))

-----------------------------------------------------------------------------
(* Calls. *)

\* Whether p can go on in user mode: its first instruction page and its stack
\* are mapped.  Otherwise it faults at once and trap() lets it exit.  Programs
\* are assumed to keep their stack where exec() put it: one that moves esp
\* elsewhere could go on without that page, and is not followed.
CanRun(p) == st[p] = "user" /\ {0, stk[p]} \subseteq image[p].pg

Goto(p, s) == st' = [st EXCEPT ![p] = s]

\* The call ends; the locals are dead.
Return(p) ==
    /\ call' = [call EXCEPT ![p] = "none"]
    /\ bsz' = [bsz EXCEPT ![p] = 0] /\ a' = [a EXCEPT ![p] = 0] /\ top' = [top EXCEPT ![p] = 0]
    /\ seg' = [seg EXCEPT ![p] = NoSegment] /\ nseg' = [nseg EXCEPT ![p] = 0]
    /\ child' = [child EXCEPT ![p] = 1]

\* fork() fails or exec() goes to bad: the directory it made is freed, and
\* what allocproc() took for the child.
GiveUp(p) ==
    /\ nfree' = nfree + Freed(build[p]) + (IF call[p] = "fork" THEN 1 ELSE 0)
    /\ build' = [build EXCEPT ![p] = NoImage]
    /\ kstack' = IF call[p] = "fork" THEN kstack \ {child[p]} ELSE kstack
    /\ st' = IF call[p] = "fork" THEN [st EXCEPT ![p] = "user", ![child[p]] = "unused"]
                                 ELSE [st EXCEPT ![p] = "user"]
    /\ Return(p)
    /\ UNCHANGED <<image, sz, stk, panicked>>

\* fork() up to the end of allocproc().
Fork(p, c) ==
    /\ CanRun(p) /\ st[c] = "unused" /\ nfree > 0
    /\ nfree' = nfree - 1 /\ kstack' = kstack \cup {c}
    /\ call' = [call EXCEPT ![p] = "fork"] /\ child' = [child EXCEPT ![p] = c]
    /\ st' = [st EXCEPT ![p] = "setup", ![c] = "embryo"]
    /\ UNCHANGED <<image, sz, stk, build, bsz, a, top, seg, nseg, panicked>>

\* exec() up to setupkvm(); if the file is missing or is not a program it
\* returns without a trace.
Exec(p) ==
    /\ CanRun(p)
    /\ call' = [call EXCEPT ![p] = "exec"] /\ Goto(p, "setup")
    /\ UNCHANGED <<nfree, kstack, image, sz, stk, build, locals, panicked>>

\* sys_sbrk() and growproc() with n > 0: allocuvm() refuses at KERNBASE.  The
\* program init does not call malloc().
SbrkGrow(p, n) ==
    /\ CanRun(p) /\ p # 1 /\ n > 0 /\ sz[p] + n < KERNBASE
    /\ call' = [call EXCEPT ![p] = "sbrk"] /\ Goto(p, "alloc")
    /\ a' = [a EXCEPT ![p] = PGROUNDUP(sz[p])] /\ top' = [top EXCEPT ![p] = sz[p] + n]
    /\ UNCHANGED <<nfree, kstack, image, sz, stk, build, bsz, seg, nseg, child, panicked>>

\* growproc() with n < 0.  Beyond 0 the new size wraps and deallocuvm() does
\* nothing; a new size of 0 is taken for a failure after the pages are freed.
SbrkShrink(p, n) ==
    LET newsz == (sz[p] + n) % WRAP IN
    /\ CanRun(p) /\ p # 1 /\ n < 0 /\ newsz < sz[p]
    /\ image' = [image EXCEPT ![p] = Dealloc(@, sz[p], newsz)]
    /\ nfree' = nfree + Cardinality(Dropped(image[p], sz[p], newsz))
    /\ sz' = [sz EXCEPT ![p] = IF newsz = 0 THEN @ ELSE newsz]
    /\ UNCHANGED <<kstack, stk, st, call, build, locals, panicked>>

\* exit(), by choice or after a fault; init must not.
Exit(p) ==
    /\ st[p] = "user" /\ p # 1
    /\ Goto(p, "zombie")
    /\ UNCHANGED <<nfree, kstack, image, sz, stk, call, build, locals, panicked>>

\* wait() finds the zombie c.
Reap(c) ==
    /\ st[c] = "zombie"
    /\ nfree' = nfree + 1 + Freed(image[c]) /\ kstack' = kstack \ {c}
    /\ image' = [image EXCEPT ![c] = NoImage] /\ sz' = [sz EXCEPT ![c] = 0]
    /\ stk' = [stk EXCEPT ![c] = 0] /\ Goto(c, "unused")
    /\ UNCHANGED <<call, build, locals, panicked>>

-----------------------------------------------------------------------------
(* setupkvm(), for fork() and exec(). *)

SetupMissing(p) == Ktabs \ build[p].tab
SetupNeedsPage(p) == st[p] = "setup" /\ (~build[p].dir \/ SetupMissing(p) # {})

\* The directory, then the page tables of kmap, one kalloc() each.
SetupNext(p) ==
    IF build[p].dir THEN [build[p] EXCEPT !.tab = @ \cup {Min(SetupMissing(p))}]
                    ELSE [build[p] EXCEPT !.dir = TRUE]

SetupPage(p) ==
    /\ SetupNeedsPage(p) /\ nfree > 0
    /\ nfree' = nfree - 1
    /\ build' = [build EXCEPT ![p] = SetupNext(p)]
    /\ UNCHANGED <<kstack, image, sz, stk, st, call, locals, panicked>>

SetupFails(p) == SetupNeedsPage(p) /\ nfree = 0 /\ GiveUp(p)

SetupDone(p) ==
    /\ st[p] = "setup" /\ ~SetupNeedsPage(p)
    /\ Goto(p, IF call[p] = "fork" THEN "copy" ELSE "header")
    /\ UNCHANGED <<nfree, kstack, image, sz, stk, call, build, locals, panicked>>

-----------------------------------------------------------------------------
(* allocuvm(), for growproc() on the process's own directory and for exec() *)
(* on the one it makes.                                                     *)

Grown(p) == IF call[p] = "sbrk" THEN image[p] ELSE build[p]
OldSize(p) == IF call[p] = "sbrk" THEN sz[p] ELSE bsz[p]
SetGrown(p, m) ==
    IF call[p] = "sbrk" THEN image' = [image EXCEPT ![p] = m] /\ UNCHANGED build
                        ELSE build' = [build EXCEPT ![p] = m] /\ UNCHANGED image

AllocNeedsPage(p) == st[p] = "alloc" /\ a[p] * PGSIZE < top[p]

\* kalloc() and mappages(), which panics if the page is mapped already.
AllocPage(p) ==
    /\ AllocNeedsPage(p) /\ nfree >= Cost(Grown(p), a[p])
    /\ panicked' = (a[p] \in Grown(p).pg)
    /\ nfree' = nfree - Cost(Grown(p), a[p])
    /\ SetGrown(p, Mapped(Grown(p), a[p], TRUE))
    /\ a' = [a EXCEPT ![p] = @ + 1]
    /\ UNCHANGED <<kstack, sz, stk, st, call, bsz, top, seg, nseg, child>>

\* Mutant: the pages mapped before the failure stay.
AllocUndoneNot(p) == Grown(p)

\* What the failing allocuvm() leaves: deallocuvm(pgdir, newsz, oldsz) keeps
\* the page tables.
AllocUndone(p) == Dealloc(Grown(p), top[p], OldSize(p))

\* No page, or none for the page table, in which case the page is freed.
AllocFailsSbrk(p) ==
    /\ AllocNeedsPage(p) /\ nfree < Cost(Grown(p), a[p]) /\ call[p] = "sbrk"
    /\ image' = [image EXCEPT ![p] = AllocUndone(p)]
    /\ nfree' = nfree + FramesOf(image[p]) - FramesOf(image'[p])
    /\ Goto(p, "user") /\ Return(p)
    /\ UNCHANGED <<kstack, sz, stk, build, panicked>>

AllocFailsExec(p) ==
    /\ AllocNeedsPage(p) /\ nfree < Cost(Grown(p), a[p]) /\ call[p] # "sbrk"
    /\ GiveUp(p)

\* growproc() stores the new size.
AllocDoneSbrk(p) ==
    /\ st[p] = "alloc" /\ ~AllocNeedsPage(p) /\ call[p] = "sbrk"
    /\ sz' = [sz EXCEPT ![p] = top[p]]
    /\ Goto(p, "user") /\ Return(p)
    /\ UNCHANGED <<nfree, kstack, image, stk, build, panicked>>

-----------------------------------------------------------------------------
(* copyuvm(), for fork(). *)

CopyNeedsPage(p) == st[p] = "copy" /\ a[p] * PGSIZE < sz[p]

\* Mutant: the child's guard page gets PTE_U.
CopiedUser(p, v) == TRUE

\* The PTE_U flag of the parent's page, which is copied.
CopiedFlag(p, v) == v \notin image[p].sup

\* A page of the parent that is not there is a panic.
CopyPage(p) ==
    /\ CopyNeedsPage(p) /\ nfree >= Cost(build[p], a[p])
    /\ panicked' = (a[p] \notin image[p].pg)
    /\ nfree' = nfree - Cost(build[p], a[p])
    /\ build' = [build EXCEPT ![p] = Mapped(@, a[p], CopiedFlag(p, a[p]))]
    /\ a' = [a EXCEPT ![p] = @ + 1]
    /\ UNCHANGED <<kstack, image, sz, stk, st, call, bsz, top, seg, nseg, child>>

CopyFails(p) == CopyNeedsPage(p) /\ nfree < Cost(build[p], a[p]) /\ GiveUp(p)

\* The rest of fork().
CopyDone(p) ==
    /\ st[p] = "copy" /\ ~CopyNeedsPage(p)
    /\ image' = [image EXCEPT ![child[p]] = build[p]]
    /\ build' = [build EXCEPT ![p] = NoImage]
    /\ sz' = [sz EXCEPT ![child[p]] = sz[p]] /\ stk' = [stk EXCEPT ![child[p]] = stk[p]]
    /\ st' = [st EXCEPT ![p] = "user", ![child[p]] = "user"]
    /\ Return(p)
    /\ UNCHANGED <<nfree, kstack, panicked>>

-----------------------------------------------------------------------------
(* exec() after setupkvm(). *)

\* The tests of a program header, and allocuvm()'s of the size it asks for.
BadSegment(s) == s.memsz < s.filesz \/ (s.vaddr + s.memsz) % WRAP < s.vaddr
SegmentEnd(s) == (s.vaddr + s.memsz) % WRAP
TooHigh(n) == n >= KERNBASE

\* Of a segment that ends below the size so far, nothing is allocated.
ExecSegment(p, s) ==
    /\ st[p] = "header" /\ nseg[p] < MaxSegments
    /\ ~BadSegment(s) /\ ~TooHigh(SegmentEnd(s))
    /\ seg' = [seg EXCEPT ![p] = s] /\ nseg' = [nseg EXCEPT ![p] = @ + 1]
    /\ a' = [a EXCEPT ![p] = PGROUNDUP(bsz[p])]
    /\ top' = [top EXCEPT ![p] = Max({bsz[p], SegmentEnd(s)})]
    /\ Goto(p, "alloc")
    /\ UNCHANGED <<nfree, kstack, image, sz, stk, call, build, bsz, child, panicked>>

\* A header that cannot be read or is no good.
ExecBadSegment(p) == st[p] = "header" /\ nseg[p] < MaxSegments /\ GiveUp(p)

\* Segment allocated: allocuvm()'s size 0 is a failure, and so is an address
\* that is not aligned.  loaduvm() panics for a page without a page table, and
\* a short read is a failure.
ExecLoad(p) ==
    /\ st[p] = "alloc" /\ ~AllocNeedsPage(p) /\ call[p] = "exec"
    /\ top[p] # 0 /\ seg[p].vaddr % PGSIZE = 0
    /\ panicked' = \E v \in Below(seg[p].vaddr + seg[p].filesz) :
                      v * PGSIZE >= seg[p].vaddr /\ PDX(v) \notin build[p].tab
    /\ bsz' = [bsz EXCEPT ![p] = top[p]] /\ Goto(p, "header")
    /\ a' = [a EXCEPT ![p] = 0] /\ top' = [top EXCEPT ![p] = 0]
    /\ seg' = [seg EXCEPT ![p] = NoSegment]
    /\ UNCHANGED <<nfree, kstack, image, sz, stk, call, build, nseg, child>>

ExecLoadFails(p) ==
    /\ st[p] = "alloc" /\ ~AllocNeedsPage(p) /\ call[p] = "exec"
    /\ GiveUp(p)

\* Two pages for the stack, from the next page boundary.
ExecStack(p) ==
    LET sz0 == PGROUNDUP(bsz[p]) * PGSIZE IN
    /\ st[p] = "header" /\ call[p] = "exec"
    /\ IF TooHigh(sz0 + 2 * PGSIZE)
       THEN GiveUp(p)
       ELSE /\ bsz' = [bsz EXCEPT ![p] = sz0]
            /\ a' = [a EXCEPT ![p] = PGROUNDUP(sz0)]
            /\ top' = [top EXCEPT ![p] = sz0 + 2 * PGSIZE]
            /\ call' = [call EXCEPT ![p] = "stack"] /\ Goto(p, "alloc")
            /\ UNCHANGED <<nfree, kstack, image, sz, stk, build, seg, nseg, child, panicked>>

\* clearpteu() of the lower one.
Guarded(p) == [build[p] EXCEPT !.sup = @ \cup {(top[p] - 2 * PGSIZE) \div PGSIZE}]

\* Whether copyout() can put n bytes at the top of the new stack.
ArgsFit(p, n) ==
    {v \in Pages : v >= (top[p] - n) \div PGSIZE /\ v * PGSIZE < top[p]}
      \subseteq Guarded(p).pg \ Guarded(p).sup

\* The arguments and the commit.  Arguments are assumed to be no larger than the
\* new image: with larger ones sp wraps below 0, where uva2ka() does not expect
\* a missing page table.
ExecCommit(p, n) ==
    /\ st[p] = "alloc" /\ ~AllocNeedsPage(p) /\ call[p] = "stack" /\ n <= top[p]
    /\ IF ~ArgsFit(p, n)
       THEN GiveUp(p)
       ELSE /\ image' = [image EXCEPT ![p] = Guarded(p)]
            /\ build' = [build EXCEPT ![p] = NoImage]
            /\ sz' = [sz EXCEPT ![p] = top[p]]
            /\ stk' = [stk EXCEPT ![p] = (top[p] - 1) \div PGSIZE]
            /\ nfree' = nfree + Freed(image[p])
            /\ Goto(p, "user") /\ Return(p)
            /\ UNCHANGED <<kstack, panicked>>

-----------------------------------------------------------------------------

Step(p) ==
    \/ SetupPage(p) \/ SetupFails(p) \/ SetupDone(p)
    \/ AllocPage(p) \/ AllocFailsSbrk(p) \/ AllocFailsExec(p) \/ AllocDoneSbrk(p)
    \/ CopyPage(p) \/ CopyFails(p) \/ CopyDone(p)
    \/ (\E s \in Segments : ExecSegment(p, s)) \/ ExecBadSegment(p)
    \/ ExecLoad(p) \/ ExecLoadFails(p) \/ ExecStack(p)
    \/ \E n \in ArgSizes : ExecCommit(p, n)

Next ==
    /\ ~panicked
    /\ \E p \in Procs :
         \/ Exec(p) \/ Exit(p) \/ Reap(p) \/ Step(p)
         \/ \E c \in Procs : Fork(p, c)
         \/ \E n \in Deltas : SbrkGrow(p, n) \/ SbrkShrink(p, n)

Spec == Init /\ [][Next]_vars

-----------------------------------------------------------------------------

Tables == {PDX(v) : v \in Pages} \cup Ktabs
Spaces == [dir : BOOLEAN, tab : SUBSET Tables, pg : SUBSET Pages, sup : SUBSET Pages]

TypeOK ==
    /\ nfree \in Nat /\ kstack \subseteq Procs
    /\ image \in [Procs -> Spaces] /\ build \in [Procs -> Spaces]
    /\ sz \in [Procs -> 0..KERNBASE] /\ stk \in [Procs -> Pages]
    /\ st \in [Procs -> {"unused", "embryo", "user", "setup", "alloc", "copy", "header", "zombie"}]
    /\ call \in [Procs -> {"none", "fork", "sbrk", "exec", "stack"}]
    /\ bsz \in [Procs -> 0..KERNBASE] /\ top \in [Procs -> 0..KERNBASE]
    /\ a \in [Procs -> Nat] /\ seg \in [Procs -> Segments \cup {NoSegment}]
    /\ nseg \in [Procs -> 0..MaxSegments] /\ child \in [Procs -> Procs]
    /\ panicked \in BOOLEAN

\* The physical pages of the address spaces f, told apart by their use.
Parts(m) == (IF m.dir THEN {<<"dir", 0>>} ELSE {}) \cup ({"tab"} \X m.tab) \cup ({"pg"} \X m.pg)
Owned(f) == UNION {{p} \X Parts(f[p]) : p \in Procs}

\* kalloc() and kfree() balance at every step: each physical page is free, or is
\* the kernel stack of one process or a part of one address space, finished or
\* not, whichever kalloc() of fork(), exec() or sbrk() failed before.
PagesConserved ==
    NFRAMES = nfree + Cardinality(kstack)
              + Cardinality(Owned(image)) + Cardinality(Owned(build))

\* The pages of a process that can run are exactly those below p->sz, which is
\* what argptr(), copyuvm() and the next growproc() rely on, also after calls
\* that failed half-way: mappages() ("remap"), copyuvm() ("page not present")
\* and loaduvm() ("address should exist") never panic.
ImageMatchesSize ==
    ~panicked /\ \A p \in Procs : CanRun(p) => image[p].pg = Below(sz[p])

\* The page below the user stack that exec() set up is mapped and out of the
\* program's reach, in its children and after every sbrk() too.
StackGuarded ==
    \A p \in Procs : CanRun(p) /\ stk[p] # 0 =>
      /\ stk[p] - 1 \in image[p].pg \cap image[p].sup
      /\ stk[p] \notin image[p].sup

=============================================================================
