------------------------------- MODULE Bcache -------------------------------
(***************************************************************************)
(* The buffer cache with its sleep-locks and the disk driver: bio.c,       *)
(* sleeplock.c, ide.c and memide.c.                                        *)
(*                                                                         *)
(* One action is one critical section of bcache.lock, of a sleep-lock's    *)
(* spin-lock or of idelock; sleep() gives the spin-lock up atomically      *)
(* (module Pipe has its two locks).  What a process reads without a        *)
(* spin-lock is protected by the sleep-lock it holds.                      *)
(*                                                                         *)
(* The callers are log.c and fs.c: they modify a buffer they hold and      *)
(* either write it at once, bwrite(), or pin it in the cache until         *)
(* install_trans() writes it, log_write().  Who holds a buffer and asks    *)
(* for another asks in one order (the log before its home block, an        *)
(* indirect block before the bitmap), which the block numbers stand for.   *)
(***************************************************************************)
EXTENDS Naturals, Sequences, FiniteSets, SequencesExt

CONSTANTS
    Procs,          \* the processes that use the cache
    Blocks,         \* the block numbers of the disk
    Modified,       \* the blocks that are written; the others are only read
    Data,           \* what a block may contain
    NBUF,           \* the size of the cache
    MaxHeld,        \* how many buffers a process holds at a time
    MaxPinned,      \* how many blocks the log pins at a time
    Drivers,        \* the drivers the kernel may be linked with
    ReadErrors      \* whether the drive may report an error for a read

ASSUME CacheAssumption ==
    /\ IsFiniteSet(Procs) /\ "nobody" \notin Procs /\ Data # {}
    /\ NBUF \in Nat \ {0} /\ MaxHeld \in Nat \ {0} /\ MaxPinned \in Nat
    /\ Blocks \subseteq Nat \ {0} /\ Modified \subseteq Blocks
    /\ Drivers \subseteq {"ide", "memide"}
    /\ ReadErrors \in BOOLEAN

NOBODY == "nobody"
NOBLOCK == 0            \* dev is 0, which is no device that bread() is asked for
Bufs == 1..NBUF

VARIABLES
    blockno, refcnt, data,  \* fields of struct buf
    valid, dirty,           \* the buffers with B_VALID, with B_DIRTY
    owner,                  \* owner[b]: b->lock.locked and b->lock.pid
    list,                   \* bcache.head, the most recently used buffer first
    driver,                 \* ide.c or memide.c
    idequeue,
    drive,                  \* the request the drive works on
    disk,                   \* disk[k]: block k on the disk
    pc,                     \* where p is, see TypeOK
    want,                   \* the buffer of p's current call, or 0
    held,                   \* held[p]: the buffers bread() has returned to p
    panicked

cache == <<blockno, refcnt, list>>
device == <<driver, idequeue, drive, disk>>
vars == <<blockno, refcnt, data, valid, dirty, owner, list, driver, idequeue, drive,
          disk, pc, want, held, panicked>>

\* A cleared buffer or block, and a drive with nothing to do.
ZERO == CHOOSE v \in Data : TRUE
IDLE == [blk |-> NOBLOCK, write |-> FALSE, data |-> ZERO, done |-> FALSE]

\* After binit() and ideinit().
Init ==
    /\ blockno = [b \in Bufs |-> NOBLOCK] /\ refcnt = [b \in Bufs |-> 0]
    /\ valid = {} /\ dirty = {} /\ owner = [b \in Bufs |-> NOBODY]
    /\ list = [i \in Bufs |-> NBUF - i + 1]
    /\ driver \in Drivers /\ idequeue = <<>> /\ drive = IDLE
    /\ data = [b \in Bufs |-> ZERO] /\ disk = [k \in Blocks |-> ZERO]
    /\ pc = [p \in Procs |-> "run"] /\ want = [p \in Procs |-> 0]
    /\ held = [p \in Procs |-> {}] /\ panicked = FALSE

Goto(p, l) == pc' = [pc EXCEPT ![p] = l]
Return(p) == Goto(p, "run") /\ want' = [want EXCEPT ![p] = 0]

\* panic() stops the machine.
Panic ==
    /\ panicked' = TRUE
    /\ UNCHANGED <<cache, data, valid, dirty, owner, device, pc, want, held>>

-----------------------------------------------------------------------------
(* bget(), under bcache.lock. *)

\* The buffers that hold block k.
Cached(k) == {b \in Bufs : blockno[b] = k}

\* Mutant: bget() recycles a buffer that the log has pinned.
RecyclableUnpinned == {b \in Bufs : refcnt[b] = 0}

\* The buffers that may be given another block.
Recyclable == {b \in Bufs : refcnt[b] = 0 /\ b \notin dirty}

\* The most and the least recently used buffer of a set.
MostRecent(S) == list[CHOOSE i \in Bufs : list[i] \in S /\ \A j \in 1..(i - 1) : list[j] \notin S]
LeastRecent(S) == list[CHOOSE i \in Bufs : list[i] \in S /\ \A j \in (i + 1)..NBUF : list[j] \notin S]

MayAsk(p, k) ==
    /\ pc[p] = "run" /\ Cardinality(held[p]) < MaxHeld
    /\ \A b \in held[p] : blockno[b] < k

BgetHit(p, k) ==
    /\ MayAsk(p, k) /\ Cached(k) # {}
    /\ LET b == MostRecent(Cached(k)) IN
         /\ refcnt' = [refcnt EXCEPT ![b] = @ + 1]
         /\ want' = [want EXCEPT ![p] = b]
    /\ Goto(p, "lock")
    /\ UNCHANGED <<blockno, list, data, valid, dirty, owner, device, held, panicked>>

\* With no buffer left, panic("bget: no buffers").
BgetRecycle(p, k) ==
    /\ MayAsk(p, k) /\ Cached(k) = {}
    /\ IF Recyclable = {}
       THEN Panic
       ELSE /\ LET b == LeastRecent(Recyclable) IN
                 /\ blockno' = [blockno EXCEPT ![b] = k]
                 /\ valid' = valid \ {b} /\ dirty' = dirty \ {b}
                 /\ refcnt' = [refcnt EXCEPT ![b] = 1]
                 /\ want' = [want EXCEPT ![p] = b]
            /\ Goto(p, "lock")
            /\ UNCHANGED <<list, data, owner, device, held, panicked>>

-----------------------------------------------------------------------------
(* acquiresleep() and releasesleep(). *)

\* wakeup(): those who sleep at l for buffer b go on at t.
Woken(b, l, t) ==
    [p \in Procs |-> IF pc[p] = l /\ want[p] = b THEN t ELSE pc[p]]

AcquireSleep(p) ==
    /\ pc[p] = "lock"
    /\ IF owner[want[p]] = NOBODY
       THEN owner' = [owner EXCEPT ![want[p]] = p] /\ Goto(p, "test")
       ELSE Goto(p, "locksleep") /\ UNCHANGED owner
    /\ UNCHANGED <<cache, data, valid, dirty, device, want, held, panicked>>

\* !holdingsleep(&b->lock), for which brelse(), bwrite() and iderw() panic.
NotHeld(p, b) == owner[b] # p

\* brelse() up to the end of releasesleep().
Brelse(p, b) ==
    /\ pc[p] = "run" /\ b \in held[p]
    /\ panicked' = NotHeld(p, b)
    /\ owner' = [owner EXCEPT ![b] = NOBODY]
    /\ pc' = [Woken(b, "locksleep", "lock") EXCEPT ![p] = "brelse"]
    /\ want' = [want EXCEPT ![p] = b]
    /\ held' = [held EXCEPT ![p] = @ \ {b}]
    /\ UNCHANGED <<cache, data, valid, dirty, device>>

\* Mutant: brelse() does not lower the count of a buffer that others wait for.
UnreferencedLeak(b) == IF refcnt[b] > 1 THEN refcnt ELSE [refcnt EXCEPT ![b] = @ - 1]

Unreferenced(b) == [refcnt EXCEPT ![b] = @ - 1]

\* The list with b moved to its head.
MovedToFront(b) ==
    LET at == CHOOSE i \in Bufs : list[i] = b
    IN  [i \in Bufs |-> IF i = 1 THEN b ELSE IF i <= at THEN list[i - 1] ELSE list[i]]

\* The rest of brelse(), under bcache.lock.
BrelseRef(p) ==
    /\ pc[p] = "brelse"
    /\ LET b == want[p] IN
         /\ refcnt' = Unreferenced(b)
         /\ list' = IF refcnt'[b] = 0 THEN MovedToFront(b) ELSE list
    /\ Return(p)
    /\ UNCHANGED <<blockno, data, valid, dirty, owner, device, held, panicked>>

-----------------------------------------------------------------------------
(* iderw(), ideintr() and the drive. *)

\* idestart(): the drive gets the command, and for a write the data.
Started(b, w, v) ==
    [blk |-> blockno[b], write |-> w, data |-> v, done |-> FALSE]

\* iderw() of ide.c: queue the buffer, start the drive if it is idle, sleep.
IdeRw(p, b, w, v) ==
    /\ driver = "ide"
    /\ idequeue' = Append(idequeue, b)
    /\ drive' = IF idequeue = <<>> THEN Started(b, w, v) ELSE drive
    /\ Goto(p, "disksleep") /\ want' = [want EXCEPT ![p] = b]
    /\ UNCHANGED <<driver, disk, valid, held>>

\* iderw() of memide.c copies at once.
MemRw(p, b, w, v) ==
    /\ driver = "memide"
    /\ disk' = IF w THEN [disk EXCEPT ![blockno[b]] = v] ELSE disk
    /\ valid' = valid \cup {b}
    /\ held' = [held EXCEPT ![p] = @ \cup {b}]
    /\ Return(p)
    /\ UNCHANGED <<driver, idequeue, drive>>

\* bread() with the buffer locked: the block is cached.
BreadCached(p) ==
    /\ pc[p] = "test" /\ want[p] \in valid
    /\ held' = [held EXCEPT ![p] = @ \cup {want[p]}]
    /\ Return(p)
    /\ UNCHANGED <<cache, data, valid, dirty, owner, device, panicked>>

\* bread() with the buffer locked: the block must be read.
BreadDisk(p) ==
    /\ pc[p] = "test" /\ want[p] \notin valid
    /\ panicked' = NotHeld(p, want[p])
    /\ \/ IdeRw(p, want[p], FALSE, data[want[p]]) /\ UNCHANGED data
       \/ /\ data' = [data EXCEPT ![want[p]] = disk[blockno[want[p]]]]
          /\ MemRw(p, want[p], FALSE, data'[want[p]])
    /\ UNCHANGED <<cache, dirty, owner>>

\* The caller modifies the buffer and calls bwrite().
Bwrite(p, b, v) ==
    /\ pc[p] = "run" /\ b \in held[p] /\ blockno[b] \in Modified
    /\ panicked' = NotHeld(p, b)
    /\ data' = [data EXCEPT ![b] = v]
    /\ \/ dirty' = dirty \cup {b} /\ IdeRw(p, b, TRUE, v)
       \/ dirty' = dirty \ {b} /\ MemRw(p, b, TRUE, v)
    /\ UNCHANGED <<cache, owner>>

\* The caller modifies the buffer and calls log_write().
Pinned == dirty \ ToSet(idequeue)
LogWrite(p, b, v) ==
    /\ pc[p] = "run" /\ b \in held[p] /\ blockno[b] \in Modified
    /\ b \in Pinned \/ Cardinality(Pinned) < MaxPinned
    /\ data' = [data EXCEPT ![b] = v]
    /\ dirty' = dirty \cup {b}
    /\ UNCHANGED <<cache, valid, owner, device, pc, want, held, panicked>>

\* The test of iderw()'s loop after a wakeup.
RwTest(p) ==
    /\ pc[p] = "rwtest"
    /\ IF want[p] \in valid \ dirty
       THEN Return(p) /\ held' = [held EXCEPT ![p] = @ \cup {want[p]}]
       ELSE Goto(p, "disksleep") /\ UNCHANGED <<want, held>>
    /\ UNCHANGED <<cache, data, valid, dirty, owner, device, panicked>>

\* The drive ends its work and raises an interrupt.
DriveDone ==
    /\ drive # IDLE /\ ~drive.done
    /\ drive' = [drive EXCEPT !.done = TRUE]
    /\ disk' = IF drive.write THEN [disk EXCEPT ![drive.blk] = drive.data] ELSE disk
    /\ UNCHANGED <<cache, data, valid, dirty, owner, driver, idequeue, pc, want, held,
                   panicked>>

\* Mutant: ideintr() does not start the next request.
NextRequestForgotten(q) == IDLE

\* What ideintr() leaves the drive with.
NextRequest(q) == IF q = <<>> THEN IDLE ELSE Started(Head(q), Head(q) \in dirty, data[Head(q)])

\* ideintr(): the data of a read is fetched unless the drive reports an error.
IdeIntr ==
    /\ drive # IDLE /\ drive.done
    /\ LET b == Head(idequeue) IN
         /\ \/ b \notin dirty /\ data' = [data EXCEPT ![b] = disk[drive.blk]]
            \/ (b \in dirty \/ ReadErrors) /\ UNCHANGED data
         /\ valid' = valid \cup {b} /\ dirty' = dirty \ {b}
         /\ pc' = Woken(b, "disksleep", "rwtest")
    /\ idequeue' = Tail(idequeue)
    /\ drive' = NextRequest(Tail(idequeue))
    /\ UNCHANGED <<cache, owner, driver, disk, want, held, panicked>>

\* kill() wakes a sleeper, which the loops around sleep() must expect.
Kill(p) ==
    /\ pc[p] \in {"locksleep", "disksleep"}
    /\ Goto(p, IF pc[p] = "locksleep" THEN "lock" ELSE "rwtest")
    /\ UNCHANGED <<cache, data, valid, dirty, owner, device, want, held, panicked>>

-----------------------------------------------------------------------------

\* What a process does inside a call.
Step(p) == AcquireSleep(p) \/ BrelseRef(p) \/ BreadCached(p) \/ BreadDisk(p) \/ RwTest(p)

Call(p) ==
    \/ \E k \in Blocks : BgetHit(p, k) \/ BgetRecycle(p, k)
    \/ \E b \in Bufs : Brelse(p, b) \/ \E v \in Data : Bwrite(p, b, v) \/ LogWrite(p, b, v)

Running ==
    /\ ~panicked
    /\ \/ \E p \in Procs : Call(p) \/ Step(p) \/ Kill(p)
       \/ DriveDone \/ IdeIntr

\* After panic() the kernel spins, and does nothing else.
Halted == panicked /\ UNCHANGED vars

Next == Running \/ Halted

Spec == Init /\ [][Next]_vars

\* Kernel code keeps executing, the drive ends what it was asked to do and its
\* interrupt is taken.  Nothing is assumed of the callers or of kill().
FairSpec ==
    /\ Spec /\ WF_vars(~panicked /\ (DriveDone \/ IdeIntr))
    /\ \A p \in Procs : WF_vars(~panicked /\ Step(p))

-----------------------------------------------------------------------------

Requests == [blk : Blocks, write : BOOLEAN, data : Data, done : BOOLEAN]
Places == {"run", "lock", "locksleep", "test", "disksleep", "rwtest", "brelse"}

TypeOK ==
    /\ blockno \in [Bufs -> Blocks \cup {NOBLOCK}] /\ refcnt \in [Bufs -> Nat]
    /\ data \in [Bufs -> Data] /\ valid \subseteq Bufs /\ dirty \subseteq Bufs
    /\ owner \in [Bufs -> Procs \cup {NOBODY}]
    /\ list \in [Bufs -> Bufs] /\ driver \in Drivers /\ idequeue \in Seq(Bufs)
    /\ drive \in Requests \cup {IDLE}
    /\ disk \in [Blocks -> Data]
    /\ pc \in [Procs -> Places]
    /\ want \in [Procs -> Bufs \cup {0}] /\ held \in [Procs -> SUBSET Bufs]
    /\ panicked \in BOOLEAN

\* The contents of block k: the buffer's if it is cached, otherwise the disk's.
Contents(k) ==
    LET copies == {b \in valid : blockno[b] = k}
    IN  IF copies = {} THEN disk[k] ELSE data[CHOOSE b \in copies : TRUE]

Content == [k \in Blocks |-> Contents(k)]

\* Who has block k between bread() and brelse().
Holders == [k \in Blocks |-> {p \in Procs : \E b \in held[p] : blockno[b] = k}]

Store == INSTANCE BlockStore WITH content <- Content, holders <- Holders

\* Recycling, the pins of the log, the queue of the driver and the sleep-locks
\* together give the callers of bread(), bwrite(), log_write() and brelse() an
\* array of blocks: a block is held by one process, is never read stale, and
\* changes by nothing but its holder's writes.
ImplementsStore == Store!Spec

\* The buffers that a process has, or that a call of its is about.
InUse == {b \in Bufs : \E p \in Procs : b \in held[p] \/ want[p] = b}

\* bget() panics only when the log has pinned, or the processes are using, every
\* single buffer: no path through bread(), bwrite(), brelse() and the waits in
\* them leaks one.  And nobody loses the lock of a buffer it has, so the panics
\* of brelse(), bwrite() and iderw() never happen.
NoBufferLost ==
    /\ panicked => Bufs \subseteq Pinned \cup InUse
    /\ \A p \in Procs : \A b \in held[p] : owner[b] = p

\* A process that waits for the disk goes on, whoever is before it in idequeue
\* and however often kill() wakes it too early, unless bget() panics meanwhile.
RequestServed ==
    \A p \in Procs : pc[p] \in {"disksleep", "rwtest"} ~> pc[p] = "run" \/ panicked

=============================================================================
