# A TLA+ verification of the OS202 kernel

The repository is xv6 for x86 with the signal mechanism of an operating-systems
course added to it: `kill(pid, signum)`, per-process handlers and masks,
`sigaction`, `sigprocmask`, `sigret`, SIGSTOP and SIGCONT. This directory holds
TLA+ models of its kernel, the TLC configurations that check them on small
instances, and proofs that TLAPS checks for every instance.

All modules are translated from the C and assembly sources. File names below
are those of the repository; `PROJECT.json` maps every definition to its lines.

## 1. Inventory

| Part | State | Operations | What makes it hard | What makes it correct |
|---|---|---|---|---|
| Process table, scheduler (`proc.c`) | `ptable.proc[NPROC]`, `nextpid`, `cpu.proc`, `ptable.lock` | `allocproc fork exit wait sleep wakeup kill yield sched scheduler forkret` | one lock carried across `swtch` by a different thread; wakeups; slots half built outside the lock; several CPUs | one CPU per process, the lock always released, no leaked slot or stack, orphans reaped, no lost wakeup |
| Signals (`proc.c`, `exec.c`, `implicit_sigret.S`) | `pending_signals signal_mask signal_handlers user_trap_fram_backup freeze killed` | `kill sigaction sigprocmask sigret sig_handler_runner`, `fork` and `exec` of this state | unlocked read-modify-write, a handler's frame on the user stack, one backup pointer | dispositions obeyed, the interrupted program resumed, no signal lost or invented |
| Traps and system calls (`trap.c`, `trapasm.S`, `syscall.c`) | trap frame, `ticks` | `trap syscall trapret` | tests of `killed` at each boundary; preemption anywhere in the kernel | a killed process is not served and exits |
| Log (`log.c`) | header, `outstanding`, `committing`, disk blocks | `begin_op log_write end_op commit recover_from_log` | crash between any two disk writes, group commit, reservation of space | atomic, durable transactions; no waiting for ever |
| Pipes (`pipe.c`) | ring, counters, open flags | `pipealloc pipewrite piperead pipeclose` | two locks in `sleep`, wrapping counters, several readers and writers, freeing | bounded FIFO, no lost wakeup, freed only when unused |
| Spin-locks (`spinlock.c`) | `locked`, `ncli`, `intena` | `acquire release pushcli popcli` | interrupts against locks | interrupts on only when no lock is held |
| Sleep-locks (`sleeplock.c`) | `locked`, `pid` | `acquiresleep releasesleep holdingsleep` | waiters woken together | mutual exclusion, progress |
| Buffer cache (`bio.c`) | LRU list, `refcnt`, flags | `bget bread bwrite brelse` | recycling against lookup | one buffer per block |
| Disk driver (`ide.c`, `memide.c`) | request queue | `iderw ideintr idestart` | interrupts against callers | each request done once, its caller woken |
| Inodes, directories (`fs.c`) | inode cache, block bitmap | `ialloc iget iput ilock itrunc bmap readi writei dirlink namex` | reference counts, deletion by the last user | no block in two files, no use after free |
| Open files (`file.c`, `sysfile.c`) | file table, descriptors | `filealloc filedup fileclose`, the calls | counts shared by fork | closed once, by the last |
| Physical memory (`kalloc.c`) | free list | `kalloc kfree` | shared by CPUs | a page has one owner |
| Virtual memory (`vm.c`), loading (`exec.c`) | page tables | `allocuvm deallocuvm copyuvm exec` | failure half way | all or nothing, no leak |
| Console (`console.c`) | input ring `r`, `w`, `e` | `consoleintr consoleread consolewrite` | interrupt against reader and against the lock's own CPU, full ring | lines arrive whole and in order, readers are woken |
| User library (`umalloc.c`) | circular free list, break | `malloc free morecore` | joining neighbours, holes left by the program's own `sbrk` | blocks disjoint, nothing lost |
| Shell and init (`sh.c`, `init.c`) | descriptors of each process, the parsed command | `parsecmd runcmd`, `main` of both | copies of pipe ends in many processes, failing forks | the grammar's reading; programs connected; the shell's wait ends |
| Boot, interrupt controllers, `mkfs.c`, test programs | - | - | run once, or clients of the kernel | not modelled |

How they interact. Every entry to the kernel is a trap; every return to user
space goes through `sig_handler_runner`. `sleep` and `wakeup` of the process
table are what pipes, the log, sleep-locks, the disk driver and the console
block with; `kill` with SIGKILL wakes any of these sleepers. File-system calls
run between `begin_op` and `end_op`; the log pins their buffers in the cache.

## 2. Plan

Done, in the order of importance:

1. `Proc` - process table, scheduler, timer, traps - and `ProcProofs`.
2. `Signals` - delivery to handlers.
3. `Log` implements `Transactions`.
4. `Pipe` implements `Fifo`.
5. `Inode` - inodes, blocks, directories, path names, the file table and the calls
   on them.
6. `Bcache` - the buffer cache over sleep-locks and either disk driver - implements
   `BlockStore`.
7. `Vm` - physical pages, address spaces, `exec`.
8. `Console` over `Spinlock` implements `Terminal`.
9. `Malloc`, and `Shell` over `ShellParser`.

The proofs, in the same spirit: `ProcProofs`, `PipeProofs`, `LogProofs`,
`SignalsProofs`, `ConsoleProofs`, `BcacheProofs`, `VmProofs`, `InodeProofs`.

## 3. The modules

### Proc

A slot carries `state pid parent chan killed freeze pending kstack` of
`struct proc`; a CPU carries `c->proc` (`proc`) and the loop variable of
`scheduler()` (`scan`); `lock` is the holder of `ptable.lock`. `pc[p]` says
where p's kernel thread is, `intr[p]` that it was interrupted there by the timer
and has not yielded yet. One action is one critical section of `ptable.lock`, or
one unlocked stretch of kernel code whose writes another CPU can see: `fork` is
`AllocProc`, `AllocPid`, `AllocKstack` or `KallocFails`, `CopyProc` or
`CopyuvmFails`, `RunChild`, with every other CPU and the timer in between.

The lock crosses `swtch` as in the code: `Yield`, `WaitSleep`, `SleepOnTicks` and
`Exit` take it and change the state, `Sched` switches to the scheduler with the
lock held, `Dispatch` switches to a process with the lock held, and
`YieldResumes`, `SleepResumes`, `InWait` and `ForkRet` are the resumed threads
that release it.

`sig_handler_runner` runs here with default handlers and an empty mask; its
writes to `pending` are single steps (the race is in `Signals`). Programs choose
any system call at any time, except that init behaves as `init.c` does: it forks
and waits and, with `InitFails`, exits as it does when a fork has failed, which
the kernel answers with a panic. `MAXPID` bounds the number of processes ever created. The panics of
the code are steps that halt their CPU with whatever it holds.

### Signals

One process, the senders, and its user stack. `tf` is the trap frame with what
control flow needs (where `eip` points, in which program image, `esp`, `eax`);
`mem[d]` is the frame the runner saved at stack depth d, lost when code runs
below it (`Depths` has room for all the frames that `MaxSends` signals can leave there);
`backup` is the single `user_trap_fram_backup`. `Dispatch` follows the
branches of the runner; `Deliver` is the frame it builds; `Sigret` restores and
then `syscall()` stores the result in `eax`. The read and the write of `pending_signals |= ...`
in `kill` and of `^=` in the runner are separate steps. `spaced` says whether
senders wait until a signal has been handled, and `HandlerCalls` which system calls
handlers make: the passing run checks both kinds of senders and states for which
use delivery is right, `signals_lost` what breaks outside it.
`ctx`, `want`, `owed` and `ever` are history variables.

`fork` is followed into the child, whose `freeze` is whatever its slot last held.
`exec` replaces the image and clears the stack. `sigret` is called by the trampoline, or
by the handler itself; a program that calls it outside any handler, and a stack pointer
on which the runner cannot write a frame (the kernel faults), are not modelled.

### Log and Transactions

`Transactions` is the promise: what calls read (`cur`), what a crash goes back to
(`stable`), who is inside a call. `Log` has the disk (`home`, `dlog`, `dhead`), the
cache (`buf`, and `dirty` for buffers pinned by B_DIRTY), the in-memory header and
counters, and one step per critical section of `log.lock` or per disk write.
`log_write` is two steps, since its test for room is made before `acquire`.
Recovery is the same `Install` and `Erase`, after `ReadHead`. `Crash` may happen
at any step. `Evict` is `bget` recycling a clean buffer.

The log on disk is as `mkfs` makes it: `NLOG` blocks of which one is the header, and mkfs
takes `nlog` = LOGSIZE. So it holds LOGSIZE - 1 data blocks, although `param.h` calls LOGSIZE
the number of data blocks, and `log_write()` panics at a header of `NLOG - 1` blocks, while
`begin_op()` reserves up to LOGSIZE. What keeps them apart is that no call of this
kernel writes as many blocks as it reserves: `OPWRITES` is the most that one writes, and
`RoomAssumption` says which slack is needed (LOGSIZE - MAXOPBLOCKS + OPWRITES < NLOG - 1; here
30 - 10 + 7 < 29). The 7 are those of `filewrite`: 1536 bytes touch four data blocks, and the
bitmap, the indirect block and the inode come with them. `mkdir` writes six (two inodes, a
block of each directory, the bitmap, an indirect block), `unlink` and `iput` four, and an
inode block more if a path walk puts the last reference to something removed.

The refinement mapping
takes `stable` to be the disk with the log replayed on it (`Recovered`), and `cur`
to be the cache, or `Recovered` while recovery runs.

### Pipe and Fifo

`Fifo` is the promise: a bounded queue, end of file only when drained and without
writers, failure only without readers. `Pipe` has `struct pipe`, `p->lock`, and the
window of `sleep()` in which a process has `ptable.lock` and no longer `p->lock`.
Counters wrap at `WRAP` (2^32 in the code, a multiple of PIPESIZE there as here).
Descriptors are the sets `rd` and `wr`; the last close of an end calls `pipeclose`.
The tests of `killed` in `pipewrite` and `piperead` are constant: a process inside a
call is never marked killed, which is a theorem of `ProcProofs`; SIGKILL only
wakes the sleeper (`Kill`), who tests again.

### Inode

The disk is `dino` (the inodes), `dents` (the entries of directories) and `used` (the
bitmap); `icache` has the cached copy, `valid`, `ref` and the sleep-lock of each
inode; `ftable`, `ofile` and `cwd` are the open files and current directories; `th[p]` holds
the locals of the call p is in. One action is one critical section of an inode's
sleep-lock. A call that waits for a second lock with one held does so between two
actions (`Create` to `CreateLink`, `Unlink` to `UnlinkEntry`), and a call that has
let a lock go and takes it again finds whatever happened in between (`Walk` to
`Create`, `Unlink` or `LinkDir`). `iput` is the three steps `PutLock`, `PutFree` and
`PutDeref` on the inode `put`, then on `put2` if a call puts two, and the call goes on at
the place `then`. A path is `abs`, whether it starts at the root, and its `elems`.

Sizes are in blocks, and the entries of a directory fit in one. The blocks of an inode are
the sequence `addrs`: first the direct blocks, `NDIRECT` at most, then the indirect block, then
the blocks that it lists; `Size` does not count the indirect block. `BMap` allocates the
indirect block together with the first block in it, `ITrunc` frees all three kinds, and
`Freeable` is the test of `bfree` that panics on a block that is free already. Inode and block
numbers are interchangeable, so that the allocators' first fit is the lowest free
number. `PutFree` is one step although `itrunc` frees block after block and `iupdate` is called
twice: the inode is locked and nobody else has a reference, each bitmap update is under
its own buffer's lock, and the log commits them together. Another process's `balloc` between
two of them only gets a different block.

Each time a device's read or write, or `fstat`, has the inode locked is a `Read`; a device has no
blocks, so the offset stays. What `exec` does to inodes, look a name up, lock, read and put, is
what a `chdir` does that finds no directory. A panic disables its step, and `NoPanic` says that none is reached.
`MCInode` gives the calls that a run makes.

### Bcache and BlockStore

`BlockStore` is the promise: an array of blocks, each held by at most one process,
changed only by its holder. `Bcache` has the buffers (`blockno refcnt data`, the sets
`valid` and `dirty` for the flags), the LRU `list`, the owner of each sleep-lock, and
the driver: `idequeue` and the request the drive works on, or `memide.c`, which copies
at once. `bread` is `BgetHit` or `BgetRecycle` under `bcache.lock`, then
`AcquireSleep`, then `BreadCached` or `BreadDisk`; `brelse` is `Brelse` and
`BrelseRef`, and others run in between. `Kill` is a wakeup that comes too early, which
both sleep loops must stand. `LogWrite` pins a buffer by B_DIRTY as `log_write` does.
The mapping takes the contents of a block from its valid buffer, otherwise from the
disk. After a panic the kernel does nothing more (`Halted`). A drive that reports an error for a read (`ReadErrors`) leaves the old
contents of the buffer and `ideintr` marks it valid all the same; the run has
reliable drives.

### Vm

An address space is its directory, the set of page tables (`tab`), the mapped pages
(`pg`) and those without PTE_U (`sup`). Pages are taken one by one, and every
`kalloc` may be the one that fails: `SetupPage`, `AllocPage` and `CopyPage` are turns
of the loops of `setupkvm`, `allocuvm` and `copyuvm`, with the failing ends beside
them, while other processes fork, exec, grow, shrink, exit and are reaped. Physical
pages are interchangeable and counted. `exec` reads program headers chosen from
`Segments` (overlapping, unaligned, with gaps, too high, wrapping), sets up stack and
guard page, and commits or gives up. Sizes are modulo `WRAP`. `CanRun` says that a
process whose code or stack is gone faults instead of making calls. This assumes two
things of programs: they keep the stack where `exec` put it (one that moves `esp` could
shrink below the guard page and grow over it again, and ImageMatchesSize and StackGuarded do
not speak of it), and the arguments of `exec` are no larger than the new image (otherwise `sp` at
`exec.c:75` wraps, and `uva2ka` may read a page table entry that is not there).

### Spinlock, Console and Terminal

`Spinlock` is `acquire`, `release`, `pushcli` and `popcli` as operators on a CPU's
interrupt flag, `ncli` and `intena`; only the exchange in `acquire`'s loop is a step.
`Console` composes it with two CPUs whose processes read and write the console, and
the keyboard interrupt on CPU 0, taken whenever the flag allows it. `consoleintr` is
one step per key; `consoleread` one step per character. `Terminal` is the promise: a
line that can be edited until it is entered, entered characters read once and in
order. The indices wrap at `WRAP`.

### Malloc

Headers are addresses counted in units; `ptr` and `size` are the fields of the
header there. A call is a step, since a program has one thread. `Freed` is `free` with
its two joins, `MoreCore` feeds it what `sbrk` returned; the program may also move the
break itself, which leaves holes. `Units` is unsigned as in the code: the largest requests
wrap, and get a header and no bytes. Requests of 2 GB and more that do not wrap there are
excluded by `RequestAssumption`: their size is a negative `int` to `sbrk`, which takes memory
away from the heap.

### ShellParser and Shell

`ShellParser` is the recursive descent of `sh.c` on the tokens that `gettoken` returns
(a word is "a"), and next to it the grammar, as the set of commands a line stands for
by splitting it. `Shell` is the processes that run a line: one action per system call
of `main` and `runcmd`, on a table of descriptors per process, with `fork`, `open`,
`pipe` and `exec` failing at will. Programs are external: they exit when they like,
but one whose input is a pipe waits for its end. init adopts and reaps; if it
cannot fork a new shell it exits. If the child cannot `exec` the shell it exits, which is what a
shell does that finds its input ended.

Each module has a type invariant, `TypeOK`, where its variables are records or
functions worth typing; those of `Proc`, `Signals`, `Log`, `Pipe`, `Bcache`, `Vm` and
`Console` are proved. The runs check the properties below.

## 4. The runs

| Run | Instance | Shows |
|---|---|---|
| `proc_lifecycle` | 3 slots, 2 CPUs, 2 forks, SIGSTOP and SIGCONT, an init that may fail | CpusSound, SlotsAccountedFor, FamilyTree, NoLostChildWakeup, PidsUnique: the table stays consistent whatever exits, waits, stops, fails or is preempted in whatever order, also when a CPU has panicked |
| `proc_liveness` | 3 slots, 1 CPU, SIGKILL, an init whose forks succeed | OrphanReaped, RunnableRuns, KilledExits |
| `signals_delivery` | 4 signals, full and empty mask, 2 deliveries, 2 images | DispositionObeyed, ControlRestored and HandlerFinishes (signals one at a time), NoStaleImage, NoForgedSignal (also when senders and runner race) |
| `log_crash` | 2 blocks, 2 processes, 4 calls of up to 2 blocks each, which reserve 4 of 8, `nlog` = LOGSIZE, 2 crashes | ImplementsTransactions, SpaceReserved, CallAdmitted |
| `pipe_fifo` | 2 readers and 2 writers in 3 processes, ring of 2, transfers of 3, WRAP 4 | ImplementsFifo, SleepersHaveReason, FreedUnused, ReadReturns |
| `fs_names` | 2 processes, 4 calls in any order on names in / and /d, 4 inodes, 8 blocks, 1 direct block and an indirect one, 2 files | RefsCounted, TreeSound, CacheCoherent, BlocksOwned, NoPanic, FreedUnreachable: the counts and the tree survive every interleaving of creation, removal and last use; WaitsGoDown: all deadlocks are of one kind |
| `bcache_store` | 2 processes that hold up to 2 buffers, 4 blocks of which 2 are written, 2 buffers, one pinned, both drivers | ImplementsStore, NoBufferLost, RequestServed |
| `vm_memory` | 3 processes, 18 physical pages, 8 user pages, page tables of 2, 4 kinds of segment | PagesConserved, ImageMatchesSize, StackGuarded |
| `console_lines` | 2 CPUs, ring of 2, WRAP 4, reads of 2, every kind of key | ImplementsTerminal, LocksMaskInterrupts, ReaderServed |
| `malloc_heap` | 11 units, 4 request sizes of which one wraps, own `sbrk` of 2 units | HeapPartitioned |
| `shell_run` | every line of up to 3 tokens and 12 longer ones, 5 slots, 5 descriptors | ParsesGrammar, ProgramsConnected, WaitEnds |
| `signals_lost` | 2 signals, senders not spaced; expects a violation | NoSignalLost is false: the runner's unlocked `^=` overwrites the bit `kill()` has set, though `proc.c:548` says that `kill` sends the signal and it returned 0 |

The models have other behaviours that a reader of the code should know, without a
run of their own.

- Signals. `scheduler()` calls `SIGCONT_handler()`, which writes through `myproc()`,
  null there, so SIGSTOP followed by SIGCONT panics (`ThawPanic`). `freeze` survives
  `wait()` and `allocproc()`, so a slot can pass it to a new process. Two handlers that
  overlap share one backup pointer, and the outer one returns through the inner
  frame; for this reason ControlRestored and HandlerFinishes are about spaced
  signals. SIGKILL does not get a process out of `wait()`, since `killed` is set only
  on the way to user space; a stopped process that is sent SIGKILL is never scheduled
  to receive it; nor is one that a single pass of the runner marks killed and stopped and
  that the timer takes off the CPU in `exit()`, which is why KilledExits excepts stopped
  processes; `sigret`'s result overwrites the restored `eax`; a child forked inside
  a handler has another process's backup pointer.
- Log and cache. `log_write()` panics for a block that a full log already holds, because
  its test precedes the search, and two racing calls can pass it for the last free
  block, because it precedes `acquire`. Neither happens while calls write less than they
  reserve (`RoomAssumption`), which is a theorem. NBUF equals LOGSIZE, which is
  less than the log's pins and the buffers that processes hold together: with more than
  twenty buffers pinned and enough processes reading, `bget` panics. NoBufferLost says that
  this is the only way, and `EnoughBuffers` how large a cache never runs out.
- File system. Two `iput()` of the last two references to an unlinked inode
  can both see a count of 2, and the inode is never freed. `create()` and `unlink()` call
  `iput(dp)`, which locks the directory, while they hold the inode; an `unlink()` of the
  same name that has the directory and waits for the inode then waits for ever
  (`WaitsGoDown` says that this is the only circular wait). A file created in or linked
  into a directory that has just been removed keeps its link for ever. After `mkdir d`,
  `mkdir d/d`, `chdir d/d` and the removal of both, opening `..` panics in `ilock()`;
  `fs_names` therefore uses no name `..`.
- Memory. `sbrk(-sz)` frees every page and then takes the size 0 for a failure of
  `deallocuvm`, so `p->sz` stays; the process cannot go on, and its clean-up is sound.
  A shrinking `sbrk` below the stack has the same end.
- Shell. init exits when it cannot fork a new shell, which the kernel answers with a
  panic. A shell whose `fork` fails exits, and init starts another.

Bounds. Two CPUs are what it takes to have one spin, interrupt or race the
other; three slots give a process, its parent and init. (A fourth, for an orphan whose
dead parent's parent is not init, is left to the proof.) Two deliveries give a nested
handler; two crashes give one inside the recovery from another; two calls that
together reserve the whole log give a group commit, and a call that finds a block
written waits for space (with two blocks the header stays far from the panic in
`log_write`, which the run shows unreached and the proof unreachable); transfers longer
than the ring make writers sleep half way, and counters modulo four wrap. Four file-system
calls by two processes, begun in a tree with a directory and a file and with each process
in either directory, give the removal of something that is open, walked through or
somebody's directory, the reuse of the freed inode, and a full file table; the two
processes are alike, which the symmetry uses. Two buffers for four blocks recycle all the time, one
of them may be pinned, and each process may hold two: the cache does run out. Eighteen pages
are enough for two processes and a half, so that every allocation of `fork`, `exec` and
`sbrk` fails in some state; pages of two units and tables of two pages put sizes inside
pages and images across tables. A ring of two is filled by one line and its indices wrap.
Eleven heap units give several blocks with a hole. The long lines of `shell_run` nest
pipelines, lists and blocks; five slots are a shell and a pipeline of three, or a
background pipeline and a second line that finds no slot.
`CHECK_DEADLOCK FALSE` stands where the instance may really stop: the bound on
calls is used up, the process has exited, file-system calls wait for each other, both ends
of the pipe are closed, the CPUs are halted, or init has exited. The other runs check
deadlock.

Fairness. `Proc`: a CPU keeps executing kernel code and wins a lock that keeps
becoming free (strong fairness of the scheduler, of the switching steps and of each
thread's kernel work, since the lock or an interrupt can disable them
again and again), the timer keeps interrupting, and init, by `init.c`, calls `wait`
again and again; nothing is assumed of other programs. `Signals`: the kernel
and the timer run, and a handler that gets to run returns. `Log`: the committing
process and those at a lock go on, and a call ends. `Pipe`: kernel code goes on;
nothing is assumed of programs. `Bcache`: kernel code goes on, the drive ends what it was
asked to do and its interrupt is taken. `Console`: kernel code goes on and a spinning CPU
gets the lock in the end (strong fairness of the handler and of each process's steps), and
the handler's loop over the keys ends (strong fairness of `HandlerDone`: nobody types faster
than an interrupt handler for ever). `Shell`: some process that can run does run, which is
less than the scheduler gives; but this also has every program that is not waiting for its
input exit in the end, which is an assumption on programs. A line is a finite amount of work.
`KilledExits` is checked with SIGKILL alone (an instance with SIGSTOP is too large for this run). xv6's spin-locks are not fair in themselves;
that a spinning CPU gets the lock in the end is an assumption on the hardware, and
the liveness results rest on it.

## 5. The proofs

Every theorem is about all values of the constants that satisfy the named assumptions of
the module; TLC evaluates these assumptions on the instances of section 4. The invariants
`IInv` below were model-checked on those instances before they were proved. In each
module one lemma per action, or per part of the invariant, shows what a step preserves;
frame lemmas cover the actions that leave a part's variables alone.

| Module | Proved | Assumptions |
|---|---|---|
| `ProcProofs` | TypeOK, RunningOnOneCpu, LockHandoff, SlotsAccountedFor, FamilyTree, NoLostChildWakeup, PidsUnique, KilledNeverServed, StackFreedOffCpu, ZombieReapedByParent, CpusSound | at least one slot and one CPU; signal numbers in 0..31, pids natural |
| `PipeProofs` | TypeOK, SleepersHaveReason, FreedUnused, ImplementsFifo | ring of at least 1, WRAP a larger multiple of it |
| `LogProofs` | TypeOK, SpaceReserved, that the header fits the log, ImplementsTransactions | finitely many processes and blocks; MAXOPBLOCKS at least 1 and at most LOGSIZE; OPWRITES below MAXOPBLOCKS, by enough for the log on disk (`RoomAssumption`) |
| `SignalsProofs` | TypeOK, NoForgedSignal, NoStaleImage, DispositionObeyed, ControlRestored (if handlers do not fork) | signal numbers in 0..31; masks are sets of signals |
| `ConsoleProofs` | TypeOK, LocksMaskInterrupts, ImplementsTerminal | ring of at least 1, WRAP a larger multiple of it; one process per CPU; the keys of the model |
| `BcacheProofs` | TypeOK, NoBufferLost, EnoughBuffers, ImplementsStore (if the drive reports no read errors) | finitely many processes, at least one buffer |
| `VmProofs` | TypeOK, PagesConserved, ImageMatchesSize, StackGuarded | finitely many slots, one of them init's, and pages for init at least; pages and page tables of positive size; KERNBASE a positive multiple of what a page table maps, WRAP at least twice KERNBASE |
| `InodeProofs` | TypeOK, RefsCounted, CacheCoherent, BlocksOwned; and if no path has an element `..`: TreeSound, NoPanic, FreedUnreachable, WaitsGoDown | at least 3 inodes and 5 blocks (those of the initial disk), tables and files of positive size, files of at least two blocks and all direct ones; finitely many processes; calls of the operations modelled |

**Proc.** KilledNeverServed is what allows `Pipe` and `Console` to leave out the tests of
`killed` in their loops. None of the properties is inductive alone. `IInv` adds what a step
must know of the threads that are not running now:

- `CpuInv`: a CPU in the scheduler's loop holds the lock, a process that is on a CPU
  and not RUNNING holds it through its CPU. Without it two CPUs could be in the loop
  and dispatch one process twice.
- `ThreadInv`: a RUNNABLE or SLEEPING thread is parked exactly where it will
  release the lock, a sleeper is on the channel its waker uses. It is what makes the
  hand-over over `swtch` sound.
- `ForkInv`: an EMBRYO has exactly one `fork()` behind it, and its stack and parent
  are as far as that `fork()` is. It keeps `exit` and `wait` off half-built slots.
- `StackInv`, `FamilyInv`, `PidInv`, `KilledInv`: stacks, parents, pids and killed
  flags of every state, including free slots, so that a slot is taken clean.

**Pipe.** `LocksInv` ties both locks to the places between `acquire` and `release`;
`CallsInv` and `EndsInv` say that an end is open while somebody has it or is about to
close it, so that the pipe is not freed under a call. SleepersHaveReason holds only while
`p->lock` is free; `SleepInv` is its inductive form: a sleeper has a reason, or the holder
of the lock has changed the ring and has not called `wakeup()` yet. For the refinement,
lemmas on the operators of `Ring` show what reading and writing at wrapping counters does
to the queue they stand for. That WRAP is a multiple of the ring's size is needed there: otherwise the slot of a
counter jumps when the counter wraps.

**Log.** SpaceReserved counts: what is in the header and what the calls inside may still
write fits LOGSIZE (`Reservation`). That nothing panics needs more, since `log_write` is
stricter by a block and looks before it locks: while a call is inside that can still write,
its unused reservation keeps the header below `NLOG - 1` (`Fits`). `CallsInv` keeps each call within its reservation; the step that
needs it is `begin_op`. `StageInv` says that calls write only while nobody commits.
`HeaderInv`, `CacheInv` and `CopiesInv` say what is on the disk at each step of
a commit or a recovery: the header on disk is empty or names blocks whose log copies are
complete, and a clean buffer equals its block. From these, each disk write leaves
`Recovered` alone but the one of the header, which is the commit, and a crash goes back to
`stable`.

**Signals.** `RaceInv` makes NoForgedSignal inductive by covering the stale values that
`kill` and the runner have read; `ImagesInv` covers the saved frames and the handlers, which
`exec` must reset for NoStaleImage. `OneInv` and `FrameInv` describe, for spaced signals,
the one frame that the backup pointer names. `DepthInv` bounds the stack: each pending
signal has room for its frames above any frame that `sigret` may return to. Its proof
showed that a linear bound on the depth is too small for three or more
deliveries; `Depths` is now quadratic in `MaxSends`. Without the condition on
handlers ControlRestored is false, since a child forked inside a handler has the
parent's backup pointer.

**Console.** `CliInv` gives `ncli`, `intena` and the interrupt flag at each place of the
code, for the process and for the handler that interrupted it; with `LockInv`, the handler
never finds the lock held by its own CPU and `acquire` never panics. `RingInv` keeps
`r`, `w` and `e` in their order around the ring and the end of a line out of the part
still being edited, so that erasing never reaches what was entered.

**Bcache.** `BlockInv` and `CountInv` say that a block has one buffer and that the counts
are the users: a buffer that is recycled has none. `QueueInv` and `DriveInv` connect each
request with the one process that waits for it and the drive with the head of the queue;
`CleanInv` says that a valid buffer that is not dirty is what the disk has. `RoomInv` is
a counting argument: a buffer that is not pinned and that nobody uses has a count of 0 and is
clean, so that `bget` takes it; and with NBUF of at least the pinned buffers and MaxHeld for
each process there is always one. With
read errors ImplementsStore is false, since `ideintr` marks the buffer valid.

**Vm.** `SpaceInv` says that a mapped page has its page table: `freevm` frees the pages it
finds by way of the tables, so that without it PagesConserved would lose pages. `ImageInv`
and `BuildInv` follow the loops of `allocuvm` and `copyuvm`: the pages of a space that
grows are those below the size it had and those up to the loop, which is what a failing
`kalloc` takes back. After `sbrk` by minus the size a process has no page left and can
only fault and exit. `ForkInv` gives each child under construction to one `fork`, so that
nobody reaps or fills a slot under it. `GuardInv` carries the page without PTE_U through
`sbrk`, which moves the size and never the stack, and `fork`, which copies the flag. The
balance of pages is kept by a lemma on counting: a step that adds k pages to one space has
taken k from the free list.

**Inode.** Two invariants, the first whatever the paths. In `IInv`, `CallInv` gives each place of
a call the pointers that are set there, so that the pointers to an inode can be counted, and
`LockInv` the locks held there. `CacheInv` says that what is valid in the cache is on disk and
not free; for this `iput` must not free what somebody else will write back, which is
`KeptInv` and `FreeingInv`: an inode that a call has locked once and still points to is not
free, and nobody keeps the inode that `iput` is about to free. `FilesInv` extends it to
open files, and `FoundInv` says that the entry that `unlink` and `link` have found stays as
long as they have the directory locked. BlocksOwned is inductive given a bound on the
length of `addrs`: `BMapAdds` says what `bmap` adds in each of its three cases, `TruncFrees` that
the loops of `itrunc` meet every block; that `bfree` never panics follows from both.

`TreeInv` is about the tree. LinksCover is not inductive: between two updates a call owes
links, and `LinksInv` says that nlink covers the names, the subdirectories, one link for
the root, and what `unlink` has not taken back or `link` not used yet (`Need`). `FreshInv`
says that the inode `create` has allocated and not yet entered is known to nobody else,
`LiveInv` that whatever a call points to is not free, `LastInv` that `iput` frees an inode
when its own reference is the last. `RankInv` gives the directories a rank that entries
lower, from which WaitsGoDown follows: in a circle of waits the process whose lock ranks
lowest cannot be going down. The condition is needed: with an element `..` the kernel does
reach the panic described in section 4.

Every action is first shown to be a step of one of a few kinds (`StepKind`: it only moves
pointers, opens or closes files, changes one inode and its entries, allocates, frees or
grows), and then each kind to keep both invariants.

Only model-checked: the liveness properties, whose proofs need fairness and ENABLED and are
outside the prover's reach; the grammar of `ShellParser` and the heap of `Malloc`, which are
defined by recursion, and ProgramsConnected of `Shell`, which uses that parser.

## 6. Not modelled

- Boot code, interrupt controllers, segment and page-table hardware, `mkfs.c`,
  `string.c`: set-up that runs once, or byte loops without state.
- Output: the screen, the serial port, `printf`, `cprintf`'s formatting, `procdump`'s
  text. The key maps of `kbd.c`: `Console` starts from the characters they give.
- The arguments of system calls and their fetching; names; signal numbers outside
  0..31, which `sigaction` does not reject.
- The bytes of files, the limit of the inode cache, a full disk (panics), the
  clean-up of `sys_pipe` when descriptors run out.
- Explicit `sigret` outside a handler; programs that move their stack; arguments of `exec`
  larger than the image; requests to `malloc` of 2 GB and more (section 3 says what the code
  does then).
- `nulterminate` of `sh.c` and the text of a line; `cd`, which changes none of the state
  modelled; `gets`, `printf` and the string functions of the user library.
- `getcallerpcs`; the number of ticks a process sleeps, which is left open.
- The test programs: clients of the kernel.
