-------------------------------- MODULE Log --------------------------------
(***************************************************************************)
(* The redo log of the file system, log.c, with the part of the buffer     *)
(* cache it relies on: a block that log_write() has marked B_DIRTY stays   *)
(* in memory until install_trans() has written it home.                    *)
(*                                                                         *)
(* One action is one critical section of log.lock, or one disk write: the  *)
(* machine may crash between any two of them, and during recovery.  A disk *)
(* block is written atomically.                                            *)
(***************************************************************************)
EXTENDS Naturals, Sequences, FiniteSets

CONSTANTS
    Blocks,         \* the home blocks of the file system
    Procs,          \* processes making file-system calls
    LOGSIZE,        \* capacity of struct logheader
    MAXOPBLOCKS,    \* blocks that begin_op() reserves for a file-system call
    OPWRITES,       \* most different blocks that a call of this kernel writes
    NLOG,           \* sb.nlog, the blocks of the on-disk log, header included
    MaxOps,         \* bound: how many file-system calls are made
    MaxCrashes      \* bound: how often the machine crashes

ASSUME SizesAssumption ==
    /\ LOGSIZE \in Nat /\ MAXOPBLOCKS \in Nat \ {0} /\ NLOG \in Nat \ {0}
    /\ OPWRITES \in Nat
    /\ MaxOps \in Nat /\ MaxCrashes \in Nat
    /\ MAXOPBLOCKS <= LOGSIZE
\* The slack in MAXOPBLOCKS makes up for the header's block, which mkfs does not
\* count (nlog = LOGSIZE), and for log_write()'s test, which comes before it
\* absorbs.  param.h and mkfs.c: 30 - 10 + 7 < 30 - 1.
ASSUME RoomAssumption ==
    /\ OPWRITES < MAXOPBLOCKS
    /\ LOGSIZE - MAXOPBLOCKS + OPWRITES < NLOG - 1
ASSUME SetsAssumption ==
    IsFiniteSet(Procs) /\ IsFiniteSet(Blocks) /\ 0 \notin Blocks

Vals == 0..MaxOps       \* a block's content: the call that wrote it last

VARIABLES
    home,           \* home[b]: block b on disk
    dlog,           \* dlog[i]: block i of the on-disk log
    dhead,          \* the block numbers in the on-disk header; its length is n
    buf, dirty,     \* the buffer cache: contents, and the blocks marked B_DIRTY
    lh,             \* log.lh, the in-memory header
    outstanding, committing,    \* log.outstanding, log.committing
    pc,             \* pc[p]: "idle", "begin", "asleep" (on &log), "op",
                    \* "log_write" (past the test for room) or "commit"
    op, wrote,      \* the call p is making, and the blocks it has written
    blk,            \* blk[p]: the block whose buffer p holds in log_write()
    stage, tail,    \* where commit() or recover_from_log() is
    ops, crashes,   \* how many calls and crashes there were
    panicked        \* log_write() or end_op() called panic()

disk == <<home, dlog, dhead>>
memory == <<buf, dirty>>
header == <<outstanding, committing>>
calls == <<op, wrote, blk, ops>>
vars == <<home, dlog, dhead, buf, dirty, lh, outstanding, committing, pc, op, wrote,
          blk, stage, tail, ops, crashes, panicked>>

Stages == {"none", "write_log", "write_head", "install", "erase", "done", "read_head"}

\* A freshly made file system, after initlog().
Init ==
    /\ home = [b \in Blocks |-> 0] /\ dlog = [i \in 1..(NLOG - 1) |-> 0] /\ dhead = <<>>
    /\ buf = home /\ dirty = {}
    /\ lh = <<>> /\ outstanding = 0 /\ committing = FALSE
    /\ pc = [p \in Procs |-> "idle"] /\ op = [p \in Procs |-> 0]
    /\ wrote = [p \in Procs |-> {}] /\ blk = [p \in Procs |-> 0]
    /\ stage = "none" /\ tail = 0 /\ ops = 0 /\ crashes = 0 /\ panicked = FALSE

\* wakeup(&log) on the program counters f.
Woken(f) == [p \in Procs |-> IF f[p] = "asleep" THEN "begin" ELSE f[p]]

\* The machine runs and recovery is over.
Up == ~panicked /\ stage # "read_head" /\ (stage = "none" \/ committing)

-----------------------------------------------------------------------------
(* File-system calls. *)

\* A process starts a call (bound: MaxOps calls in all).
Call(p) ==
    /\ Up /\ pc[p] = "idle" /\ ops < MaxOps
    /\ ops' = ops + 1
    /\ op' = [op EXCEPT ![p] = ops + 1]
    /\ wrote' = [wrote EXCEPT ![p] = {}]
    /\ pc' = [pc EXCEPT ![p] = "begin"]
    /\ UNCHANGED <<disk, memory, lh, header, blk, stage, tail, crashes, panicked>>

\* Mutant: begin_op() does not count the call it admits.
MustWaitOffByOne == committing \/ Len(lh) + outstanding * MAXOPBLOCKS > LOGSIZE

\* Mutant: begin_op() does not wait for a commit in progress.
MustWaitForSpaceOnly == Len(lh) + (outstanding + 1) * MAXOPBLOCKS > LOGSIZE

\* begin_op() may not go on: a commit is in progress, or the log is reserved.
MustWait == committing \/ Len(lh) + (outstanding + 1) * MAXOPBLOCKS > LOGSIZE

BeginOp(p) ==
    /\ Up /\ pc[p] = "begin"
    /\ IF MustWait
       THEN pc' = [pc EXCEPT ![p] = "asleep"] /\ UNCHANGED outstanding
       ELSE pc' = [pc EXCEPT ![p] = "op"] /\ outstanding' = outstanding + 1
    /\ UNCHANGED <<disk, memory, lh, committing, calls, stage, tail, crashes, panicked>>

\* kill() with SIGKILL wakes a sleeper, which tests again.
Kill(p) ==
    /\ Up /\ pc[p] = "asleep"
    /\ pc' = [pc EXCEPT ![p] = "begin"]
    /\ UNCHANGED <<disk, memory, lh, header, calls, stage, tail, crashes, panicked>>

\* The call has locked the buffer of b and modified it, and log_write() tests,
\* without log.lock, that there is room and a transaction; or it panics.
LogWriteTest(p, b) ==
    /\ Up /\ pc[p] = "op"
    /\ b \in wrote[p] \/ Cardinality(wrote[p]) < OPWRITES
    /\ \A q \in Procs : pc[q] = "log_write" => blk[q] # b
    /\ IF Len(lh) >= LOGSIZE \/ Len(lh) >= NLOG - 1 \/ outstanding < 1
       THEN panicked' = TRUE /\ UNCHANGED <<pc, blk>>
       ELSE /\ pc' = [pc EXCEPT ![p] = "log_write"]
            /\ blk' = [blk EXCEPT ![p] = b]
            /\ UNCHANGED panicked
    /\ UNCHANGED <<disk, memory, lh, header, op, wrote, ops, stage, tail, crashes>>

\* Mutant: log_write() does not look for the block in the header.
LogWriteAppends(p) ==
    /\ Up /\ pc[p] = "log_write"
    /\ buf' = [buf EXCEPT ![blk[p]] = op[p]]
    /\ wrote' = [wrote EXCEPT ![p] = @ \cup {blk[p]}]
    /\ lh' = Append(lh, blk[p])
    /\ dirty' = dirty \cup {blk[p]}
    /\ pc' = [pc EXCEPT ![p] = "op"]
    /\ blk' = [blk EXCEPT ![p] = 0]
    /\ UNCHANGED <<disk, header, op, ops, stage, tail, crashes, panicked>>

\* The rest of log_write(), under log.lock, and brelse(): absorption, or a new
\* entry of the header; the buffer is pinned and unlocked.
LogWrite(p) ==
    /\ Up /\ pc[p] = "log_write"
    /\ buf' = [buf EXCEPT ![blk[p]] = op[p]]
    /\ wrote' = [wrote EXCEPT ![p] = @ \cup {blk[p]}]
    /\ lh' = IF \E i \in 1..Len(lh) : lh[i] = blk[p] THEN lh ELSE Append(lh, blk[p])
    /\ dirty' = dirty \cup {blk[p]}
    /\ pc' = [pc EXCEPT ![p] = "op"]
    /\ blk' = [blk EXCEPT ![p] = 0]
    /\ UNCHANGED <<disk, header, op, ops, stage, tail, crashes, panicked>>

\* Mutant: end_op() does not wake those who wait for log space.
EndOpNoWakeup(p) ==
    /\ Up /\ pc[p] = "op"
    /\ outstanding' = outstanding - 1
    /\ panicked' = committing
    /\ IF outstanding = 1
       THEN /\ committing' = TRUE
            /\ pc' = [pc EXCEPT ![p] = "commit"]
            /\ stage' = IF lh = <<>> THEN "done" ELSE "write_log"
            /\ tail' = 1
       ELSE pc' = [pc EXCEPT ![p] = "idle"] /\ UNCHANGED <<committing, stage, tail>>
    /\ UNCHANGED <<disk, memory, lh, calls, crashes>>

\* end_op(), first critical section: the last call commits, another one wakes
\* those who wait for log space.  (log.committing here would be a panic.)
EndOp(p) ==
    /\ Up /\ pc[p] = "op"
    /\ outstanding' = outstanding - 1
    /\ panicked' = committing
    /\ IF outstanding = 1
       THEN /\ committing' = TRUE
            /\ pc' = [pc EXCEPT ![p] = "commit"]
            /\ stage' = IF lh = <<>> THEN "done" ELSE "write_log"
            /\ tail' = 1
       ELSE pc' = Woken([pc EXCEPT ![p] = "idle"]) /\ UNCHANGED <<committing, stage, tail>>
    /\ UNCHANGED <<disk, memory, lh, calls, crashes>>

-----------------------------------------------------------------------------
(* commit() and recover_from_log(): one disk write per step. *)

\* write_log(): the next logged block goes from the cache to the log.
WriteLog ==
    /\ stage = "write_log"
    /\ dlog' = [dlog EXCEPT ![tail] = buf[lh[tail]]]
    /\ IF tail < Len(lh)
       THEN tail' = tail + 1 /\ UNCHANGED stage
       ELSE tail' = 1 /\ stage' = "write_head"
    /\ UNCHANGED <<home, dhead, memory, lh, header, pc, calls, crashes, panicked>>

\* Mutant: commit() erases the transaction before it is installed.
WriteHeadErases ==
    /\ stage = "write_head"
    /\ dhead' = <<>>
    /\ stage' = "install"
    /\ UNCHANGED <<home, dlog, memory, lh, header, pc, calls, tail, crashes, panicked>>

\* write_head(): the commit point.
WriteHead ==
    /\ stage = "write_head"
    /\ dhead' = lh
    /\ stage' = "install"
    /\ UNCHANGED <<home, dlog, memory, lh, header, pc, calls, tail, crashes, panicked>>

\* install_trans(): the next logged block goes from the log to its home, by way
\* of its buffer, which is clean again after the write.
Install ==
    /\ stage = "install"
    /\ home' = [home EXCEPT ![lh[tail]] = dlog[tail]]
    /\ buf' = [buf EXCEPT ![lh[tail]] = dlog[tail]]
    /\ dirty' = dirty \ {lh[tail]}
    /\ IF tail < Len(lh)
       THEN tail' = tail + 1 /\ UNCHANGED stage
       ELSE tail' = 0 /\ stage' = "erase"
    /\ UNCHANGED <<dlog, dhead, lh, header, pc, calls, crashes, panicked>>

\* log.lh.n = 0 and the second write_head(): the transaction is erased.
Erase ==
    /\ stage = "erase"
    /\ lh' = <<>> /\ dhead' = <<>>
    /\ stage' = IF committing THEN "done" ELSE "none"
    /\ UNCHANGED <<home, dlog, memory, header, pc, calls, tail, crashes, panicked>>

\* Mutant: end_op() does not wake those who wait for the commit.
CommitDoneNoWakeup(p) ==
    /\ ~panicked /\ stage = "done" /\ pc[p] = "commit"
    /\ committing' = FALSE
    /\ pc' = [pc EXCEPT ![p] = "idle"]
    /\ stage' = "none" /\ tail' = 0
    /\ UNCHANGED <<disk, memory, lh, outstanding, calls, crashes, panicked>>

\* end_op(), second critical section.
CommitDone(p) ==
    /\ ~panicked /\ stage = "done" /\ pc[p] = "commit"
    /\ committing' = FALSE
    /\ pc' = Woken([pc EXCEPT ![p] = "idle"])
    /\ stage' = "none" /\ tail' = 0
    /\ UNCHANGED <<disk, memory, lh, outstanding, calls, crashes, panicked>>

\* The machine stops; memory is lost; initlog() will run again.
Crash ==
    /\ crashes < MaxCrashes
    /\ crashes' = crashes + 1
    /\ buf' = home /\ dirty' = {}
    /\ lh' = <<>> /\ outstanding' = 0 /\ committing' = FALSE
    /\ pc' = [p \in Procs |-> "idle"] /\ wrote' = [p \in Procs |-> {}]
    /\ blk' = [p \in Procs |-> 0]
    /\ stage' = "read_head" /\ tail' = 0 /\ panicked' = FALSE
    /\ UNCHANGED <<disk, op, ops>>

\* read_head(); recovery then installs and erases like a commit.
ReadHead ==
    /\ stage = "read_head"
    /\ lh' = dhead
    /\ IF dhead = <<>>
       THEN stage' = "erase" /\ tail' = 0
       ELSE stage' = "install" /\ tail' = 1
    /\ UNCHANGED <<disk, memory, header, pc, calls, crashes, panicked>>

\* bget() recycles the buffer of b, and bread() reads the block again.
Evict(b) ==
    /\ ~panicked
    /\ b \notin dirty /\ \A p \in Procs : blk[p] # b
    /\ buf' = [buf EXCEPT ![b] = home[b]]
    /\ UNCHANGED <<disk, dirty, lh, header, pc, calls, stage, tail, crashes, panicked>>

-----------------------------------------------------------------------------

Committer == ~panicked /\ (WriteLog \/ WriteHead \/ Install \/ Erase \/ ReadHead)

Next ==
    \/ \E p \in Procs : Call(p) \/ BeginOp(p) \/ Kill(p) \/ EndOp(p) \/ CommitDone(p)
    \/ \E p \in Procs : LogWrite(p) \/ \E b \in Blocks : LogWriteTest(p, b)
    \/ Committer \/ Crash
    \/ \E b \in Blocks : Evict(b)

Spec == Init /\ [][Next]_vars

\* The kernel keeps running, and a call, once begun, makes finitely many writes
\* and then ends: EndOp is enabled again and again while it writes.
Fairness ==
    /\ WF_vars(Committer)
    /\ \A p \in Procs : /\ WF_vars(CommitDone(p)) /\ WF_vars(BeginOp(p))
                        /\ WF_vars(LogWrite(p)) /\ SF_vars(EndOp(p))

FairSpec == Spec /\ Fairness

-----------------------------------------------------------------------------

TypeOK ==
    /\ home \in [Blocks -> Vals] /\ dlog \in [1..(NLOG - 1) -> Vals] /\ buf \in [Blocks -> Vals]
    /\ dhead \in Seq(Blocks) /\ lh \in Seq(Blocks)
    /\ dirty \subseteq Blocks
    /\ outstanding \in Nat /\ committing \in BOOLEAN
    /\ pc \in [Procs -> {"idle", "begin", "asleep", "op", "log_write", "commit"}]
    /\ op \in [Procs -> Vals] /\ wrote \in [Procs -> SUBSET Blocks]
    /\ blk \in [Procs -> Blocks \cup {0}]
    /\ stage \in Stages /\ tail \in Nat
    /\ ops \in 0..MaxOps /\ crashes \in 0..MaxCrashes /\ panicked \in BOOLEAN

\* The calls between begin_op() and end_op(), and the blocks each has written.
Active == {p \in Procs : pc[p] \in {"op", "log_write"}}
Written == {x \in Active \X Blocks : x[2] \in wrote[x[1]]}

\* What the disk holds once recovery has replayed the log on it.
Recovered ==
    [b \in Blocks |-> IF \E i \in 1..Len(dhead) : dhead[i] = b
                      THEN dlog[CHOOSE i \in 1..Len(dhead) : dhead[i] = b]
                      ELSE home[b]]

Recovering == stage = "read_head" \/ (stage \in {"install", "erase"} /\ ~committing)

Trans == INSTANCE Transactions WITH
    cur <- IF Recovering THEN Recovered ELSE buf,
    stable <- Recovered,
    active <- Active

\* The log implements atomic transactions: wherever the machine crashes, also
\* during recovery, what recovery finds is the state of the last commit, with
\* no call's writes torn; and no buffer loses what a call wrote.
ImplementsTransactions == Trans!Spec

\* What the calls under way may still write of their MAXOPBLOCKS blocks fits
\* LOGSIZE beside what the log holds, and no call is under way during a commit.
Reservation ==
    /\ outstanding = Cardinality(Active)
    /\ committing => Active = {}
    /\ Len(lh) + outstanding * MAXOPBLOCKS <= LOGSIZE + Cardinality(Written)

\* begin_op()'s reservation holds and is enough: neither log_write(), whose own
\* test is stricter by one block on mkfs's disk and comes before it absorbs, nor
\* end_op() ever panics.
SpaceReserved == Reservation /\ ~panicked

\* A call that waits in begin_op() is admitted, or the machine crashes first.
CallAdmitted ==
    \A p \in Procs : pc[p] \in {"begin", "asleep"} ~> pc[p] \in {"op", "idle"}

=============================================================================
