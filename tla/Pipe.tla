-------------------------------- MODULE Pipe --------------------------------
(***************************************************************************)
(* A pipe shared by several processes: pipe.c, with the two locks of       *)
(* sleep() and wakeup() (proc.c).  A process holds p->lock except while it *)
(* sleeps; sleep() takes ptable.lock before it gives p->lock up, and       *)
(* wakeup() is called with p->lock and takes ptable.lock.                  *)
(*                                                                         *)
(* A process holds the pipe's ends it has open, and is inside at most one  *)
(* call.  A process inside a call is never marked killed (theorem          *)
(* KilledNeverServedHolds of ProcProofs), so the tests of killed in        *)
(* pipewrite() and piperead() fail; SIGKILL only wakes the sleeper.        *)
(***************************************************************************)
EXTENDS Naturals, FiniteSets

CONSTANTS
    Procs,          \* the processes that share the pipe
    Readers,        \* those that have its read end at first
    Writers,        \* those that have its write end at first
    Bytes,          \* the byte values written
    PIPESIZE,       \* the size of the ring
    WRAP,           \* how many values an unsigned counter has (2^32)
    Sizes           \* the numbers of bytes that are read or written at a time

ASSUME EndsAssumption ==
    /\ Readers \subseteq Procs /\ Writers \subseteq Procs /\ Readers # {} /\ Writers # {}
    /\ "nobody" \notin Procs
ASSUME RingAssumption ==
    /\ PIPESIZE \in Nat \ {0} /\ WRAP \in Nat /\ WRAP > PIPESIZE /\ WRAP % PIPESIZE = 0
    /\ Sizes \subseteq Nat

NOBODY == "nobody"
Slots == 0..(PIPESIZE - 1)
Counters == 0..(WRAP - 1)

VARIABLES
    data, nread, nwrite, readopen, writeopen,   \* struct pipe
    freed,      \* kfree(p) has been called
    lock,       \* who holds p->lock
    ptlock,     \* who holds ptable.lock, inside sleep()
    rd, wr,     \* the processes with the read end, the write end, open
    pc,         \* "idle", "acquire", "in" (with p->lock), "tosleep", "asleep"
    call,       \* the call p makes: "read", "write", "closer" or "closew"
    n, i,       \* the locals of piperead() and pipewrite()
    chan,       \* what p sleeps on: "nread", "nwrite" or "none"
    ret         \* how p's last call ended

ring == <<data, nread, nwrite>>
ends == <<readopen, writeopen, freed, rd, wr>>
locals == <<call, n, i>>
vars == <<data, nread, nwrite, readopen, writeopen, freed, lock, ptlock, rd, wr,
          pc, call, n, i, chan, ret>>

\* After pipealloc(), with the ends handed out by fork() and close().
Init ==
    /\ data \in [Slots -> Bytes] /\ nread = 0 /\ nwrite = 0
    /\ readopen = TRUE /\ writeopen = TRUE /\ freed = FALSE
    /\ lock = NOBODY /\ ptlock = NOBODY
    /\ rd = Readers /\ wr = Writers
    /\ pc = [p \in Procs |-> "idle"] /\ call = [p \in Procs |-> "read"]
    /\ n = [p \in Procs |-> 0] /\ i = [p \in Procs |-> 0]
    /\ chan = [p \in Procs |-> "none"] /\ ret = [p \in Procs |-> "ok"]

-----------------------------------------------------------------------------

Full == nwrite = (nread + PIPESIZE) % WRAP
Empty == nread = nwrite

\* wakeup(&p->nread), wakeup(&p->nwrite): sleepers go on to acquire p->lock.
WokenOn(f, ch) ==
    [p \in Procs |-> IF f[p] = "asleep" /\ chan[p] = ch THEN "acquire" ELSE f[p]]

\* p executes inside its critical section of p->lock, in call c.
In(p, c) == pc[p] = "in" /\ lock = p /\ call[p] = c

-----------------------------------------------------------------------------
(* System calls up to acquire(&p->lock). *)

StartCall(p, c, k) ==
    /\ pc[p] = "idle"
    /\ pc' = [pc EXCEPT ![p] = "acquire"]
    /\ call' = [call EXCEPT ![p] = c]
    /\ n' = [n EXCEPT ![p] = k] /\ i' = [i EXCEPT ![p] = 0]
    /\ ret' = [ret EXCEPT ![p] = "none"]
    /\ UNCHANGED <<ring, readopen, writeopen, freed, lock, ptlock, chan>>

Read(p, k) == p \in rd /\ StartCall(p, "read", k) /\ UNCHANGED <<rd, wr>>

Write(p, k) == p \in wr /\ StartCall(p, "write", k) /\ UNCHANGED <<rd, wr>>

\* close() of the last descriptor for an end calls pipeclose(); of another one
\* it only drops the reference.
CloseRead(p) ==
    /\ p \in rd /\ pc[p] = "idle"
    /\ rd' = rd \ {p} /\ UNCHANGED wr
    /\ IF rd = {p}
       THEN StartCall(p, "closer", 0)
       ELSE UNCHANGED <<ring, readopen, writeopen, freed, lock, ptlock, pc, locals, chan, ret>>

CloseWrite(p) ==
    /\ p \in wr /\ pc[p] = "idle"
    /\ wr' = wr \ {p} /\ UNCHANGED rd
    /\ IF wr = {p}
       THEN StartCall(p, "closew", 0)
       ELSE UNCHANGED <<ring, readopen, writeopen, freed, lock, ptlock, pc, locals, chan, ret>>

\* acquire(&p->lock), at the start of a call or at the end of sleep(), which
\* has cleared p->chan.
Enter(p) ==
    /\ pc[p] = "acquire" /\ lock = NOBODY
    /\ pc' = [pc EXCEPT ![p] = "in"] /\ lock' = p
    /\ chan' = [chan EXCEPT ![p] = "none"]
    /\ UNCHANGED <<ring, ends, ptlock, locals, ret>>

-----------------------------------------------------------------------------
(* sleep() and wakeup(). *)

\* Mutant: sleep() releases lk before it acquires ptable.lock.
SleepOnUnlocked(p, ch, f) ==
    /\ ptlock = NOBODY /\ UNCHANGED ptlock
    /\ lock' = NOBODY
    /\ chan' = [chan EXCEPT ![p] = ch]
    /\ pc' = [f EXCEPT ![p] = "tosleep"]

\* sleep(ch, &p->lock): acquire ptable.lock, release p->lock.
SleepOn(p, ch, f) ==
    /\ ptlock = NOBODY /\ ptlock' = p
    /\ lock' = NOBODY
    /\ chan' = [chan EXCEPT ![p] = ch]
    /\ pc' = [f EXCEPT ![p] = "tosleep"]

\* The rest of sleep(): SLEEPING, and the scheduler releases ptable.lock.
Sleeps(p) ==
    /\ pc[p] = "tosleep" /\ ptlock \in {p, NOBODY}
    /\ pc' = [pc EXCEPT ![p] = "asleep"]
    /\ ptlock' = NOBODY
    /\ UNCHANGED <<ring, ends, lock, locals, chan, ret>>

\* kill() with SIGKILL wakes a sleeper, whatever it waits for.
Kill(p) ==
    /\ pc[p] = "asleep" /\ ptlock = NOBODY
    /\ pc' = [pc EXCEPT ![p] = "acquire"]
    /\ UNCHANGED <<ring, ends, lock, ptlock, locals, chan, ret>>

\* wakeup(ch), release(&p->lock), and p's call returns r.
WakeAndReturn(p, ch, r) ==
    /\ ptlock = NOBODY
    /\ pc' = [WokenOn(pc, ch) EXCEPT ![p] = "idle"]
    /\ lock' = NOBODY
    /\ ret' = [ret EXCEPT ![p] = r]
    /\ UNCHANGED <<ptlock, chan>>

-----------------------------------------------------------------------------
(* pipewrite(). *)

\* Mutant: the ring is taken to be full one byte too late.
WriteByteLate(p, b) ==
    /\ In(p, "write") /\ i[p] < n[p]
    /\ data' = [data EXCEPT ![nwrite % PIPESIZE] = b]
    /\ nwrite' = (nwrite + 1) % WRAP
    /\ i' = [i EXCEPT ![p] = @ + 1]
    /\ UNCHANGED <<nread, ends, lock, ptlock, pc, call, n, chan, ret>>

\* Mutant: the counter does not wrap.
WriteByteNoWrap(p, b) ==
    /\ In(p, "write") /\ i[p] < n[p] /\ ~Full
    /\ data' = [data EXCEPT ![nwrite % PIPESIZE] = b]
    /\ nwrite' = nwrite + 1
    /\ i' = [i EXCEPT ![p] = @ + 1]
    /\ UNCHANGED <<nread, ends, lock, ptlock, pc, call, n, chan, ret>>

WriteByte(p, b) ==
    /\ In(p, "write") /\ i[p] < n[p] /\ ~Full
    /\ data' = [data EXCEPT ![nwrite % PIPESIZE] = b]
    /\ nwrite' = (nwrite + 1) % WRAP
    /\ i' = [i EXCEPT ![p] = @ + 1]
    /\ UNCHANGED <<nread, ends, lock, ptlock, pc, call, n, chan, ret>>

\* The ring is full: wakeup(&p->nread), sleep(&p->nwrite, &p->lock).
WriteSleep(p) ==
    /\ In(p, "write") /\ i[p] < n[p] /\ Full /\ readopen
    /\ SleepOn(p, "nwrite", WokenOn(pc, "nread"))
    /\ UNCHANGED <<ring, ends, locals, ret>>

\* The ring is full and nobody will read: release and return -1.
WriteFails(p) ==
    /\ In(p, "write") /\ i[p] < n[p] /\ Full /\ ~readopen
    /\ pc' = [pc EXCEPT ![p] = "idle"] /\ lock' = NOBODY
    /\ ret' = [ret EXCEPT ![p] = "err"]
    /\ UNCHANGED <<ring, ends, ptlock, locals, chan>>

\* Mutant: pipewrite() does not wake the readers when it is done.
WriteDoneNoWakeup(p) ==
    /\ In(p, "write") /\ i[p] = n[p]
    /\ pc' = [pc EXCEPT ![p] = "idle"] /\ lock' = NOBODY
    /\ ret' = [ret EXCEPT ![p] = "ok"]
    /\ UNCHANGED <<ring, ends, ptlock, locals, chan>>

WriteDone(p) ==
    /\ In(p, "write") /\ i[p] = n[p]
    /\ WakeAndReturn(p, "nread", "ok")
    /\ UNCHANGED <<ring, ends, locals>>

-----------------------------------------------------------------------------
(* piperead(). *)

\* Nothing to read yet.
ReadSleep(p) ==
    /\ In(p, "read") /\ i[p] = 0 /\ Empty /\ writeopen
    /\ SleepOn(p, "nread", pc)
    /\ UNCHANGED <<ring, ends, locals, ret>>

ReadByte(p) ==
    /\ In(p, "read") /\ i[p] < n[p] /\ ~Empty
    /\ nread' = (nread + 1) % WRAP
    /\ i' = [i EXCEPT ![p] = @ + 1]
    /\ UNCHANGED <<data, nwrite, ends, lock, ptlock, pc, call, n, chan, ret>>

\* Enough bytes, or no more: 0 of n > 0 bytes is the end of the file.
ReadDone(p) ==
    /\ In(p, "read")
    /\ i[p] = n[p] \/ Empty
    /\ i[p] > 0 \/ ~Empty \/ ~writeopen
    /\ WakeAndReturn(p, "nwrite", IF i[p] = 0 /\ n[p] > 0 THEN "eof" ELSE "ok")
    /\ UNCHANGED <<ring, ends, locals>>

-----------------------------------------------------------------------------
(* pipeclose(). *)

\* Mutant: pipeclose() frees the pipe when its own end is closed.
MustFreeEither(ro, wo) == ~ro \/ ~wo

\* The pipe is freed by whoever closes the second end.
MustFree(ro, wo) == ~ro /\ ~wo

PipeClose(p) ==
    /\ pc[p] = "in" /\ lock = p /\ call[p] \in {"closer", "closew"}
    /\ readopen' = (readopen /\ call[p] # "closer")
    /\ writeopen' = (writeopen /\ call[p] # "closew")
    /\ WakeAndReturn(p, IF call[p] = "closew" THEN "nread" ELSE "nwrite", "ok")
    /\ freed' = MustFree(readopen', writeopen')
    /\ UNCHANGED <<ring, rd, wr, locals>>

-----------------------------------------------------------------------------

\* What a process does inside its call.
Step(p) ==
    \/ Enter(p) \/ Sleeps(p)
    \/ (\E b \in Bytes : WriteByte(p, b)) \/ WriteSleep(p) \/ WriteFails(p) \/ WriteDone(p)
    \/ ReadSleep(p) \/ ReadByte(p) \/ ReadDone(p)
    \/ PipeClose(p)

Next ==
    \E p \in Procs :
      \/ \E k \in Sizes : Read(p, k) \/ Write(p, k)
      \/ CloseRead(p) \/ CloseWrite(p) \/ Kill(p) \/ Step(p)

Spec == Init /\ [][Next]_vars

\* The kernel's code keeps executing and a CPU that spins on p->lock gets it
\* eventually.  Nothing is assumed of the programs.
FairSpec == Spec /\ \A p \in Procs : SF_vars(Step(p))

-----------------------------------------------------------------------------

TypeOK ==
    /\ data \in [Slots -> Bytes] /\ nread \in Counters /\ nwrite \in Counters
    /\ readopen \in BOOLEAN /\ writeopen \in BOOLEAN /\ freed \in BOOLEAN
    /\ lock \in Procs \cup {NOBODY} /\ ptlock \in Procs \cup {NOBODY}
    /\ rd \subseteq Procs /\ wr \subseteq Procs
    /\ pc \in [Procs -> {"idle", "acquire", "in", "tosleep", "asleep"}]
    /\ call \in [Procs -> {"read", "write", "closer", "closew"}]
    /\ n \in [Procs -> Sizes \cup {0}] /\ i \in [Procs -> Nat]
    /\ \A p \in Procs : i[p] <= n[p]
    /\ chan \in [Procs -> {"none", "nread", "nwrite"}]
    /\ ret \in [Procs -> {"none", "ok", "eof", "err"}]

\* How many bytes the ring holds, and which.
Used == (nwrite + WRAP - nread) % WRAP
Contents == [k \in 1..Used |-> data[(nread + k - 1) % PIPESIZE]]

Queue == INSTANCE Fifo WITH queue <- Contents, Capacity <- PIPESIZE

\* The pipe is a bounded FIFO queue although its counters wrap, with several
\* readers and writers: no byte is lost, repeated or overtaken, end of file is
\* reported only when the writers are gone and the ring is drained, and a
\* write fails only when the readers are gone.
ImplementsFifo == Queue!Spec

\* No lost wakeup: outside the critical section, whoever sleeps in the pipe
\* has a reason to.  It needs sleep()'s order of the two locks.
SleepersHaveReason ==
    lock = NOBODY =>
      \A p \in Procs : pc[p] \in {"tosleep", "asleep"} =>
        /\ chan[p] = "nread" => Empty /\ writeopen
        /\ chan[p] = "nwrite" => Full /\ readopen

\* pipeclose() frees the page only when no process is inside a call on the
\* pipe or can make one.
FreedUnused ==
    freed => /\ lock = NOBODY /\ rd = {} /\ wr = {}
             /\ \A p \in Procs : pc[p] = "idle"

\* A read of the only process that still has the read end returns once there is
\* something to read or the last writer has closed its end.
ReadReturns ==
    \A p \in Procs :
      rd = {p} /\ pc[p] # "idle" /\ call[p] = "read" /\ (~Empty \/ ~writeopen)
        ~> pc[p] = "idle"

=============================================================================
