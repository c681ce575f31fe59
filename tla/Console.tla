------------------------------ MODULE Console ------------------------------
(***************************************************************************)
(* Console input: consoleintr(), consoleread() and consolewrite() of       *)
(* console.c, on CPUs that the keyboard interrupts.                        *)
(*                                                                         *)
(* Every process has a CPU of its own; the keyboard interrupts CPU 0 when  *)
(* its interrupts are on, whatever that CPU executes, and the handler runs *)
(* there to its end.  The processes and the handler take cons.lock as      *)
(* module Spinlock says.  sleep() gives cons.lock up atomically (module    *)
(* Pipe has its two locks); the CPU of a sleeping process idles in         *)
(* scheduler() with interrupts on.  A process inside a call is never       *)
(* marked killed (theorem KilledNeverServedHolds of ProcProofs).           *)
(*                                                                         *)
(* What is shown on the screen is left out.                                *)
(***************************************************************************)
EXTENDS Spinlock, Naturals, Sequences, FiniteSets

CONSTANTS
    Procs,          \* the processes; process p runs on CPU p
    INPUT_BUF,      \* the size of the ring
    WRAP,           \* how many values an unsigned counter has (2^32)
    Keys,           \* what is typed
    MaxKeys,        \* bound: how many typed keys the device keeps
    Sizes           \* how many bytes are read at a time

ASSUME ConsoleAssumption ==
    /\ Procs = CPUs /\ 0 \in CPUs /\ CPUs \subseteq Nat /\ "cons" \in Locks
    /\ INPUT_BUF \in Nat \ {0} /\ WRAP \in Nat /\ WRAP > INPUT_BUF /\ WRAP % INPUT_BUF = 0
    /\ Sizes \subseteq Nat \ {0} /\ MaxKeys \in Nat
    /\ Keys \subseteq {"a", "b", "nl", "cr", "eof", "nul", "erase", "kill", "dump"}

Chars == (Keys \ {"cr", "nul", "erase", "kill", "dump"}) \cup {"nl"}

VARIABLES
    buf, r, w, e,       \* input
    keys,               \* the keys the device has for getc()
    hpc, dump,          \* the handler on CPU 0, and its doprocdump
    pc,                 \* where p is, see TypeOK
    call, n, target     \* the call p makes, and the locals of consoleread()

input == <<buf, r, w, e>>
handler == <<keys, hpc, dump>>
locals == <<call, n, target>>
vars == <<cli, lkcpu, panicked, buf, r, w, e, keys, hpc, dump, pc, call, n, target>>

Init ==
    /\ SpinInit
    /\ buf = [i \in 0..(INPUT_BUF - 1) |-> "nl"] /\ r = 0 /\ w = 0 /\ e = 0
    /\ keys = <<>> /\ hpc = "none" /\ dump = FALSE
    /\ pc = [p \in Procs |-> "user"] /\ call = [p \in Procs |-> "none"]
    /\ n = [p \in Procs |-> 0] /\ target = [p \in Procs |-> 0]

Inc(x) == (x + 1) % WRAP
Dec(x) == (x + WRAP - 1) % WRAP
At(x) == buf[x % INPUT_BUF]
Between(x, y) == (y + WRAP - x) % WRAP

\* CPU p executes its process and not the interrupt handler.
Runs(p) == p = 0 => hpc = "none"

-----------------------------------------------------------------------------
(* The keyboard and consoleintr(). *)

Press(k) ==
    /\ Len(keys) < MaxKeys
    /\ keys' = Append(keys, k)
    /\ UNCHANGED <<spinVars, input, hpc, dump, pc, locals>>

\* The CPU takes the interrupt, which turns interrupts off, and the handler
\* calls acquire().
Interrupt ==
    /\ keys # <<>> /\ cli[0].fl /\ hpc = "none"
    /\ hpc' = "spin" /\ dump' = FALSE
    /\ cli' = [cli EXCEPT ![0] = Popped(Pushed(Pushed([@ EXCEPT !.fl = FALSE])))]
    /\ panicked' = (panicked \/ Holding(0, "cons"))
    /\ UNCHANGED <<lkcpu, input, keys, pc, locals>>

HandlerXchg ==
    /\ hpc = "spin" /\ Xchg(0, "cons")
    /\ hpc' = "in"
    /\ UNCHANGED <<input, keys, dump, pc, locals>>

InHandler(K) == hpc = "in" /\ keys # <<>> /\ Head(keys) \in K /\ keys' = Tail(keys)

\* Control-P
KeyDump ==
    /\ InHandler({"dump"}) /\ dump' = TRUE
    /\ UNCHANGED <<spinVars, input, hpc, pc, locals>>

\* Control-U: back to w, or to the end of a line.
KilledTo ==
    CHOOSE x \in 0..(WRAP - 1) :
      /\ Between(w, x) <= Between(w, e)
      /\ x = w \/ At(Dec(x)) = "nl"
      /\ \A y \in 0..(WRAP - 1) : Between(w, x) < Between(w, y) /\ Between(w, y) <= Between(w, e)
           => At(Dec(y)) # "nl"
KeyKill ==
    /\ InHandler({"kill"})
    /\ e' = KilledTo
    /\ UNCHANGED <<spinVars, buf, r, w, hpc, dump, pc, locals>>

KeyErase ==
    /\ InHandler({"erase"})
    /\ e' = IF e = w THEN e ELSE Dec(e)
    /\ UNCHANGED <<spinVars, buf, r, w, hpc, dump, pc, locals>>

\* Mutant: the ring takes a character more.
RoomOffByOne == Between(r, e) <= INPUT_BUF

Room == Between(r, e) < INPUT_BUF

Stored(k) == IF k = "cr" THEN "nl" ELSE k
Enters(k) == k \in {"nl", "eof"} \/ Inc(e) = (r + INPUT_BUF) % WRAP

\* Mutant: consoleintr() wakes readers only for a newline.
WokenForNewline(k) ==
    [p \in Procs |-> IF pc[p] = "asleep" /\ k = "nl" THEN "wake" ELSE pc[p]]

\* wakeup(&input.r) when the line is entered.
WokenBy(k) == [p \in Procs |-> IF pc[p] = "asleep" /\ Enters(k) THEN "wake" ELSE pc[p]]

KeyChar ==
    /\ InHandler(Chars \cup {"cr"}) /\ Room
    /\ LET k == Stored(Head(keys)) IN
         /\ buf' = [buf EXCEPT ![e % INPUT_BUF] = k]
         /\ e' = Inc(e)
         /\ w' = IF Enters(k) THEN e' ELSE w
         /\ pc' = WokenBy(k)
    /\ UNCHANGED <<spinVars, r, hpc, dump, locals>>

\* A zero, or a full ring: the key is dropped.
KeyDropped ==
    /\ InHandler(Keys \ {"dump", "kill", "erase"})
    /\ Head(keys) = "nul" \/ ~Room
    /\ UNCHANGED <<spinVars, input, hpc, dump, pc, locals>>

\* No more keys: the lock is released before procdump().
AfterKeys ==
    /\ Release(0, "cons")
    /\ hpc' = IF dump THEN "procdump" ELSE "iret"

HandlerDone ==
    /\ hpc = "in" /\ keys = <<>> /\ AfterKeys
    /\ UNCHANGED <<input, keys, dump, pc, locals>>

\* procdump() prints with cprintf(), which takes cons.lock.
ProcDump ==
    /\ \/ hpc = "procdump" /\ Acquire(0, "cons") /\ hpc' = "dumpspin"
       \/ hpc = "dumpspin" /\ Xchg(0, "cons") /\ hpc' = "dumping"
       \/ hpc = "dumping" /\ Release(0, "cons") /\ hpc' = "iret"
    /\ UNCHANGED <<input, keys, dump, pc, locals>>

\* trapret restores the flags.
Iret ==
    /\ hpc = "iret" /\ hpc' = "none" /\ dump' = FALSE
    /\ cli' = [cli EXCEPT ![0].fl = TRUE]
    /\ UNCHANGED <<lkcpu, panicked, input, keys, pc, locals>>

Handler ==
    \/ Interrupt \/ HandlerXchg \/ HandlerDone \/ ProcDump \/ Iret
    \/ KeyDump \/ KeyKill \/ KeyErase \/ KeyChar \/ KeyDropped

-----------------------------------------------------------------------------
(* consoleread() and consolewrite(). *)

Goto(p, l) == pc' = [pc EXCEPT ![p] = l]

\* Up to the loop of acquire(&cons.lock).
Read(p, k) ==
    /\ Runs(p) /\ pc[p] = "user" /\ Acquire(p, "cons") /\ Goto(p, "spin")
    /\ call' = [call EXCEPT ![p] = "read"]
    /\ n' = [n EXCEPT ![p] = k] /\ target' = [target EXCEPT ![p] = k]
    /\ UNCHANGED <<input, handler>>

Write(p) ==
    /\ Runs(p) /\ pc[p] = "user" /\ Acquire(p, "cons") /\ Goto(p, "spin")
    /\ call' = [call EXCEPT ![p] = "write"]
    /\ UNCHANGED <<input, handler, n, target>>

\* sleep() after a wakeup: acquire(lk).
Wake(p) ==
    /\ Runs(p) /\ pc[p] = "wake" /\ Acquire(p, "cons") /\ Goto(p, "spin")
    /\ UNCHANGED <<input, handler, locals>>

Spin(p) ==
    /\ Runs(p) /\ pc[p] = "spin" /\ Xchg(p, "cons") /\ Goto(p, "in")
    /\ UNCHANGED <<input, handler, locals>>

\* The call ends and the lock is released.
Leave(p) ==
    /\ Release(p, "cons") /\ Goto(p, "user")
    /\ call' = [call EXCEPT ![p] = "none"]
    /\ n' = [n EXCEPT ![p] = 0] /\ target' = [target EXCEPT ![p] = 0]

WriteDone(p) ==
    /\ Runs(p) /\ pc[p] = "in" /\ call[p] = "write"
    /\ Leave(p)
    /\ UNCHANGED <<input, handler>>

InRead(p) == Runs(p) /\ pc[p] = "in" /\ call[p] = "read"

ReadSleep(p) ==
    /\ InRead(p) /\ r = w
    /\ Release(p, "cons") /\ Goto(p, "asleep")
    /\ UNCHANGED <<input, handler, locals>>

ReadChar(p) ==
    /\ InRead(p) /\ r # w /\ At(r) # "eof"
    /\ r' = Inc(r)
    /\ IF n[p] = 1 \/ At(r) = "nl"
       THEN Leave(p)
       ELSE n' = [n EXCEPT ![p] = @ - 1] /\ UNCHANGED <<spinVars, pc, call, target>>
    /\ UNCHANGED <<buf, w, e, handler>>

\* The end of file stays in the ring if the read has some characters already.
EofSaved(p) == n[p] < target[p]

ReadEof(p) ==
    /\ InRead(p) /\ r # w /\ At(r) = "eof"
    /\ r' = IF EofSaved(p) THEN r ELSE Inc(r)
    /\ Leave(p)
    /\ UNCHANGED <<buf, w, e, handler>>

\* kill() wakes a reader; killed is not set, and the loop sleeps again.
KillReader(p) ==
    /\ pc[p] = "asleep" /\ Goto(p, "wake")
    /\ UNCHANGED <<spinVars, input, handler, locals>>

Step(p) ==
    Wake(p) \/ Spin(p) \/ WriteDone(p) \/ ReadSleep(p) \/ ReadChar(p) \/ ReadEof(p)

-----------------------------------------------------------------------------

Next ==
    \/ \E k \in Keys : Press(k)
    \/ Handler
    \/ \E p \in Procs :
         \/ Write(p) \/ KillReader(p) \/ Step(p)
         \/ \E k \in Sizes : Read(p, k)

Spec == Init /\ [][Next]_vars

\* Kernel code keeps executing, a CPU that spins on cons.lock gets it
\* eventually, and keys do not come faster than the handler takes them for
\* ever.  Nothing is assumed of the programs, and nobody has to type.
FairSpec ==
    /\ Spec /\ SF_vars(Handler) /\ SF_vars(HandlerDone)
    /\ \A p \in Procs : SF_vars(Step(p))

-----------------------------------------------------------------------------

TypeOK ==
    /\ cli \in [CPUs -> [fl : BOOLEAN, ncli : 0..3, intena : BOOLEAN]]
    /\ lkcpu \in [Locks -> CPUs \cup {NOCPU}] /\ panicked \in BOOLEAN
    /\ buf \in [0..(INPUT_BUF - 1) -> Chars] /\ {r, w, e} \subseteq 0..(WRAP - 1)
    /\ keys \in Seq(Keys) /\ dump \in BOOLEAN
    /\ hpc \in {"none", "spin", "in", "procdump", "dumpspin", "dumping", "iret"}
    /\ pc \in [Procs -> {"user", "spin", "in", "asleep", "wake"}]
    /\ call \in [Procs -> {"none", "read", "write"}]
    /\ n \in [Procs -> Nat] /\ target \in [Procs -> Sizes \cup {0}]
    /\ \A p \in Procs : n[p] <= target[p]

Segment(x, y) == [i \in 1..Between(x, y) |-> At((x + i - 1) % WRAP)]

\* What the ring and the calls stand for: the characters entered and not read,
\* the line that is edited, and what each read has got.
Entered == Segment(r, w)
Line == Segment(w, e)
Readers == [p \in Procs |-> IF call[p] # "read" THEN "idle"
                            ELSE IF n[p] = target[p] THEN "empty" ELSE "some"]

Term == INSTANCE Terminal WITH
    queue <- Entered, line <- Line, reader <- Readers, Capacity <- INPUT_BUF

\* The three indices of the ring, which wrap, and the handler that edits while
\* processes read implement a terminal: nothing that was entered is lost,
\* repeated or edited, and a read returns 0 only for an end of file, which ends
\* one read.
ImplementsTerminal == Term!Spec

\* spinlock.c keeps a CPU from waiting for itself: whoever waits for cons.lock
\* waits for another CPU, interrupts are off while a lock is held or waited
\* for, and back on in user mode and in the scheduler.
LocksMaskInterrupts ==
    /\ ~panicked
    /\ \A p \in Procs :
         /\ lkcpu["cons"] = p => ~cli[p].fl
         /\ pc[p] = "spin" => ~cli[p].fl /\ (Runs(p) => lkcpu["cons"] # p)
         /\ Runs(p) /\ pc[p] \in {"user", "asleep", "wake"} => cli[p].fl /\ cli[p].ncli = 0
    /\ hpc \in {"spin", "dumpspin"} => lkcpu["cons"] # 0

\* A read returns when there is something to read, unless other readers take
\* it first: a reader is woken for what is entered, and gets the lock against
\* the keyboard and the other CPUs.
ReaderServed ==
    \A p \in Procs : call[p] = "read" /\ r # w ~> call[p] = "none" \/ r = w

=============================================================================
