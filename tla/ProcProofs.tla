----------------------------- MODULE ProcProofs -----------------------------
(***************************************************************************)
(* The safety of the process table, proved for every number of slots and   *)
(* processors.  IInv is the inductive invariant: the properties of Proc,   *)
(* and what a step must know about the threads that are not running.       *)
(***************************************************************************)
EXTENDS Proc, TLAPS

\* Who is on which CPU, and who has ptable.lock: RunningOnOneCpu and
\* LockHandoff; a CPU inside scheduler()'s loop holds the lock; and a slot
\* that is free or being set up is on no CPU.
CpuInv ==
    /\ \A p \in Slots : state[p] = "RUNNING" => \E c \in CPUs : proc[c] = p
    /\ \A c, d \in CPUs : proc[c] # NULL /\ proc[c] = proc[d] => c = d
    /\ \A c \in CPUs :
         /\ proc[c] # NULL => state[proc[c]] \notin {"UNUSED", "EMBRYO"}
         /\ proc[c] # NULL /\ state[proc[c]] # "RUNNING" => lock = c
         /\ proc[c] = NULL /\ scan[c] # 0 => lock = c
         /\ proc[c] = NULL /\ lock = c => scan[c] # 0 \/ c \in halted
         /\ proc[c] # NULL /\ lock = c /\ state[proc[c]] = "RUNNING" =>
              intr[proc[c]] \/ pc[proc[c]] \in {"wait", "sleep", "forkret"}

\* A thread that is off its CPU is parked where it will release the lock; a
\* sleeping one is on the channel its wakeup uses.
ThreadInv ==
    \A p \in Slots :
      /\ pc[p] = "none" <=> state[p] \in {"UNUSED", "EMBRYO", "ZOMBIE"}
      /\ pc[p] \in ForkPCs <=> child[p] # NULL
      /\ intr[p] => pc[p] \notin {"none", "forkret", "irqret"}
      /\ state[p] = "RUNNABLE" => intr[p] \/ pc[p] \in {"wait", "sleep", "forkret"}
      /\ state[p] = "SLEEPING" =>
           /\ ~intr[p]
           /\ \/ pc[p] = "wait" /\ chan[p] = p
              \/ pc[p] = "sleep" /\ chan[p] = TICKS

\* An EMBRYO belongs to one fork(); what it has depends on how far that is.
ForkInv ==
    /\ \A q \in Slots : state[q] = "EMBRYO" => \E p \in Slots : child[p] = q
    /\ \A p, r \in Slots : child[p] # NULL /\ child[p] = child[r] => p = r
    /\ \A p \in Slots : child[p] # NULL =>
         /\ state[child[p]] = "EMBRYO"
         /\ kstack[child[p]] <=> pc[p] \in {"forkcopy", "forkrun"}
         /\ parent[child[p]] = IF pc[p] = "forkrun" THEN p ELSE NULL

StackInv ==
    \A q \in Slots :
      /\ state[q] \in Live \cup {"ZOMBIE"} => kstack[q]
      /\ state[q] = "UNUSED" => ~kstack[q]

FamilyInv ==
    /\ FamilyTree
    /\ parent[InitProc] = NULL
    /\ \A q \in Slots : state[q] = "UNUSED" => parent[q] = NULL

PidInv == PidsUnique /\ \A p \in Slots : pid[p] < nextpid

KilledInv ==
    /\ KilledNeverServed
    /\ \A p \in Slots : state[p] \in {"UNUSED", "EMBRYO"} => ~killed[p]

IInv ==
    /\ TypeOK
    /\ CpuInv
    /\ ThreadInv
    /\ ForkInv
    /\ StackInv
    /\ FamilyInv
    /\ PidInv
    /\ KilledInv
    /\ NoLostChildWakeup

-----------------------------------------------------------------------------
(* Frames: a part of IInv is preserved by a step that leaves its variables. *)

USE SizeAssumption, SignalAssumption
    DEF Slots, CPUs, NULL, InitProc, TICKS, States, ForkPCs, KernelPCs, PCs,
        procVars, threadVars, cpuVars, At, Runs, Goto, RetTo, Live

\* CpuInv is about state, proc, scan, lock, halted, intr, pc.
LEMMA FrameCpuInv ==
  CpuInv /\ UNCHANGED <<state, proc, scan, lock, halted, intr, pc>> => CpuInv'
BY DEF CpuInv

\* ThreadInv is about state, pc, child, intr, chan.
LEMMA FrameThreadInv ==
  ThreadInv /\ UNCHANGED <<state, pc, child, intr, chan>> => ThreadInv'
BY DEF ThreadInv

\* ForkInv is about state, child, kstack, pc, parent.
LEMMA FrameForkInv ==
  ForkInv /\ UNCHANGED <<state, child, kstack, pc, parent>> => ForkInv'
BY DEF ForkInv

\* StackInv is about state, kstack.
LEMMA FrameStackInv ==
  StackInv /\ UNCHANGED <<state, kstack>> => StackInv'
BY DEF StackInv

\* FamilyInv is about state, parent.
LEMMA FrameFamilyInv ==
  FamilyInv /\ UNCHANGED <<state, parent>> => FamilyInv'
BY DEF FamilyInv, FamilyTree

\* PidInv is about pid, nextpid.
LEMMA FramePidInv ==
  PidInv /\ UNCHANGED <<pid, nextpid>> => PidInv'
BY DEF PidInv, PidsUnique

\* KilledInv is about killed, pc, state.
LEMMA FrameKilledInv ==
  KilledInv /\ UNCHANGED <<killed, pc, state>> => KilledInv'
BY DEF KilledInv, KilledNeverServed

\* NoLostChildWakeup is about state, pc, parent.
LEMMA FrameNoLostChildWakeup ==
  NoLostChildWakeup /\ UNCHANGED <<state, pc, parent>> => NoLostChildWakeup'
BY DEF NoLostChildWakeup

-----------------------------------------------------------------------------
(* Steps in which one running thread only moves its program counter. *)

\* A running thread outside fork(), critical sections and interrupts moves to
\* another such place; a killed one does not move into a system call.
LEMMA ThreadMoves ==
  ASSUME IInv, NEW c \in CPUs, NEW p \in Slots,
         NEW where \in {"user", "trapret", "irqret", "exit", "wait", "sleep"},
         Runs(c, p), lock # c, ~intr[p],
         pc[p] \in {"user", "sleep", "trapret", "irqret"},
         pc' = [pc EXCEPT ![p] = where],
         \A q \in Slots \ {p} : killed'[q] = killed[q],
         killed'[p] => where \notin {"wait", "sleep"},
         TypeOK',
         UNCHANGED <<state, pid, parent, chan, kstack, nextpid, lock, cpuVars, intr, child>>
  PROVE  IInv'
<1>1. TypeOK /\ CpuInv /\ ThreadInv /\ ForkInv /\ StackInv
      /\ FamilyInv /\ PidInv /\ KilledInv /\ NoLostChildWakeup
  BY DEF IInv
<1>2. CpuInv'
  BY <1>1 DEF TypeOK, CpuInv
<1>3. ThreadInv' /\ ForkInv'
  BY <1>1 DEF TypeOK, ThreadInv, ForkInv
<1>4. KilledInv'
  BY <1>1 DEF TypeOK, KilledInv, KilledNeverServed
<1>5. NoLostChildWakeup'
  BY <1>1 DEF TypeOK, NoLostChildWakeup
<1>6. StackInv' /\ FamilyInv' /\ PidInv'
  BY <1>1, FrameStackInv, FrameFamilyInv, FramePidInv
<1>7. QED
  BY <1>2, <1>3, <1>4, <1>5, <1>6 DEF IInv

\* The traps and system calls that do not touch the process table.
LEMMA TrapStep ==
  ASSUME IInv, NEW c \in CPUs, NEW p \in Slots,
         \/ KilledAtEntry(c, p) \/ SysExit(c, p) \/ SysWait(c, p) \/ SysSleep(c, p)
         \/ SysOther(c, p) \/ SleepReturns(c, p) \/ UserFault(c, p)
  PROVE  IInv'
<1>1. TypeOK /\ KilledInv
  BY DEF IInv
<1>2. CASE UserFault(c, p)
  <2>1. TypeOK'
    BY <1>1, <1>2 DEF TypeOK, UserFault
  <2>2. QED
    BY <1>1, <1>2, <2>1, ThreadMoves DEF TypeOK, UserFault
<1>3. CASE ~UserFault(c, p)
  <2>1. PICK where \in {"trapret", "exit", "wait", "sleep"} :
          /\ pc' = [pc EXCEPT ![p] = where]
          /\ killed[p] => where \notin {"wait", "sleep"}
    BY <1>3 DEF KilledAtEntry, SysExit, SysWait, SysSleep, SysOther, SleepReturns
  <2>2. /\ Runs(c, p) /\ lock # c /\ ~intr[p] /\ pc[p] \in {"user", "sleep"}
        /\ UNCHANGED <<procVars, nextpid, lock, cpuVars, intr, child, sigi>>
    BY <1>3 DEF KilledAtEntry, SysExit, SysWait, SysSleep, SysOther, SleepReturns
  <2>3. TypeOK'
    BY <1>1, <2>1, <2>2 DEF TypeOK
  <2>4. QED
    BY <2>1, <2>2, <2>3, ThreadMoves
<1>4. QED
  BY <1>2, <1>3

\* The signal runner, for one signal and at its end.
LEMMA RunnerStep ==
  ASSUME IInv, NEW c \in CPUs, NEW p \in Slots, RunSignal(c, p) \/ RunnerDone(c, p)
  PROVE  IInv'
<1>1. TypeOK
  BY DEF IInv
<1>2. CASE RunSignal(c, p)
  <2>1. PICK sig \in pending[p] :
          /\ pending' = [pending EXCEPT ![p] = @ \ {sig}]
          /\ sigi' = [sigi EXCEPT ![p] = sig + 1]
          /\ DefaultAction(p, sig)
    BY <1>2 DEF RunSignal
  <2>2. pending[p] \subseteq 0..31
    BY <1>1 DEF TypeOK
  <2>3. pending' \in [Slots -> SUBSET (0..31)]
    BY <1>1, <2>1 DEF TypeOK
  <2>4. sigi' \in [Slots -> 0..32]
    <3>1. sig + 1 \in 0..32
      BY <2>2
    <3>2. QED
      BY <1>1, <2>1, <3>1 DEF TypeOK
  <2>5. TypeOK'
    BY <1>1, <1>2, <2>1, <2>3, <2>4 DEF TypeOK, RunSignal, DefaultAction
  <2>6. pc' = [pc EXCEPT ![p] = pc[p]]
    BY <1>1, <1>2 DEF TypeOK, RunSignal
  <2>7. \A q \in Slots \ {p} : killed'[q] = killed[q]
    BY <1>1, <2>1 DEF TypeOK, DefaultAction
  <2>8. QED
    BY <1>2, <2>5, <2>6, <2>7, ThreadMoves DEF RunSignal, InRunner
<1>3. CASE RunnerDone(c, p)
  <2>1. sigi' \in [Slots -> 0..32]
    BY <1>1, <1>3 DEF TypeOK, RunnerDone
  <2>2. TypeOK'
    BY <1>1, <1>3, <2>1 DEF TypeOK, RunnerDone
  <2>3. QED
    BY <1>1, <1>3, <2>2, ThreadMoves DEF RunnerDone, InRunner
<1>4. QED
  BY <1>2, <1>3

-----------------------------------------------------------------------------
(* Steps that wake sleepers: some SLEEPING processes become RUNNABLE. *)

\* What kill() does to its target, and wakeup1(), is a wakeup.
Wakes(q) == state'[q] = state[q] \/ (state[q] = "SLEEPING" /\ state'[q] = "RUNNABLE")

\* A running thread wakes sleepers and moves its program counter or enters an
\* interrupt, without changing anything else of the table but signals.
LEMMA WakingMoves ==
  ASSUME IInv, NEW c \in CPUs, NEW p \in Slots,
         Runs(c, p), lock # c, ~intr[p],
         \A q \in Slots : Wakes(q),
         \/ state' = state
         \/ lock = NULL,
         \/ /\ pc[p] = "user" /\ intr' = intr
            /\ \/ pc' = [pc EXCEPT ![p] = "trapret"]
               \/ pc' = [pc EXCEPT ![p] = "exit"]
         \/ /\ pc[p] \in KernelPCs \cup {"user"} /\ pc' = pc
            /\ intr' = [intr EXCEPT ![p] = TRUE],
         TypeOK',
         UNCHANGED <<pid, parent, chan, killed, kstack, nextpid, lock, cpuVars, child>>
  PROVE  IInv'
<1>1. TypeOK /\ CpuInv /\ ThreadInv /\ ForkInv /\ StackInv
      /\ FamilyInv /\ PidInv /\ KilledInv /\ NoLostChildWakeup
  BY DEF IInv
<1>2. /\ pc[p] \notin {"none", "forkret", "irqret"}
      /\ \A q \in Slots \ {p} : pc'[q] = pc[q] /\ intr'[q] = intr[q]
      /\ \/ pc[p] = "user" /\ pc'[p] \in {"trapret", "exit"} /\ ~intr'[p]
         \/ pc'[p] = pc[p] /\ intr'[p]
  BY <1>1 DEF TypeOK
<1>3. CpuInv'
  <2>1. ASSUME NEW d \in CPUs, proc[d] # NULL
        PROVE  /\ proc[d] \in Slots
               /\ state'[proc[d]] = "RUNNING" <=> state[proc[d]] = "RUNNING"
               /\ state'[proc[d]] \notin {"UNUSED", "EMBRYO"}
    BY <1>1, <2>1 DEF TypeOK, CpuInv, Wakes
  <2>2. \A q \in Slots : state'[q] = "RUNNING" => \E d \in CPUs : proc[d] = q
    BY <1>1 DEF CpuInv, Wakes
  <2>3. ASSUME NEW d \in CPUs, proc[d] # NULL, lock = d, state'[proc[d]] = "RUNNING"
        PROVE  intr'[proc[d]] \/ pc'[proc[d]] \in {"wait", "sleep", "forkret"}
    <3>1. proc[d] # p
      BY <1>1, <2>3 DEF CpuInv
    <3>2. QED
      BY <1>1, <1>2, <2>1, <2>3, <3>1 DEF CpuInv
  <2>4. QED
    BY <1>1, <2>1, <2>2, <2>3 DEF CpuInv
<1>4. ThreadInv'
  <2>1. ASSUME NEW q \in Slots \ {p}
        PROVE  ThreadInv!(q)'
    BY <1>1, <1>2 DEF ThreadInv, Wakes
  <2>2. ThreadInv!(p)'
    BY <1>1, <1>2 DEF ThreadInv, Wakes
  <2>3. QED
    BY <2>1, <2>2 DEF ThreadInv
<1>5. ForkInv'
  <2>1. \A q \in Slots : state'[q] = "EMBRYO" <=> state[q] = "EMBRYO"
    BY DEF Wakes
  <2>2. \A q \in Slots : child[q] # NULL => pc'[q] = pc[q]
    BY <1>1, <1>2 DEF ThreadInv
  <2>3. QED
    BY <1>1, <2>1, <2>2 DEF TypeOK, ForkInv
<1>6. StackInv' /\ FamilyInv'
  BY <1>1 DEF TypeOK, StackInv, FamilyInv, FamilyTree, Wakes
<1>7. KilledInv'
  BY <1>1, <1>2 DEF TypeOK, KilledInv, KilledNeverServed, Wakes
<1>8. NoLostChildWakeup'
  <2>1. \A q \in Slots : state'[q] = "SLEEPING" => q # p /\ state[q] = "SLEEPING"
    BY DEF Wakes
  <2>2. \A q \in Slots : state'[q] = "ZOMBIE" => state[q] = "ZOMBIE"
    BY DEF Wakes
  <2>3. QED
    BY <1>1, <1>2, <2>1, <2>2 DEF NoLostChildWakeup
<1>9. QED
  BY <1>1, <1>3, <1>4, <1>5, <1>6, <1>7, <1>8, FramePidInv DEF IInv

\* kill() touches only pending_signals and, for SIGKILL, wakes a sleeper.
LEMMA SysKillStep ==
  ASSUME IInv, NEW c \in CPUs, NEW p \in Slots, SysKill(c, p)
  PROVE  IInv'
<1>1. TypeOK
  BY DEF IInv
<1>2. /\ state' \in [Slots -> States]
      /\ pending' \in [Slots -> SUBSET (0..31)]
      /\ \A q \in Slots : Wakes(q)
  <2>1. CASE UNCHANGED <<pending, state>>
    BY <1>1, <2>1 DEF TypeOK, Wakes
  <2>2. CASE \E target \in Targets, sig \in Sent, q \in Slots : Signal(q, sig)
    <3>1. PICK sig \in Sent, q \in Slots : Signal(q, sig)
      BY <2>2
    <3>2. sig \in 0..31
      OBVIOUS
    <3>3. QED
      BY <1>1, <3>1, <3>2 DEF TypeOK, Signal, Wakes
  <2>3. QED
    BY <2>1, <2>2 DEF SysKill
<1>3. TypeOK'
  BY <1>1, <1>2 DEF TypeOK, SysKill
<1>4. QED
  BY <1>1, <1>2, <1>3, WakingMoves DEF SysKill

\* The timer's wakeup(&ticks), when it happens, is a wakeup in the sense of Wakes.
LEMMA TickWakesSleepers ==
  ASSUME TypeOK, NEW c \in CPUs, TickWakes(c)
  PROVE  /\ state' \in [Slots -> States]
         /\ \A q \in Slots : Wakes(q)
         /\ state' = state \/ lock = NULL
BY DEF TypeOK, TickWakes, WokenIn, Wakes

\* A timer interrupt: the sleepers on ticks wake, and the thread is in trap().
LEMMA TimerIntrStep ==
  ASSUME IInv, NEW c \in CPUs, NEW p \in Slots, TimerIntr(c, p)
  PROVE  IInv'
<1>1. TypeOK
  BY DEF IInv
<1>2. /\ state' \in [Slots -> States]
      /\ \A q \in Slots : Wakes(q)
      /\ state' = state \/ lock = NULL
  BY <1>1, TickWakesSleepers DEF TimerIntr
<1>3. TypeOK'
  BY <1>1, <1>2 DEF TypeOK, TimerIntr
<1>4. QED
  <2>1. CASE MustExit(p)
    BY <1>1, <1>2, <1>3, <2>1, WakingMoves DEF TimerIntr, Interruptible, MustExit
  <2>2. CASE ~MustExit(p)
    BY <1>1, <1>2, <1>3, <2>2, WakingMoves DEF TimerIntr, Interruptible
  <2>3. QED
    BY <2>1, <2>2

\* On an idle CPU there is no thread to move.
LEMMA IdleTickStep ==
  ASSUME IInv, NEW c \in CPUs, IdleTick(c)
  PROVE  IInv'
<1>1. TypeOK /\ CpuInv /\ ThreadInv /\ ForkInv /\ StackInv
      /\ FamilyInv /\ PidInv /\ KilledInv /\ NoLostChildWakeup
  BY DEF IInv
<1>2. /\ state' \in [Slots -> States]
      /\ \A q \in Slots : Wakes(q)
      /\ state' = state \/ lock = NULL
      /\ UNCHANGED <<pid, parent, chan, killed, freeze, pending, kstack,
                     nextpid, lock, cpuVars, threadVars>>
  BY <1>1, TickWakesSleepers DEF IdleTick
<1>3. TypeOK'
  BY <1>1, <1>2 DEF TypeOK
<1>4. CpuInv'
  <2>1. ASSUME NEW d \in CPUs, proc[d] # NULL
        PROVE  /\ proc[d] \in Slots
               /\ state'[proc[d]] = "RUNNING" <=> state[proc[d]] = "RUNNING"
               /\ state'[proc[d]] \notin {"UNUSED", "EMBRYO"}
    BY <1>1, <1>2, <2>1 DEF TypeOK, CpuInv, Wakes
  <2>2. \A q \in Slots : state'[q] = "RUNNING" => \E d \in CPUs : proc[d] = q
    BY <1>1, <1>2 DEF CpuInv, Wakes
  <2>3. QED
    BY <1>1, <1>2, <2>1, <2>2 DEF CpuInv
<1>5. ThreadInv'
  BY <1>1, <1>2 DEF TypeOK, ThreadInv, Wakes
<1>6. ForkInv'
  <2>1. \A q \in Slots : state'[q] = "EMBRYO" <=> state[q] = "EMBRYO"
    BY <1>2 DEF Wakes
  <2>2. QED
    BY <1>1, <1>2, <2>1 DEF TypeOK, ForkInv
<1>7. StackInv' /\ FamilyInv'
  BY <1>1, <1>2 DEF TypeOK, StackInv, FamilyInv, FamilyTree, Wakes
<1>8. KilledInv' /\ NoLostChildWakeup'
  BY <1>1, <1>2 DEF TypeOK, KilledInv, KilledNeverServed, NoLostChildWakeup, Wakes
<1>9. QED
  BY <1>1, <1>2, <1>3, <1>4, <1>5, <1>6, <1>7, <1>8, FramePidInv DEF IInv

-----------------------------------------------------------------------------
(* fork(). *)

\* The child of a fork() in progress is an idle EMBRYO that no other fork() owns.
LEMMA Forking ==
  ASSUME IInv, NEW p \in Slots, pc[p] \in ForkPCs
  PROVE  /\ child[p] \in Slots \ {p}
         /\ state[child[p]] = "EMBRYO" /\ pc[child[p]] = "none"
         /\ ~intr[child[p]] /\ ~killed[child[p]] /\ child[child[p]] = NULL
         /\ \A c \in CPUs : proc[c] # child[p]
         /\ \A r \in Slots \ {p} : child[r] # child[p]
<1>1. TypeOK /\ CpuInv /\ ThreadInv /\ ForkInv /\ KilledInv
  BY DEF IInv
<1>2. child[p] \in Slots /\ state[child[p]] = "EMBRYO"
  BY <1>1 DEF TypeOK, ThreadInv, ForkInv
<1>3. pc[child[p]] = "none"
  BY <1>1, <1>2 DEF ThreadInv
<1>4. ~intr[child[p]] /\ ~killed[child[p]] /\ child[child[p]] = NULL
  BY <1>1, <1>2, <1>3 DEF TypeOK, ThreadInv, KilledInv
<1>5. \A c \in CPUs : proc[c] # child[p]
  BY <1>1, <1>2 DEF CpuInv
<1>6. \A r \in Slots \ {p} : child[r] # child[p]
  BY <1>1, <1>2 DEF ForkInv
<1>7. QED
  BY <1>2, <1>3, <1>4, <1>5, <1>6

\* allocproc() takes an UNUSED slot, or fork() fails for want of one.
LEMMA AllocProcStep ==
  ASSUME IInv, NEW c \in CPUs, NEW p \in Slots, AllocProc(c, p)
  PROVE  IInv'
<1>1. TypeOK /\ CpuInv /\ ThreadInv /\ ForkInv /\ StackInv
      /\ FamilyInv /\ PidInv /\ KilledInv /\ NoLostChildWakeup
  BY DEF IInv
<1>2. CASE UNCHANGED <<state, child>>
  <2>1. pc' = [pc EXCEPT ![p] = "trapret"]
    BY <1>1, <1>2 DEF AllocProc, TypeOK
  <2>2. TypeOK'
    BY <1>1, <1>2, <2>1 DEF TypeOK, AllocProc
  <2>3. QED
    BY <1>2, <2>1, <2>2, ThreadMoves DEF AllocProc
<1>3. CASE \E np \in Slots :
             /\ state[np] = "UNUSED"
             /\ state' = [state EXCEPT ![np] = "EMBRYO"]
             /\ child' = [child EXCEPT ![p] = np]
             /\ Goto(p, "forkpid")
  <2>1. PICK np \in Slots :
          /\ state[np] = "UNUSED"
          /\ state' = [state EXCEPT ![np] = "EMBRYO"]
          /\ child' = [child EXCEPT ![p] = np]
          /\ Goto(p, "forkpid")
    BY <1>3
  <2>2. /\ Runs(c, p) /\ lock = NULL /\ ~intr[p] /\ pc[p] = "user" /\ ~killed[p]
        /\ UNCHANGED <<pid, parent, chan, killed, freeze, pending, kstack,
                       nextpid, lock, cpuVars, intr, sigi>>
    BY DEF AllocProc
  <2>3. TypeOK'
    BY <1>1, <2>1, <2>2 DEF TypeOK
  <2>4. CpuInv'
    BY <1>1, <2>1, <2>2 DEF TypeOK, CpuInv
  <2>5. ThreadInv'
    BY <1>1, <2>1, <2>2 DEF TypeOK, ThreadInv
  <2>6. ForkInv'
    <3>1. \A r \in Slots : child[r] # np
      BY <1>1, <2>1 DEF ForkInv
    <3>2. ~kstack[np] /\ parent[np] = NULL
      BY <1>1, <2>1 DEF StackInv, FamilyInv
    <3>3. child[p] = NULL /\ np # p
      BY <1>1, <2>1, <2>2 DEF TypeOK, ThreadInv
    <3>4. \A r \in Slots \ {p} : child'[r] = child[r] /\ pc'[r] = pc[r]
      BY <1>1, <2>1 DEF TypeOK
    <3>5. child'[p] = np /\ pc'[p] = "forkpid"
      BY <1>1, <2>1 DEF TypeOK
    <3>6. \A q \in Slots \ {np} : state'[q] = state[q]
      BY <1>1, <2>1 DEF TypeOK
    <3>7. state'[np] = "EMBRYO"
      BY <1>1, <2>1 DEF TypeOK
    <3>8. \A q \in Slots : state'[q] = "EMBRYO" => \E r \in Slots : child'[r] = q
      BY <1>1, <3>3, <3>4, <3>5, <3>6 DEF ForkInv
    <3>9. \A r, t \in Slots : child'[r] # NULL /\ child'[r] = child'[t] => r = t
      BY <1>1, <3>1, <3>4, <3>5 DEF ForkInv
    <3>10. ASSUME NEW r \in Slots \ {p}, child'[r] # NULL
           PROVE  /\ state'[child'[r]] = "EMBRYO"
                  /\ kstack'[child'[r]] <=> pc'[r] \in {"forkcopy", "forkrun"}
                  /\ parent'[child'[r]] = IF pc'[r] = "forkrun" THEN r ELSE NULL
      BY <1>1, <2>2, <3>1, <3>4, <3>6, <3>10 DEF TypeOK, ForkInv
    <3>11. QED
      BY <2>2, <3>2, <3>5, <3>7, <3>8, <3>9, <3>10 DEF ForkInv
  <2>7. StackInv'
    BY <1>1, <2>1, <2>2 DEF TypeOK, StackInv
  <2>8. FamilyInv'
    BY <1>1, <2>1, <2>2 DEF TypeOK, FamilyInv, FamilyTree
  <2>9. KilledInv'
    BY <1>1, <2>1, <2>2 DEF TypeOK, KilledInv, KilledNeverServed
  <2>10. NoLostChildWakeup'
    BY <1>1, <2>1, <2>2 DEF TypeOK, NoLostChildWakeup
  <2>11. QED
    BY <1>1, <2>2, <2>3, <2>4, <2>5, <2>6, <2>7, <2>8, <2>9, <2>10, FramePidInv DEF IInv
<1>4. QED
  BY <1>2, <1>3 DEF AllocProc

\* The new pid is above every other one.
LEMMA AllocPidStep ==
  ASSUME IInv, NEW c \in CPUs, NEW p \in Slots, AllocPid(c, p)
  PROVE  IInv'
<1>1. TypeOK /\ CpuInv /\ ThreadInv /\ ForkInv /\ StackInv
      /\ FamilyInv /\ PidInv /\ KilledInv /\ NoLostChildWakeup
  BY DEF IInv
<1>2. child[p] \in Slots
  BY Forking DEF AllocPid
<1>3. TypeOK'
  <2>1. nextpid \in Nat /\ nextpid' \in Nat
    BY <1>1 DEF TypeOK, AllocPid
  <2>2. pid' \in [Slots -> Nat]
    BY <1>1, <1>2, <2>1 DEF TypeOK, AllocPid
  <2>3. QED
    BY <1>1, <2>1, <2>2 DEF TypeOK, AllocPid
<1>4. CpuInv'
  BY <1>1 DEF AllocPid, TypeOK, CpuInv
<1>5. ThreadInv' /\ ForkInv'
  <2>1. ThreadInv'
    BY <1>1 DEF AllocPid, TypeOK, ThreadInv
  <2>2. ForkInv'
    BY <1>1 DEF AllocPid, TypeOK, ForkInv
  <2>3. QED
    BY <2>1, <2>2
<1>6. PidInv'
  <2>1. /\ \A q \in Slots \ {child[p]} : pid'[q] = pid[q]
        /\ pid'[child[p]] = nextpid /\ nextpid' = nextpid + 1 /\ nextpid \in Nat
        /\ \A q \in Slots : pid[q] \in Nat /\ pid[q] < nextpid
    BY <1>1, <1>2 DEF AllocPid, TypeOK, PidInv
  <2>2. PidsUnique'
    BY <1>1, <2>1 DEF PidInv, PidsUnique
  <2>3. QED
    BY <2>1, <2>2 DEF PidInv
<1>7. KilledInv' /\ NoLostChildWakeup'
  BY <1>1 DEF AllocPid, TypeOK, KilledInv, KilledNeverServed, NoLostChildWakeup
<1>8. StackInv' /\ FamilyInv'
  BY <1>1, FrameStackInv, FrameFamilyInv DEF AllocPid
<1>9. QED
  BY <1>3, <1>4, <1>5, <1>6, <1>7, <1>8 DEF IInv

\* The rest of allocproc() gives the EMBRYO its kernel stack.
LEMMA AllocKstackStep ==
  ASSUME IInv, NEW c \in CPUs, NEW p \in Slots, AllocKstack(c, p)
  PROVE  IInv'
<1>1. TypeOK /\ CpuInv /\ ThreadInv /\ ForkInv /\ StackInv
      /\ FamilyInv /\ PidInv /\ KilledInv /\ NoLostChildWakeup
  BY DEF IInv
<1>2. TypeOK'
  BY <1>1 DEF AllocKstack, TypeOK, ThreadInv
<1>3. CpuInv'
  BY <1>1 DEF AllocKstack, TypeOK, CpuInv, ThreadInv, ForkInv
<1>4. ThreadInv'
  BY <1>1 DEF AllocKstack, TypeOK, ThreadInv, ForkInv
<1>5. ForkInv'
  BY <1>1 DEF AllocKstack, TypeOK, ThreadInv, ForkInv
<1>6. StackInv'
  BY <1>1 DEF AllocKstack, TypeOK, StackInv, ThreadInv, ForkInv
<1>7. KilledInv'
  BY <1>1 DEF AllocKstack, TypeOK, ThreadInv, ForkInv, KilledInv,
       KilledNeverServed
<1>8. NoLostChildWakeup'
  BY <1>1 DEF AllocKstack, TypeOK, ThreadInv, ForkInv, FamilyInv,
       FamilyTree, NoLostChildWakeup
<1>9. FamilyInv' /\ PidInv'
  BY <1>1, FrameFamilyInv, FramePidInv DEF AllocKstack
<1>10. QED
  BY <1>2, <1>3, <1>4, <1>5, <1>6, <1>7, <1>8, <1>9 DEF IInv

\* A failing fork() gives its EMBRYO back.
LEMMA ForkFails ==
  ASSUME IInv, NEW c \in CPUs, NEW p \in Slots, KallocFails(c, p) \/ CopyuvmFails(c, p)
  PROVE  IInv'
<1>1. TypeOK /\ CpuInv /\ ThreadInv /\ ForkInv /\ StackInv
      /\ FamilyInv /\ PidInv /\ KilledInv /\ NoLostChildWakeup
  BY DEF IInv
<1>2. /\ Runs(c, p) /\ lock # c /\ ~intr[p] /\ pc[p] \in {"forkkstack", "forkcopy"}
      /\ state' = [state EXCEPT ![child[p]] = "UNUSED"]
      /\ child' = [child EXCEPT ![p] = NULL]
      /\ pc' = [pc EXCEPT ![p] = "trapret"]
      /\ kstack' = [kstack EXCEPT ![child[p]] = FALSE]
      /\ UNCHANGED <<pid, parent, chan, killed, freeze, pending,
                     nextpid, lock, cpuVars, intr, sigi>>
  <2>1. ~killed[p] \/ pc[p] \notin ForkPCs
    BY <1>1 DEF KilledInv, KilledNeverServed
  <2>2. CASE KallocFails(c, p)
    <3>1. child[p] \in Slots /\ kstack[child[p]] = FALSE
      <4>1. pc[p] = "forkkstack"
        BY <2>2 DEF KallocFails
      <4>2. child[p] \in Slots
        BY <4>1, Forking
      <4>3. kstack[child[p]] \in BOOLEAN
        BY <1>1, <4>2 DEF TypeOK
      <4>4. ~kstack[child[p]]
        BY <1>1, <4>1, <4>2 DEF ForkInv
      <4>5. QED
        BY <4>2, <4>3, <4>4
    <3>2. kstack' = [kstack EXCEPT ![child[p]] = FALSE]
      BY <1>1, <2>2, <3>1 DEF KallocFails, TypeOK
    <3>3. QED
      BY <2>1, <2>2, <3>2 DEF KallocFails
  <2>3. CASE CopyuvmFails(c, p)
    BY <2>1, <2>3 DEF CopyuvmFails
  <2>4. QED
    BY <2>2, <2>3
<1>3. /\ child[p] \in Slots \ {p} /\ state[child[p]] = "EMBRYO" /\ pc[child[p]] = "none"
      /\ \A d \in CPUs : proc[d] # child[p]
      /\ \A r \in Slots \ {p} : child[r] # child[p]
      /\ parent[child[p]] = NULL /\ ~killed[child[p]]
  BY <1>1, <1>2, Forking DEF ForkInv
<1>4. TypeOK'
  BY <1>1, <1>2, <1>3 DEF TypeOK
<1>5. CpuInv'
  <2>1. \A q \in Slots \ {child[p]} : state'[q] = state[q]
    BY <1>1, <1>2 DEF TypeOK
  <2>2. \A q \in Slots \ {p} : pc'[q] = pc[q]
    BY <1>1, <1>2 DEF TypeOK
  <2>3. state'[child[p]] = "UNUSED"
    BY <1>1, <1>2, <1>3 DEF TypeOK
  <2>4. \A d \in CPUs : proc[d] # NULL => state'[proc[d]] = state[proc[d]]
    BY <1>1, <1>3, <2>1 DEF TypeOK
  <2>5. \A d \in CPUs : proc[d] # NULL /\ lock = d => pc'[proc[d]] = pc[proc[d]]
    BY <1>1, <1>2, <2>2 DEF TypeOK, CpuInv
  <2>6. \A q \in Slots : state'[q] = "RUNNING" => \E d \in CPUs : proc[d] = q
    BY <1>1, <2>1, <2>3 DEF CpuInv
  <2>7. UNCHANGED <<proc, scan, lock, halted, intr>>
    BY <1>2
  <2>8. QED
    BY <1>1, <2>4, <2>5, <2>6, <2>7 DEF CpuInv
<1>6. ThreadInv'
  BY <1>1, <1>2, <1>3 DEF TypeOK, ThreadInv
<1>7. ForkInv'
  BY <1>1, <1>2, <1>3 DEF TypeOK, ForkInv
<1>8. StackInv'
  BY <1>1, <1>2, <1>3 DEF TypeOK, StackInv
<1>9. FamilyInv'
  BY <1>1, <1>2, <1>3 DEF TypeOK, FamilyInv, FamilyTree
<1>10. KilledInv'
  BY <1>1, <1>2, <1>3 DEF TypeOK, KilledInv, KilledNeverServed
<1>11. NoLostChildWakeup'
  BY <1>1, <1>2, <1>3 DEF TypeOK, NoLostChildWakeup
<1>12. QED
  BY <1>1, <1>2, <1>4, <1>5, <1>6, <1>7, <1>8, <1>9, <1>10, <1>11, FramePidInv DEF IInv

\* fork() sets the parent of its EMBRYO, which is not in the family yet.
LEMMA CopyProcStep ==
  ASSUME IInv, NEW c \in CPUs, NEW p \in Slots, CopyProc(c, p)
  PROVE  IInv'
<1>1. TypeOK /\ CpuInv /\ ThreadInv /\ ForkInv /\ StackInv
      /\ FamilyInv /\ PidInv /\ KilledInv /\ NoLostChildWakeup
  BY DEF IInv
<1>2. TypeOK'
  BY <1>1 DEF CopyProc, TypeOK, ThreadInv
<1>3. CpuInv'
  BY <1>1 DEF CopyProc, TypeOK, CpuInv, ThreadInv, ForkInv
<1>4. ThreadInv'
  BY <1>1 DEF CopyProc, TypeOK, ThreadInv, ForkInv
<1>5. ForkInv'
  BY <1>1 DEF CopyProc, TypeOK, ThreadInv, ForkInv
<1>6. FamilyInv'
  <2>1. /\ child[p] \in Slots \ {p} /\ state[child[p]] = "EMBRYO"
        /\ parent' = [parent EXCEPT ![child[p]] = p] /\ state' = state
    BY Forking DEF CopyProc
  <2>2. QED
    BY <1>1, <2>1 DEF TypeOK, FamilyInv, FamilyTree
<1>7. KilledInv'
  BY <1>1 DEF CopyProc, TypeOK, ThreadInv, ForkInv, KilledInv,
       KilledNeverServed
<1>8. NoLostChildWakeup'
  BY <1>1 DEF CopyProc, TypeOK, ThreadInv, ForkInv, FamilyInv, FamilyTree,
       NoLostChildWakeup
<1>9. StackInv' /\ PidInv'
  BY <1>1, FrameStackInv, FramePidInv DEF CopyProc
<1>10. QED
  BY <1>2, <1>3, <1>4, <1>5, <1>6, <1>7, <1>8, <1>9 DEF IInv

\* The child joins the family as a RUNNABLE process of a running parent.
LEMMA RunChildStep ==
  ASSUME IInv, NEW c \in CPUs, NEW p \in Slots, RunChild(c, p)
  PROVE  IInv'
<1>1. TypeOK /\ CpuInv /\ ThreadInv /\ ForkInv /\ StackInv
      /\ FamilyInv /\ PidInv /\ KilledInv /\ NoLostChildWakeup
  BY DEF IInv
<1>2. /\ Runs(c, p) /\ lock = NULL /\ ~intr[p] /\ pc[p] = "forkrun" /\ ~killed[p]
      /\ state' = [state EXCEPT ![child[p]] = "RUNNABLE"]
      /\ pc' = [pc EXCEPT ![child[p]] = "forkret", ![p] = "trapret"]
      /\ child' = [child EXCEPT ![p] = NULL]
      /\ UNCHANGED <<pid, parent, chan, killed, freeze, pending, kstack,
                     nextpid, lock, cpuVars, intr, sigi>>
  BY <1>1 DEF RunChild, TypeOK, KilledInv, KilledNeverServed
<1>3. /\ child[p] \in Slots \ {p} /\ state[child[p]] = "EMBRYO" /\ pc[child[p]] = "none"
      /\ ~killed[child[p]] /\ child[child[p]] = NULL
      /\ \A d \in CPUs : proc[d] # child[p]
      /\ \A r \in Slots \ {p} : child[r] # child[p]
      /\ parent[child[p]] = p /\ kstack[child[p]]
  BY <1>1, <1>2, Forking DEF ForkInv
<1>4. TypeOK'
  BY <1>1, <1>2, <1>3 DEF TypeOK
<1>5. CpuInv'
  BY <1>1, <1>2, <1>3 DEF TypeOK, CpuInv
<1>6. ThreadInv'
  <2>1. \A q \in Slots \ {p, child[p]} :
          pc'[q] = pc[q] /\ state'[q] = state[q] /\ child'[q] = child[q]
    BY <1>1, <1>2, <1>3 DEF TypeOK
  <2>2. /\ pc'[p] = "trapret" /\ child'[p] = NULL /\ state'[p] = "RUNNING"
        /\ pc'[child[p]] = "forkret" /\ child'[child[p]] = NULL
        /\ state'[child[p]] = "RUNNABLE" /\ ~intr[child[p]]
    BY <1>1, <1>2, <1>3, Forking DEF TypeOK
  <2>3. ASSUME NEW q \in Slots
        PROVE  ThreadInv!(q)'
    <3>1. CASE q \notin {p, child[p]}
      <4>1. ThreadInv!(q)
        BY <1>1 DEF ThreadInv
      <4>2. QED
        BY <1>2, <2>1, <3>1, <4>1
    <3>2. CASE q = p
      BY <1>2, <2>2, <3>2
    <3>3. CASE q = child[p]
      BY <1>2, <1>3, <2>2, <3>3
    <3>4. QED
      BY <3>1, <3>2, <3>3
  <2>4. QED
    BY <2>3 DEF ThreadInv
<1>7. ForkInv'
  <2>1. \A q \in Slots \ {child[p]} : state'[q] = state[q]
    BY <1>1, <1>2 DEF TypeOK
  <2>2. \A r \in Slots \ {p} : child'[r] = child[r] /\ (child[r] # NULL => pc'[r] = pc[r])
    BY <1>1, <1>2, <1>3 DEF TypeOK
  <2>3. child'[p] = NULL /\ state'[child[p]] = "RUNNABLE"
    BY <1>1, <1>2, <1>3 DEF TypeOK
  <2>4. QED
    BY <1>1, <1>2, <1>3, <2>1, <2>2, <2>3 DEF TypeOK, ForkInv
<1>8. StackInv'
  BY <1>1, <1>2, <1>3 DEF TypeOK, StackInv
<1>9. FamilyInv'
  BY <1>1, <1>2, <1>3 DEF TypeOK, FamilyInv, FamilyTree
<1>10. KilledInv'
  BY <1>1, <1>2, <1>3 DEF TypeOK, KilledInv, KilledNeverServed
<1>11. NoLostChildWakeup'
  BY <1>1, <1>2, <1>3 DEF TypeOK, NoLostChildWakeup
<1>12. QED
  BY <1>1, <1>2, <1>4, <1>5, <1>6, <1>7, <1>8, <1>9, <1>10, <1>11, FramePidInv DEF IInv

\* forkret() releases the lock that scheduler() acquired.
LEMMA ForkRetStep ==
  ASSUME IInv, NEW c \in CPUs, NEW p \in Slots, ForkRet(c, p)
  PROVE  IInv'
<1>1. TypeOK /\ CpuInv /\ ThreadInv /\ ForkInv /\ StackInv
      /\ FamilyInv /\ PidInv /\ KilledInv /\ NoLostChildWakeup
  BY DEF IInv
<1>2. TypeOK'
  BY <1>1 DEF ForkRet, TypeOK, ThreadInv
<1>3. CpuInv'
  BY <1>1 DEF ForkRet, TypeOK, CpuInv, ThreadInv, ForkInv
<1>4. ThreadInv'
  BY <1>1 DEF ForkRet, TypeOK, ThreadInv, ForkInv
<1>5. ForkInv'
  BY <1>1 DEF ForkRet, TypeOK, ThreadInv, ForkInv
<1>6. KilledInv'
  BY <1>1 DEF ForkRet, TypeOK, ThreadInv, ForkInv, KilledInv,
       KilledNeverServed
<1>7. NoLostChildWakeup'
  BY <1>1 DEF ForkRet, TypeOK, ThreadInv, ForkInv, FamilyInv, FamilyTree,
       NoLostChildWakeup
<1>8. StackInv' /\ FamilyInv' /\ PidInv'
  BY <1>1, FrameStackInv, FrameFamilyInv, FramePidInv DEF ForkRet
<1>9. QED
  BY <1>2, <1>3, <1>4, <1>5, <1>6, <1>7, <1>8 DEF IInv

-----------------------------------------------------------------------------
(* exit() and wait(). *)

\* init exits: its CPU stops, without ptable.lock.
LEMMA ExitPanicStep ==
  ASSUME IInv, NEW c \in CPUs, NEW p \in Slots, ExitPanic(c, p)
  PROVE  IInv'
<1>1. TypeOK /\ CpuInv /\ ThreadInv /\ ForkInv /\ StackInv
      /\ FamilyInv /\ PidInv /\ KilledInv /\ NoLostChildWakeup
  BY DEF IInv
<1>2. TypeOK'
  BY <1>1 DEF ExitPanic, TypeOK, ThreadInv
<1>3. CpuInv'
  BY <1>1 DEF ExitPanic, TypeOK, CpuInv, ThreadInv, ForkInv
<1>4. /\ ThreadInv' /\ ForkInv' /\ StackInv' /\ FamilyInv' /\ PidInv' /\ KilledInv'
      /\ NoLostChildWakeup'
  BY <1>1, FrameThreadInv, FrameForkInv, FrameStackInv, FrameFamilyInv,
       FramePidInv, FrameKilledInv, FrameNoLostChildWakeup DEF ExitPanic
<1>5. QED
  BY <1>2, <1>3, <1>4 DEF IInv

\* exit() hands its children to init and wakes whoever may wait for a ZOMBIE.
LEMMA ExitStep ==
  ASSUME IInv, NEW c \in CPUs, NEW p \in Slots, Exit(c, p)
  PROVE  IInv'
<1>1. TypeOK /\ CpuInv /\ ThreadInv /\ ForkInv /\ StackInv
      /\ FamilyInv /\ PidInv /\ KilledInv /\ NoLostChildWakeup
  BY DEF IInv
<1>2. /\ Runs(c, p) /\ lock = NULL /\ ~intr[p] /\ pc[p] = "exit" /\ p # InitProc
      /\ lock' = c /\ pc' = [pc EXCEPT ![p] = "none"]
      /\ parent' = [q \in Slots |-> IF parent[q] = p THEN InitProc ELSE parent[q]]
      /\ UNCHANGED <<pid, chan, killed, freeze, pending, kstack,
                     nextpid, cpuVars, intr, child, sigi>>
  BY DEF Exit
<1>3. /\ state' \in [Slots -> States] /\ state'[p] = "ZOMBIE"
      /\ \A q \in Slots \ {p} : Wakes(q)
  BY <1>1 DEF Exit, ExitStates, WokenIn, TypeOK, Wakes
<1>4. child[p] = NULL /\ \A q \in Slots : parent[q] = p => state[q] \notin {"UNUSED", "EMBRYO"}
  <2>1. child[p] = NULL
    BY <1>1, <1>2 DEF ThreadInv
  <2>2. ASSUME NEW q \in Slots, parent[q] = p, state[q] = "EMBRYO"
        PROVE  FALSE
    <3>1. PICK r \in Slots : child[r] = q
      BY <1>1, <2>2 DEF ForkInv
    <3>2. QED
      BY <1>1, <2>1, <2>2, <3>1 DEF ForkInv
  <2>3. \A q \in Slots : parent[q] = p => state[q] # "UNUSED"
    BY <1>1 DEF FamilyInv
  <2>4. QED
    BY <2>1, <2>2, <2>3
<1>5. TypeOK'
  <2>1. parent' \in [Slots -> Slots \cup {NULL}]
    BY <1>1, <1>2 DEF TypeOK
  <2>2. pc' \in [Slots -> PCs] /\ lock' \in CPUs \cup {NULL}
    BY <1>1, <1>2 DEF TypeOK
  <2>3. QED
    BY <1>1, <1>2, <1>3, <2>1, <2>2 DEF TypeOK
<1>6. CpuInv'
  <2>1. \A q \in Slots \ {p} : state'[q] = "RUNNING" <=> state[q] = "RUNNING"
    BY <1>3 DEF Wakes
  <2>2. \A d \in CPUs \ {c} : proc[d] # p /\ (proc[d] # NULL => state'[proc[d]] = "RUNNING")
    BY <1>1, <1>2, <2>1 DEF TypeOK, CpuInv
  <2>3. \A q \in Slots : state'[q] = "RUNNING" => \E d \in CPUs : proc[d] = q
    BY <1>1, <1>2, <1>3, <2>1 DEF CpuInv
  <2>4. \A d \in CPUs \ {c} : proc[d] = NULL => scan[d] = 0
    BY <1>1, <1>2 DEF CpuInv
  <2>5. QED
    BY <1>1, <1>2, <1>3, <2>2, <2>3, <2>4 DEF CpuInv
<1>7. ThreadInv'
  <2>1. ASSUME NEW q \in Slots \ {p}
        PROVE  ThreadInv!(q)'
    BY <1>1, <1>2, <1>3 DEF TypeOK, ThreadInv, Wakes
  <2>2. QED
    BY <1>1, <1>2, <1>3, <1>4, <2>1 DEF TypeOK, ThreadInv
<1>8. ForkInv'
  <2>1. \A q \in Slots : state'[q] = "EMBRYO" <=> state[q] = "EMBRYO"
    BY <1>2, <1>3 DEF Wakes
  <2>2. \A q \in Slots : child[q] # NULL => q # p /\ parent'[child[q]] = parent[child[q]]
    BY <1>1, <1>2, <1>4 DEF TypeOK, ForkInv
  <2>3. \A q \in Slots : child[q] # NULL =>
          child[q] \in Slots /\ pc'[q] = pc[q] /\ state'[child[q]] = "EMBRYO"
    <3>1. \A q \in Slots : child[q] # NULL => child[q] \in Slots /\ state[child[q]] = "EMBRYO"
      BY <1>1 DEF TypeOK, ForkInv
    <3>2. \A q \in Slots \ {p} : pc'[q] = pc[q]
      BY <1>1, <1>2 DEF TypeOK
    <3>3. QED
      BY <2>1, <2>2, <3>1, <3>2
  <2>4. child' = child /\ kstack' = kstack
    BY <1>2
  <2>5. QED
    BY <1>1, <2>1, <2>2, <2>3, <2>4 DEF ForkInv
<1>9. StackInv'
  BY <1>1, <1>2, <1>3 DEF TypeOK, StackInv, Wakes
<1>10. FamilyInv'
  <2>1. \A q \in Slots \ {p} : state[q] \in Live <=> state'[q] \in Live
    BY <1>3 DEF Wakes
  <2>2. \A q \in Slots \ {p} : state'[q] \in {"UNUSED", "ZOMBIE"} => state'[q] = state[q]
    BY <1>3 DEF Wakes
  <2>3. parent'[InitProc] = NULL /\ state'[InitProc] \in Live
    BY <1>1, <1>2, <2>1 DEF FamilyInv, FamilyTree
  <2>4. \A q \in Slots : state'[q] = "UNUSED" => parent'[q] = NULL
    BY <1>1, <1>2, <1>3, <2>2 DEF FamilyInv
  <2>5. ASSUME NEW q \in Slots \ {InitProc}, state'[q] \in Live \cup {"ZOMBIE"}
        PROVE  parent'[q] \in Slots \ {q} /\ state'[parent'[q]] \in Live
    <3>1. state[q] \in Live \cup {"ZOMBIE"}
      BY <1>2, <1>3, <2>5 DEF Wakes
    <3>2. parent[q] \in Slots \ {q} /\ state[parent[q]] \in Live
      BY <1>1, <3>1 DEF FamilyInv, FamilyTree
    <3>3. QED
      BY <1>2, <2>1, <2>3, <3>2
  <2>6. QED
    BY <2>3, <2>4, <2>5 DEF FamilyInv, FamilyTree
<1>11. KilledInv'
  BY <1>1, <1>2, <1>3 DEF TypeOK, KilledInv, KilledNeverServed, Wakes
<1>12. NoLostChildWakeup'
  <2> SUFFICES ASSUME NEW r \in Slots, NEW q \in Slots,
                      state'[r] = "SLEEPING", pc'[r] = "wait", parent'[q] = r
               PROVE  state'[q] # "ZOMBIE"
    BY DEF NoLostChildWakeup
  <2>1. r # p /\ state[r] = "SLEEPING" /\ pc[r] = "wait" /\ chan[r] = r
    BY <1>1, <1>2, <1>3 DEF TypeOK, ThreadInv, Wakes
  <2>2. r # parent[p]
    BY <1>1, <2>1 DEF Exit, ExitStates, WokenIn, TypeOK
  <2>3. CASE parent[q] = p
    <3>1. q # p /\ r = InitProc
      BY <1>1, <1>2, <1>3, <2>3 DEF TypeOK, FamilyInv, FamilyTree
    <3>2. state[q] # "ZOMBIE"
      BY <1>1, <2>1, <2>3, <3>1 DEF Exit, ExitStates, WokenIn, TypeOK
    <3>3. QED
      BY <1>3, <3>1, <3>2 DEF Wakes
  <2>4. CASE parent[q] # p
    <3>1. parent[q] = r /\ q # p
      BY <1>1, <1>2, <2>2, <2>4 DEF TypeOK
    <3>2. QED
      BY <1>1, <1>3, <2>1, <3>1 DEF NoLostChildWakeup, Wakes
  <2>5. QED
    BY <2>3, <2>4
<1>13. QED
  BY <1>1, <1>2, <1>5, <1>6, <1>7, <1>8, <1>9, <1>10, <1>11, <1>12, FramePidInv DEF IInv

\* wait() frees a ZOMBIE child, which is on no CPU, since wait() has the lock.
LEMMA ReapStep ==
  ASSUME IInv, NEW c \in CPUs, NEW p \in Slots, Reap(c, p)
  PROVE  IInv'
<1>1. TypeOK /\ CpuInv /\ ThreadInv /\ ForkInv /\ StackInv
      /\ FamilyInv /\ PidInv /\ KilledInv /\ NoLostChildWakeup
  BY DEF IInv
<1>2. PICK q \in Children(p) :
        /\ state[q] = "ZOMBIE"
        /\ kstack' = [kstack EXCEPT ![q] = FALSE]
        /\ pid' = [pid EXCEPT ![q] = 0]
        /\ parent' = [parent EXCEPT ![q] = NULL]
        /\ killed' = [killed EXCEPT ![q] = FALSE]
        /\ state' = [state EXCEPT ![q] = "UNUSED"]
  BY DEF Reap
<1>3. /\ Runs(c, p) /\ lock \in {NULL, c} /\ ~intr[p] /\ pc[p] = "wait" /\ ~killed[p]
      /\ chan' = [chan EXCEPT ![p] = NULL] /\ lock' = NULL
      /\ pc' = [pc EXCEPT ![p] = "trapret"]
      /\ UNCHANGED <<freeze, pending, nextpid, cpuVars, intr, child, sigi>>
  BY <1>1 DEF Reap, InWait, KilledInv, KilledNeverServed
<1>4. /\ q \in Slots /\ q # p /\ parent[q] = p /\ q # InitProc
      /\ \A d \in CPUs : proc[d] # q
      /\ \A r \in Slots : child[r] # q
  <2>1. q \in Slots /\ parent[q] = p /\ q # p
    BY <1>2, <1>3 DEF Children
  <2>2. q # InitProc
    BY <1>1, <2>1 DEF FamilyInv
  <2>3. \A d \in CPUs : proc[d] # q
    BY <1>1, <1>2, <1>3, <2>1 DEF CpuInv
  <2>4. \A r \in Slots : child[r] # q
    BY <1>1, <1>2, <2>1 DEF ForkInv
  <2>5. QED
    BY <2>1, <2>2, <2>3, <2>4
<1>5. TypeOK'
  BY <1>1, <1>2, <1>3, <1>4 DEF TypeOK
<1>6. CpuInv'
  BY <1>1, <1>2, <1>3, <1>4 DEF TypeOK, CpuInv
<1>7. ThreadInv'
  BY <1>1, <1>2, <1>3, <1>4 DEF TypeOK, ThreadInv
<1>8. ForkInv'
  BY <1>1, <1>2, <1>3, <1>4 DEF TypeOK, ThreadInv, ForkInv
<1>9. StackInv'
  BY <1>1, <1>2, <1>3, <1>4 DEF TypeOK, StackInv
<1>10. FamilyInv'
  BY <1>1, <1>2, <1>3, <1>4 DEF TypeOK, FamilyInv, FamilyTree
<1>11. PidInv'
  BY <1>1, <1>2, <1>3, <1>4 DEF TypeOK, PidInv, PidsUnique
<1>12. KilledInv'
  BY <1>1, <1>2, <1>3, <1>4 DEF TypeOK, KilledInv, KilledNeverServed
<1>13. NoLostChildWakeup'
  BY <1>1, <1>2, <1>3, <1>4 DEF TypeOK, NoLostChildWakeup
<1>14. QED
  BY <1>5, <1>6, <1>7, <1>8, <1>9, <1>10, <1>11, <1>12, <1>13 DEF IInv

\* wait() returns without having found a ZOMBIE.
LEMMA WaitFailsStep ==
  ASSUME IInv, NEW c \in CPUs, NEW p \in Slots, WaitFails(c, p)
  PROVE  IInv'
<1>1. TypeOK /\ CpuInv /\ ThreadInv /\ ForkInv /\ StackInv
      /\ FamilyInv /\ PidInv /\ KilledInv /\ NoLostChildWakeup
  BY DEF IInv
<1>2. TypeOK'
  BY <1>1 DEF WaitFails, InWait, Children, TypeOK, ThreadInv
<1>3. CpuInv'
  BY <1>1 DEF WaitFails, InWait, Children, TypeOK, CpuInv, ThreadInv,
       ForkInv
<1>4. ThreadInv'
  BY <1>1 DEF WaitFails, InWait, Children, TypeOK, ThreadInv, ForkInv
<1>5. ForkInv'
  BY <1>1 DEF WaitFails, InWait, Children, TypeOK, ThreadInv, ForkInv
<1>6. KilledInv'
  BY <1>1 DEF WaitFails, InWait, Children, TypeOK, ThreadInv, ForkInv,
       KilledInv, KilledNeverServed
<1>7. NoLostChildWakeup'
  BY <1>1 DEF WaitFails, InWait, Children, TypeOK, ThreadInv, ForkInv,
       FamilyInv, FamilyTree, NoLostChildWakeup
<1>8. StackInv' /\ FamilyInv' /\ PidInv'
  BY <1>1, FrameStackInv, FrameFamilyInv, FramePidInv DEF WaitFails, InWait,
       Children
<1>9. QED
  BY <1>2, <1>3, <1>4, <1>5, <1>6, <1>7, <1>8 DEF IInv

\* sleep(), from wait() or from sys_sleep: the sleeper keeps the lock until it
\* has switched to the scheduler, and no ZOMBIE child is left behind.
LEMMA GoesToSleep ==
  ASSUME IInv, NEW c \in CPUs, NEW p \in Slots, WaitSleep(c, p) \/ SleepOnTicks(c, p)
  PROVE  IInv'
<1>1. TypeOK /\ CpuInv /\ ThreadInv /\ ForkInv /\ StackInv
      /\ FamilyInv /\ PidInv /\ KilledInv /\ NoLostChildWakeup
  BY DEF IInv
<1>2. PICK ch \in {p, TICKS} :
        /\ Runs(c, p) /\ lock \in {NULL, c} /\ ~intr[p]
        /\ pc[p] = IF ch = p THEN "wait" ELSE "sleep"
        /\ ch = p => \A q \in Slots : parent[q] = p => state[q] # "ZOMBIE"
        /\ chan' = [chan EXCEPT ![p] = ch]
        /\ state' = [state EXCEPT ![p] = "SLEEPING"]
        /\ lock' = c
        /\ UNCHANGED <<pid, parent, killed, freeze, pending, kstack,
                       nextpid, cpuVars, threadVars>>
  BY DEF WaitSleep, SleepOnTicks, InWait, Children
<1>3. TypeOK'
  BY <1>1, <1>2 DEF TypeOK
<1>4. CpuInv'
  <2>1. \A d \in CPUs \ {c} : proc[d] # p /\ (proc[d] # NULL => state'[proc[d]] = "RUNNING")
    BY <1>1, <1>2 DEF TypeOK, CpuInv
  <2>2. QED
    BY <1>1, <1>2, <2>1 DEF TypeOK, CpuInv
<1>5. ThreadInv'
  BY <1>1, <1>2 DEF TypeOK, ThreadInv
<1>6. ForkInv'
  BY <1>1, <1>2 DEF TypeOK, ForkInv
<1>7. StackInv' /\ FamilyInv'
  BY <1>1, <1>2 DEF TypeOK, StackInv, FamilyInv, FamilyTree
<1>8. KilledInv'
  BY <1>1, <1>2 DEF TypeOK, KilledInv, KilledNeverServed
<1>9. NoLostChildWakeup'
  BY <1>1, <1>2 DEF TypeOK, NoLostChildWakeup
<1>10. QED
  BY <1>1, <1>2, <1>3, <1>4, <1>5, <1>6, <1>7, <1>8, <1>9, FramePidInv DEF IInv

\* sleep(&ticks) returns and releases ptable.lock.
LEMMA SleepResumesStep ==
  ASSUME IInv, NEW c \in CPUs, NEW p \in Slots, SleepResumes(c, p)
  PROVE  IInv'
<1>1. TypeOK /\ CpuInv /\ ThreadInv /\ ForkInv /\ StackInv
      /\ FamilyInv /\ PidInv /\ KilledInv /\ NoLostChildWakeup
  BY DEF IInv
<1>2. TypeOK'
  BY <1>1 DEF SleepResumes, TypeOK, ThreadInv
<1>3. CpuInv'
  BY <1>1 DEF SleepResumes, TypeOK, CpuInv, ThreadInv, ForkInv
<1>4. ThreadInv'
  BY <1>1 DEF SleepResumes, TypeOK, ThreadInv, ForkInv
<1>5. ForkInv' /\ StackInv' /\ FamilyInv' /\ PidInv' /\ KilledInv' /\ NoLostChildWakeup'
  BY <1>1, FrameForkInv, FrameStackInv, FrameFamilyInv, FramePidInv,
       FrameKilledInv, FrameNoLostChildWakeup DEF SleepResumes
<1>6. QED
  BY <1>2, <1>3, <1>4, <1>5 DEF IInv

-----------------------------------------------------------------------------
(* yield(), sched() and scheduler(). *)

\* yield() acquires the lock and gives up the CPU.
LEMMA YieldStep ==
  ASSUME IInv, NEW c \in CPUs, NEW p \in Slots, Yield(c, p)
  PROVE  IInv'
<1>1. TypeOK /\ CpuInv /\ ThreadInv /\ ForkInv /\ StackInv
      /\ FamilyInv /\ PidInv /\ KilledInv /\ NoLostChildWakeup
  BY DEF IInv
<1>2. TypeOK'
  BY <1>1 DEF Yield, TypeOK, ThreadInv
<1>3. CpuInv'
  BY <1>1 DEF Yield, TypeOK, CpuInv, ThreadInv, ForkInv
<1>4. ThreadInv'
  BY <1>1 DEF Yield, TypeOK, ThreadInv, ForkInv
<1>5. ForkInv'
  BY <1>1 DEF Yield, TypeOK, ThreadInv, ForkInv
<1>6. StackInv'
  BY <1>1 DEF Yield, TypeOK, StackInv, ThreadInv, ForkInv
<1>7. FamilyInv'
  BY <1>1 DEF Yield, TypeOK, FamilyInv, ThreadInv, ForkInv, FamilyTree
<1>8. KilledInv'
  BY <1>1 DEF Yield, TypeOK, ThreadInv, ForkInv, KilledInv,
       KilledNeverServed
<1>9. NoLostChildWakeup'
  BY <1>1 DEF Yield, TypeOK, ThreadInv, ForkInv, FamilyInv, FamilyTree,
       NoLostChildWakeup
<1>10. PidInv'
  BY <1>1, FramePidInv DEF Yield
<1>11. QED
  BY <1>2, <1>3, <1>4, <1>5, <1>6, <1>7, <1>8, <1>9, <1>10 DEF IInv

\* yield() returns and releases the lock that scheduler() acquired.
LEMMA YieldResumesStep ==
  ASSUME IInv, NEW c \in CPUs, NEW p \in Slots, YieldResumes(c, p)
  PROVE  IInv'
<1>1. TypeOK /\ CpuInv /\ ThreadInv /\ ForkInv /\ StackInv
      /\ FamilyInv /\ PidInv /\ KilledInv /\ NoLostChildWakeup
  BY DEF IInv
<1>2. /\ Runs(c, p) /\ lock = c /\ intr[p]
      /\ lock' = NULL /\ intr' = [intr EXCEPT ![p] = FALSE]
      /\ UNCHANGED <<procVars, nextpid, cpuVars, child, sigi>>
  BY DEF YieldResumes
<1>3. /\ \A q \in Slots \ {p} : pc'[q] = pc[q]
      /\ \/ pc[p] = "user" /\ pc'[p] \in {"exit", "irqret"}
         \/ pc'[p] = pc[p]
      /\ pc' \in [Slots -> PCs]
  BY <1>1 DEF YieldResumes, TypeOK
<1>4. TypeOK'
  BY <1>1, <1>2, <1>3 DEF TypeOK
<1>5. CpuInv'
  BY <1>1, <1>2, <1>3 DEF TypeOK, CpuInv
<1>6. ThreadInv'
  <2>1. ASSUME NEW q \in Slots \ {p}
        PROVE  ThreadInv!(q)'
    BY <1>1, <1>2, <1>3 DEF TypeOK, ThreadInv
  <2>2. QED
    BY <1>1, <1>2, <1>3, <2>1 DEF TypeOK, ThreadInv
<1>7. ForkInv'
  BY <1>1, <1>2, <1>3 DEF TypeOK, ThreadInv, ForkInv
<1>8. KilledInv' /\ NoLostChildWakeup'
  BY <1>1, <1>2, <1>3 DEF TypeOK, KilledInv, KilledNeverServed, NoLostChildWakeup
<1>9. QED
  BY <1>1, <1>2, <1>4, <1>5, <1>6, <1>7, <1>8,
     FrameStackInv, FrameFamilyInv, FramePidInv DEF IInv

\* The switch to the scheduler, with the lock.
LEMMA SchedStep ==
  ASSUME IInv, NEW c \in CPUs, NEW p \in Slots, Sched(c, p)
  PROVE  IInv'
<1>1. TypeOK /\ CpuInv /\ ThreadInv /\ ForkInv /\ StackInv
      /\ FamilyInv /\ PidInv /\ KilledInv /\ NoLostChildWakeup
  BY DEF IInv
<1>2. TypeOK'
  <2>1. p + 1 \in 0..(NPROC + 1)
    OBVIOUS
  <2>2. QED
    BY <1>1, <2>1 DEF Sched, TypeOK
<1>3. CpuInv'
  BY <1>1 DEF Sched, TypeOK, CpuInv
<1>4. QED
  BY <1>1, <1>2, <1>3, FrameThreadInv, FrameForkInv, FrameStackInv, FrameFamilyInv,
     FramePidInv, FrameKilledInv, FrameNoLostChildWakeup DEF Sched, IInv

\* The switch to a process, which is parked where it releases the lock.
LEMMA DispatchStep ==
  ASSUME IInv, NEW c \in CPUs, NEW p \in Slots, Dispatch(c, p)
  PROVE  IInv'
<1>1. TypeOK /\ CpuInv /\ ThreadInv /\ ForkInv /\ StackInv
      /\ FamilyInv /\ PidInv /\ KilledInv /\ NoLostChildWakeup
  BY DEF IInv
<1>2. /\ proc[c] = NULL /\ lock \in {NULL, c} /\ state[p] = "RUNNABLE" /\ c \notin halted
      /\ lock' = c /\ proc' = [proc EXCEPT ![c] = p]
      /\ state' = [state EXCEPT ![p] = "RUNNING"]
      /\ UNCHANGED <<pid, parent, chan, killed, freeze, pending, kstack,
                     nextpid, scan, threadVars, halted>>
  BY DEF Dispatch, InScheduler, NextSelectable, Selectable
<1>3. TypeOK'
  BY <1>1, <1>2 DEF TypeOK
<1>4. CpuInv'
  <2>1. intr[p] \/ pc[p] \in {"wait", "sleep", "forkret"}
    BY <1>1, <1>2 DEF ThreadInv
  <2>2. \A d \in CPUs : proc[d] # p /\ (proc[d] # NULL => state'[proc[d]] = state[proc[d]])
    BY <1>1, <1>2 DEF TypeOK, CpuInv
  <2>3. proc'[c] = p /\ state'[p] = "RUNNING" /\ \A d \in CPUs \ {c} : proc'[d] = proc[d]
    BY <1>1, <1>2 DEF TypeOK
  <2>4. \A q \in Slots : state'[q] = "RUNNING" => \E d \in CPUs : proc'[d] = q
    BY <1>1, <1>2, <2>3 DEF TypeOK, CpuInv
  <2>5. \A d \in CPUs \ {c} : lock # d
    BY <1>2
  <2>6. UNCHANGED <<scan, halted, intr, pc>> /\ lock' = c
    BY <1>2
  <2>7. QED
    BY <1>1, <2>1, <2>2, <2>3, <2>4, <2>5, <2>6 DEF CpuInv
<1>5. ThreadInv'
  BY <1>1, <1>2 DEF TypeOK, ThreadInv
<1>6. ForkInv'
  BY <1>1, <1>2 DEF TypeOK, ForkInv
<1>7. StackInv' /\ FamilyInv'
  BY <1>1, <1>2 DEF TypeOK, StackInv, FamilyInv, FamilyTree
<1>8. KilledInv' /\ NoLostChildWakeup'
  BY <1>1, <1>2 DEF TypeOK, KilledInv, KilledNeverServed, NoLostChildWakeup
<1>9. QED
  BY <1>1, <1>2, <1>3, <1>4, <1>5, <1>6, <1>7, <1>8, FramePidInv DEF IInv

\* The panic in scheduler() leaves the table as it is, and the lock held.
LEMMA ThawPanicStep ==
  ASSUME IInv, NEW c \in CPUs, NEW p \in Slots, ThawPanic(c, p)
  PROVE  IInv'
<1>1. TypeOK /\ CpuInv /\ ThreadInv /\ ForkInv /\ StackInv
      /\ FamilyInv /\ PidInv /\ KilledInv /\ NoLostChildWakeup
  BY DEF IInv
<1>2. TypeOK'
  BY <1>1 DEF ThawPanic, TypeOK
<1>3. CpuInv'
  BY <1>1 DEF ThawPanic, InScheduler, TypeOK, CpuInv
<1>4. QED
  BY <1>1, <1>2, <1>3, FrameThreadInv, FrameForkInv, FrameStackInv, FrameFamilyInv,
     FramePidInv, FrameKilledInv, FrameNoLostChildWakeup DEF ThawPanic, IInv

\* scheduler() ends a pass over the table and releases the lock.
LEMMA ScanEndsStep ==
  ASSUME IInv, NEW c \in CPUs, ScanEnds(c)
  PROVE  IInv'
<1>1. TypeOK /\ CpuInv /\ ThreadInv /\ ForkInv /\ StackInv
      /\ FamilyInv /\ PidInv /\ KilledInv /\ NoLostChildWakeup
  BY DEF IInv
<1>2. TypeOK'
  <2>1. scan' \in [CPUs -> 0..(NPROC + 1)]
    BY <1>1 DEF ScanEnds, TypeOK
  <2>2. QED
    BY <1>1, <2>1 DEF ScanEnds, TypeOK
<1>3. CpuInv'
  BY <1>1 DEF ScanEnds, TypeOK, CpuInv
<1>4. QED
  BY <1>1, <1>2, <1>3, FrameThreadInv, FrameForkInv, FrameStackInv, FrameFamilyInv,
     FramePidInv, FrameKilledInv, FrameNoLostChildWakeup DEF ScanEnds, IInv

-----------------------------------------------------------------------------
(* The theorems. *)

\* The boot state satisfies the invariant.
LEMMA InitInv == Init => IInv
<1> SUFFICES ASSUME Init PROVE IInv
  OBVIOUS
<1>1. InitProc \in Slots /\ 2 \in Nat
  OBVIOUS
<1>2. TypeOK
  BY <1>1 DEF Init, TypeOK
<1>3. CpuInv /\ ThreadInv
  BY <1>1 DEF Init, CpuInv, ThreadInv
<1>4. ForkInv /\ StackInv /\ FamilyInv
  BY <1>1 DEF Init, ForkInv, StackInv, FamilyInv, FamilyTree
<1>5. PidInv /\ KilledInv /\ NoLostChildWakeup
  BY <1>1 DEF Init, PidInv, PidsUnique, KilledInv, KilledNeverServed, NoLostChildWakeup
<1>6. QED
  BY <1>2, <1>3, <1>4, <1>5 DEF IInv

\* Every step of every process, CPU and interrupt preserves it.
LEMMA StepInv == IInv /\ [Next]_vars => IInv'
<1> SUFFICES ASSUME IInv, [Next]_vars PROVE IInv'
  OBVIOUS
<1>1. CASE UNCHANGED vars
  <2>1. TypeOK'
    BY <1>1 DEF vars, IInv, TypeOK
  <2>2. QED
    BY <1>1, <2>1, FrameCpuInv, FrameThreadInv, FrameForkInv, FrameStackInv,
       FrameFamilyInv, FramePidInv, FrameKilledInv, FrameNoLostChildWakeup DEF vars, IInv
<1>2. ASSUME NEW c \in CPUs, SchedulerStep(c) \/ IdleTick(c)
      PROVE  IInv'
  BY <1>2, ScanEndsStep, DispatchStep, ThawPanicStep, IdleTickStep DEF SchedulerStep
<1>3. ASSUME NEW c \in CPUs, NEW p \in Slots,
             UserStep(c, p) \/ KilledAtEntry(c, p) \/ TimerIntr(c, p)
      PROVE  IInv'
  BY <1>3, TrapStep, SysKillStep, AllocProcStep, TimerIntrStep DEF UserStep
<1>4. ASSUME NEW c \in CPUs, NEW p \in Slots, KernelStep(c, p)
      PROVE  IInv'
  <2>1. CASE \/ AllocPid(c, p) \/ AllocKstack(c, p) \/ KallocFails(c, p)
             \/ CopyProc(c, p) \/ CopyuvmFails(c, p) \/ RunChild(c, p) \/ ForkRet(c, p)
    BY <2>1, AllocPidStep, AllocKstackStep, ForkFails, CopyProcStep, RunChildStep, ForkRetStep
  <2>2. CASE \/ ExitPanic(c, p) \/ Exit(c, p)
             \/ Reap(c, p) \/ WaitFails(c, p) \/ WaitSleep(c, p)
    BY <2>2, ExitPanicStep, ExitStep, ReapStep, WaitFailsStep, GoesToSleep
  <2>3. CASE \/ SleepReturns(c, p) \/ SleepOnTicks(c, p) \/ SleepResumes(c, p)
             \/ RunSignal(c, p) \/ RunnerDone(c, p)
    BY <2>3, TrapStep, GoesToSleep, SleepResumesStep, RunnerStep
  <2>4. CASE Yield(c, p) \/ YieldResumes(c, p) \/ Sched(c, p)
    BY <2>4, YieldStep, YieldResumesStep, SchedStep
  <2>5. QED
    BY <1>4, <2>1, <2>2, <2>3, <2>4 DEF KernelStep
<1>5. QED
  BY <1>1, <1>2, <1>3, <1>4 DEF Next

\* IInv is an invariant of the process table.
THEOREM Invariant == Spec => []IInv
BY InitInv, StepInv, PTL DEF Spec

\* Every variable keeps its type: no index into ptable.proc, no pid, signal
\* number or scheduler position leaves its range.
THEOREM TypeCorrect == Spec => []TypeOK
<1>1. IInv => TypeOK
  BY DEF IInv
<1>2. QED
  BY <1>1, Invariant, PTL

\* For any number of slots and CPUs, no process runs on two CPUs, and one that
\* is leaving its CPU is protected by ptable.lock until it has left.
THEOREM RunningOnOneCpuHolds == Spec => []RunningOnOneCpu
<1>1. IInv => RunningOnOneCpu
  <2> SUFFICES ASSUME IInv, NEW p \in Slots
               PROVE  /\ \A c, d \in OnCpu(p) : c = d
                      /\ state[p] = "RUNNING" => OnCpu(p) # {}
                      /\ \A c \in OnCpu(p) : state[p] # "RUNNING" => lock = c
    BY DEF RunningOnOneCpu
  <2>1. CpuInv /\ p # NULL /\ \A c : c \in OnCpu(p) <=> c \in CPUs /\ proc[c] = p
    BY DEF IInv, OnCpu
  <2>2. QED
    BY <2>1 DEF CpuInv
<1>2. QED
  BY <1>1, Invariant, PTL

\* The lock that scheduler() hands to a process is always released by it.
THEOREM LockHandoffHolds == Spec => []LockHandoff
<1>1. IInv => LockHandoff
  BY DEF IInv, TypeOK, CpuInv, LockHandoff
<1>2. QED
  BY <1>1, Invariant, PTL

\* No slot and no kernel stack is leaked or lost by fork(), exit() and wait().
THEOREM SlotsAccountedForHolds == Spec => []SlotsAccountedFor
<1>1. IInv => SlotsAccountedFor
  <2> SUFFICES ASSUME IInv, NEW q \in Slots
               PROVE  SlotsAccountedFor!(q)
    BY DEF SlotsAccountedFor
  <2>1. ForkInv /\ StackInv /\ q # NULL
    BY DEF IInv
  <2>2. QED
    BY <2>1 DEF ForkInv, StackInv
<1>2. QED
  BY <1>1, Invariant, PTL

\* Every process has a living parent, whatever exits in whatever order.
THEOREM FamilyTreeHolds == Spec => []FamilyTree
<1>1. IInv => FamilyTree
  BY DEF IInv, FamilyInv
<1>2. QED
  BY <1>1, Invariant, PTL

\* No parent sleeps in wait() beside a ZOMBIE child.
THEOREM NoLostChildWakeupHolds == Spec => []NoLostChildWakeup
<1>1. IInv => NoLostChildWakeup
  BY DEF IInv
<1>2. QED
  BY <1>1, Invariant, PTL

\* pids identify processes.
THEOREM PidsUniqueHolds == Spec => []PidsUnique
<1>1. IInv => PidsUnique
  BY DEF IInv, PidInv
<1>2. QED
  BY <1>1, Invariant, PTL

\* A process marked killed is served no system call.
THEOREM KilledNeverServedHolds == Spec => []KilledNeverServed
<1>1. IInv => KilledNeverServed
  BY DEF IInv, KilledInv
<1>2. QED
  BY <1>1, Invariant, PTL

\* Only wait() and a failing fork() free a kernel stack.
LEMMA WhoFreesStacks ==
  ASSUME TypeOK, NEW c \in CPUs, NEW p \in Slots, NEW q \in Slots, kstack[q], ~kstack'[q],
         \/ SchedulerStep(c) \/ IdleTick(c) \/ UserStep(c, p) \/ KilledAtEntry(c, p)
         \/ KernelStep(c, p) \/ TimerIntr(c, p)
  PROVE  \/ CopyuvmFails(c, p) /\ q = child[p]
         \/ Reap(c, p) /\ parent[q] = p /\ state[q] = "ZOMBIE"
<1>1. CASE kstack' = kstack
  BY <1>1
<1>2. CASE AllocKstack(c, p)
  BY <1>2 DEF AllocKstack, TypeOK
<1>3. CASE CopyuvmFails(c, p)
  BY <1>3 DEF CopyuvmFails, TypeOK
<1>4. CASE Reap(c, p)
  BY <1>4 DEF Reap, Children, TypeOK
<1>5. SchedulerStep(c) \/ IdleTick(c) => kstack' = kstack
  BY DEF SchedulerStep, ScanEnds, Dispatch, ThawPanic, IdleTick
<1>6. UserStep(c, p) \/ KilledAtEntry(c, p) \/ TimerIntr(c, p) => kstack' = kstack
  BY DEF UserStep, SysExit, SysWait, SysSleep, SysOther, SysKill, AllocProc, UserFault,
     KilledAtEntry, TimerIntr
<1>7. KernelStep(c, p) /\ ~AllocKstack(c, p) /\ ~CopyuvmFails(c, p) /\ ~Reap(c, p)
        => kstack' = kstack
  BY DEF KernelStep, AllocPid, KallocFails, CopyProc, RunChild, ForkRet, ExitPanic, Exit,
     WaitFails, WaitSleep, SleepReturns, SleepOnTicks, SleepResumes, Yield, YieldResumes,
     RunSignal, RunnerDone, Sched
<1>8. QED
  BY <1>1, <1>2, <1>3, <1>4, <1>5, <1>6, <1>7

\* A kernel stack is never freed under the CPU that executes on it.
THEOREM StackFreedOffCpuHolds == Spec => StackFreedOffCpu
<1>1. ASSUME IInv, [Next]_vars
      PROVE  [\A q \in Slots : kstack[q] /\ ~kstack'[q] => OnCpu(q) = {}]_vars
  <2> SUFFICES ASSUME Next, NEW q \in Slots, kstack[q], ~kstack'[q]
               PROVE  OnCpu(q) = {}
    BY <1>1
  <2>1. TypeOK /\ CpuInv
    BY <1>1 DEF IInv
  <2>2. PICK c \in CPUs, p \in Slots :
          \/ CopyuvmFails(c, p) /\ q = child[p]
          \/ Reap(c, p) /\ parent[q] = p /\ state[q] = "ZOMBIE"
    <3>1. InitProc \in Slots
      OBVIOUS
    <3>2. QED
      BY <2>1, <3>1, WhoFreesStacks DEF Next
  <2>3. CASE CopyuvmFails(c, p) /\ q = child[p]
    BY <1>1, <2>3, Forking DEF CopyuvmFails, OnCpu
  <2>4. CASE Reap(c, p) /\ state[q] = "ZOMBIE"
    <3>1. Runs(c, p) /\ lock \in {NULL, c}
      BY <2>4 DEF Reap, InWait
    <3>2. \A d \in CPUs : proc[d] # q
      BY <2>1, <2>4, <3>1 DEF CpuInv
    <3>3. QED
      BY <3>2 DEF OnCpu
  <2>5. QED
    BY <2>2, <2>3, <2>4
<1>2. QED
  BY <1>1, Invariant, PTL DEF Spec, StackFreedOffCpu

\* Whatever the number of CPUs: one CPU per running process, a lock that comes
\* back from every switch, and no stack freed under a thread.
THEOREM CpusSoundHolds == Spec => CpusSound
BY RunningOnOneCpuHolds, LockHandoffHolds, StackFreedOffCpuHolds, PTL
  DEF CpusSound, StackFreedOffCpu

\* Only the wait() of the parent changes the state of a ZOMBIE: exit(), kill(),
\* wakeups, fork() and the scheduler change other slots.
LEMMA WhoReaps ==
  ASSUME IInv, NEW c \in CPUs, NEW p \in Slots, NEW q \in Slots,
         state[q] = "ZOMBIE", state'[q] # "ZOMBIE",
         \/ SchedulerStep(c) \/ IdleTick(c) \/ UserStep(c, p) \/ KilledAtEntry(c, p)
         \/ KernelStep(c, p) \/ TimerIntr(c, p)
  PROVE  Reap(c, p) /\ parent[q] = p /\ state'[q] = "UNUSED"
<1>1. TypeOK /\ ForkInv
  BY DEF IInv
<1>2. SchedulerStep(c) \/ IdleTick(c) \/ TimerIntr(c, p) => state'[q] = "ZOMBIE"
  BY <1>1 DEF SchedulerStep, ScanEnds, Dispatch, ThawPanic, IdleTick, TimerIntr, TickWakes,
     WokenIn, NextSelectable, Selectable, TypeOK
<1>3. UserStep(c, p) \/ KilledAtEntry(c, p) => state'[q] = "ZOMBIE"
  BY <1>1 DEF UserStep, SysExit, SysWait, SysSleep, SysOther, SysKill, Signal, AllocProc,
     UserFault, KilledAtEntry, TypeOK
<1>4. \/ AllocPid(c, p) \/ AllocKstack(c, p) \/ CopyProc(c, p) \/ ForkRet(c, p)
      \/ ExitPanic(c, p) \/ WaitFails(c, p) \/ SleepReturns(c, p) \/ SleepResumes(c, p)
      \/ YieldResumes(c, p) \/ RunSignal(c, p) \/ RunnerDone(c, p) \/ Sched(c, p)
      => state' = state
  BY DEF AllocPid, AllocKstack, CopyProc, ForkRet, ExitPanic, WaitFails, SleepReturns,
     SleepResumes, YieldResumes, RunSignal, RunnerDone, Sched
<1>5. KallocFails(c, p) \/ CopyuvmFails(c, p) \/ RunChild(c, p) => state'[q] = "ZOMBIE"
  BY <1>1, Forking DEF KallocFails, CopyuvmFails, RunChild, TypeOK
<1>6. Yield(c, p) \/ WaitSleep(c, p) \/ SleepOnTicks(c, p) => state'[q] = "ZOMBIE"
  BY <1>1 DEF Yield, WaitSleep, InWait, SleepOnTicks, TypeOK
<1>7. Exit(c, p) => state'[q] = "ZOMBIE"
  BY <1>1 DEF Exit, ExitStates, WokenIn, TypeOK
<1>8. CASE Reap(c, p)
  BY <1>1, <1>8 DEF Reap, Children, TypeOK
<1>9. QED
  BY <1>2, <1>3, <1>4, <1>5, <1>6, <1>7, <1>8 DEF KernelStep

\* Nothing revives a ZOMBIE, and nobody but its parent frees its slot.
THEOREM ZombieReapedByParentHolds == Spec => ZombieReapedByParent
<1>1. ASSUME IInv, [Next]_vars
      PROVE  [\A q \in Slots : state[q] = "ZOMBIE" /\ state'[q] # "ZOMBIE" =>
                /\ state'[q] = "UNUSED"
                /\ state[parent[q]] = "RUNNING" /\ pc[parent[q]] = "wait"]_vars
  <2> SUFFICES ASSUME Next, NEW q \in Slots, state[q] = "ZOMBIE", state'[q] # "ZOMBIE"
               PROVE  /\ state'[q] = "UNUSED"
                      /\ state[parent[q]] = "RUNNING" /\ pc[parent[q]] = "wait"
    BY <1>1
  <2>1. PICK c \in CPUs, p \in Slots : Reap(c, p) /\ parent[q] = p /\ state'[q] = "UNUSED"
    <3>1. InitProc \in Slots
      OBVIOUS
    <3>2. QED
      BY <1>1, <3>1, WhoReaps DEF Next
  <2>2. QED
    BY <2>1 DEF Reap, InWait
<1>2. QED
  BY <1>1, Invariant, PTL DEF Spec, ZombieReapedByParent

=============================================================================
