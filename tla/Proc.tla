-------------------------------- MODULE Proc --------------------------------
(***************************************************************************)
(* The process table of the kernel: proc.c, with the trap entry and exit   *)
(* paths of trap.c and the system calls of sysproc.c that reach it.        *)
(*                                                                         *)
(* A process slot carries the fields of struct proc that the table's       *)
(* protocol reads.  A process that is on a CPU carries a program counter   *)
(* pc, which says where in the kernel (or in user space) its thread is.    *)
(* One action is one critical section of ptable.lock, or one unlocked      *)
(* stretch of kernel code whose writes another CPU can see; every CPU      *)
(* interleaves freely with the others between actions, and a timer         *)
(* interrupt may preempt a process wherever interrupts are enabled.        *)
(*                                                                         *)
(* Programs in this module leave their signal handlers and masks at the    *)
(* defaults; handlers, masks and the unlocked read-modify-write of         *)
(* pending_signals are the subject of module Signals.                      *)
(***************************************************************************)
EXTENDS Naturals, FiniteSets

CONSTANTS
    NPROC,      \* number of slots of ptable.proc
    NCPU,       \* number of processors running scheduler()
    MAXPID,     \* bound: no pid above this one is allocated
    Sent,       \* the signal numbers that programs pass to kill()
    Targets,    \* the pids that programs pass to kill()
    InitFails   \* whether a fork() of init may fail, after which init.c exits

SIGKILL == 9
SIGSTOP == 17
SIGCONT == 19

ASSUME SizeAssumption == NPROC \in Nat \ {0} /\ NCPU \in Nat \ {0} /\ MAXPID \in Nat
ASSUME SignalAssumption == Sent \subseteq 0..31 /\ Targets \subseteq Nat

Slots == 1..NPROC
CPUs == 1..NCPU
NULL == 0                   \* the null pointer: no slot, no CPU
InitProc == 1               \* initproc, the first slot allocated
TICKS == NPROC + 1          \* the channel &ticks; a slot is its own channel

States == {"UNUSED", "EMBRYO", "SLEEPING", "RUNNABLE", "RUNNING", "ZOMBIE"}

(***************************************************************************)
(* Where a process thread is.  "trapret" and "irqret" are both the call of *)
(* sig_handler_runner: interrupts are still enabled after a system call    *)
(* and still disabled after an interrupt.                                  *)
(***************************************************************************)
ForkPCs == {"forkpid", "forkkstack", "forkcopy", "forkrun"}
KernelPCs == ForkPCs \cup {"wait", "sleep", "exit", "trapret"}
PCs == KernelPCs \cup {"none", "user", "irqret", "forkret"}

VARIABLES
    state, pid, parent, chan, killed, freeze, pending, kstack,  \* struct proc
    nextpid,    \* the next pid allocpid() hands out
    lock,       \* the CPU that holds ptable.lock, or NULL
    proc,       \* proc[c]: c->proc, the process running on CPU c, or NULL
    scan,       \* scan[c]: where scheduler() on c resumes its loop; 0 outside it
    pc,         \* pc[p]: where the kernel thread of p is
    intr,       \* intr[p]: p is in a timer interrupt and has not yielded yet
    child,      \* child[p]: the local np of fork()
    sigi,       \* sigi[p]: the local i of sig_handler_runner()
    halted      \* the CPUs that are in panic()

procVars == <<state, pid, parent, chan, killed, freeze, pending, kstack>>
threadVars == <<pc, intr, child, sigi>>
cpuVars == <<proc, scan, halted>>
vars == <<state, pid, parent, chan, killed, freeze, pending, kstack,
          nextpid, lock, proc, scan, pc, intr, child, sigi, halted>>

(***************************************************************************)
(* The state userinit() leaves: one RUNNABLE process, initcode, in the     *)
(* first slot, and every CPU about to enter scheduler().                   *)
(***************************************************************************)
Init ==
    /\ state = [p \in Slots |-> IF p = InitProc THEN "RUNNABLE" ELSE "UNUSED"]
    /\ pid = [p \in Slots |-> IF p = InitProc THEN 1 ELSE 0]
    /\ parent = [p \in Slots |-> NULL]
    /\ chan = [p \in Slots |-> NULL]
    /\ killed = [p \in Slots |-> FALSE]
    /\ freeze = [p \in Slots |-> FALSE]
    /\ pending = [p \in Slots |-> {}]
    /\ kstack = [p \in Slots |-> p = InitProc]
    /\ nextpid = 2
    /\ lock = NULL
    /\ proc = [c \in CPUs |-> NULL]
    /\ scan = [c \in CPUs |-> 0]
    /\ pc = [p \in Slots |-> IF p = InitProc THEN "forkret" ELSE "none"]
    /\ intr = [p \in Slots |-> FALSE]
    /\ child = [p \in Slots |-> NULL]
    /\ sigi = [p \in Slots |-> 0]
    /\ halted = {}

-----------------------------------------------------------------------------

\* Process p executes on CPU c: myproc() = p.
Runs(c, p) == proc[c] = p /\ state[p] = "RUNNING" /\ c \notin halted

\* p executes on c and is not inside an interrupt handler, nor does it still
\* hold the lock that scheduler() handed over.
At(c, p, where) == Runs(c, p) /\ lock # c /\ ~intr[p] /\ pc[p] = where

\* wakeup1(ch) on the state function s.
WokenIn(s, ch) ==
    [q \in Slots |-> IF s[q] = "SLEEPING" /\ chan[q] = ch THEN "RUNNABLE" ELSE s[q]]

\* A system call returns: trap() tests killed once more, then trapret.
RetTo(p) == IF killed[p] THEN "exit" ELSE "trapret"

\* Only p's thread moves, to where.
Goto(p, where) == pc' = [pc EXCEPT ![p] = where]

-----------------------------------------------------------------------------
(* System calls and traps, from user space. *)

\* trap() line 40: a process already killed exits instead of being served.
KilledAtEntry(c, p) ==
    /\ At(c, p, "user") /\ killed[p]
    /\ Goto(p, "exit")
    /\ UNCHANGED <<procVars, nextpid, lock, cpuVars, intr, child, sigi>>

\* sys_exit.  init.c calls it when its fork() has failed, which may happen at any
\* time for want of memory.
SysExit(c, p) ==
    /\ At(c, p, "user") /\ ~killed[p]
    /\ p = InitProc => InitFails
    /\ Goto(p, "exit")
    /\ UNCHANGED <<procVars, nextpid, lock, cpuVars, intr, child, sigi>>

\* Mutant: trap() does not test killed before syscall().
SysWaitWhenKilled(c, p) ==
    /\ At(c, p, "user")
    /\ Goto(p, "wait")
    /\ UNCHANGED <<procVars, nextpid, lock, cpuVars, intr, child, sigi>>

SysWait(c, p) ==
    /\ At(c, p, "user") /\ ~killed[p]
    /\ Goto(p, "wait")
    /\ UNCHANGED <<procVars, nextpid, lock, cpuVars, intr, child, sigi>>

\* sys_sleep up to its loop.  init.c does not call it.
SysSleep(c, p) ==
    /\ At(c, p, "user") /\ ~killed[p] /\ p # InitProc
    /\ Goto(p, "sleep")
    /\ UNCHANGED <<procVars, nextpid, lock, cpuVars, intr, child, sigi>>

\* A system call that leaves the process table alone, getpid() for one.
SysOther(c, p) ==
    /\ At(c, p, "user") /\ ~killed[p]
    /\ Goto(p, RetTo(p))
    /\ UNCHANGED <<procVars, nextpid, lock, cpuVars, intr, child, sigi>>

\* trap() default case, from user space: the process misbehaved.  init.c does not.
UserFault(c, p) ==
    /\ At(c, p, "user") /\ p # InitProc
    /\ killed' = [killed EXCEPT ![p] = TRUE]
    /\ Goto(p, "exit")
    /\ UNCHANGED <<state, pid, parent, chan, freeze, pending, kstack,
                   nextpid, lock, cpuVars, intr, child, sigi>>

\* kill() on the slot it found: SIGKILL wakes a SLEEPING process.
Signal(q, sig) ==
    /\ pending' = [pending EXCEPT ![q] = @ \cup {sig}]
    /\ state' = IF state[q] = "SLEEPING" /\ sig = SIGKILL
                THEN [state EXCEPT ![q] = "RUNNABLE"] ELSE state

\* kill() stops at the first slot whose pid matches, whatever its state.
FirstWithPid(q, target) == pid[q] = target /\ \A r \in Slots : r < q => pid[r] # target

SysKill(c, p) ==
    /\ At(c, p, "user") /\ ~killed[p] /\ p # InitProc
    /\ lock = NULL
    /\ \E target \in Targets, sig \in Sent :
         \/ \E q \in Slots : FirstWithPid(q, target) /\ Signal(q, sig)
         \/ /\ \A q \in Slots : pid[q] # target
            /\ UNCHANGED <<pending, state>>
    /\ Goto(p, RetTo(p))
    /\ UNCHANGED <<pid, parent, chan, killed, freeze, kstack,
                   nextpid, lock, cpuVars, intr, child, sigi>>

-----------------------------------------------------------------------------
(* fork() and allocproc(). *)

\* The pids that threads inside allocproc() are going to take.
PidsOwed == Cardinality({p \in Slots : pc[p] = "forkpid"})

\* sys_fork, allocproc(): find the first UNUSED slot, make it EMBRYO.
AllocProc(c, p) ==
    /\ At(c, p, "user") /\ ~killed[p]
    /\ lock = NULL
    /\ nextpid + PidsOwed <= MAXPID
    /\ \/ \E np \in Slots :
            /\ state[np] = "UNUSED" /\ \A q \in Slots : q < np => state[q] # "UNUSED"
            /\ state' = [state EXCEPT ![np] = "EMBRYO"]
            /\ child' = [child EXCEPT ![p] = np]
            /\ Goto(p, "forkpid")
       \/ /\ \A q \in Slots : state[q] # "UNUSED"
          /\ Goto(p, RetTo(p))
          /\ UNCHANGED <<state, child>>
    /\ UNCHANGED <<pid, parent, chan, killed, freeze, pending, kstack,
                   nextpid, lock, cpuVars, intr, sigi>>

\* Mutant: the increment of nextpid is lost.
AllocPidStale(c, p) ==
    /\ At(c, p, "forkpid")
    /\ lock = NULL
    /\ pid' = [pid EXCEPT ![child[p]] = nextpid]
    /\ Goto(p, "forkkstack")
    /\ UNCHANGED <<state, parent, chan, killed, freeze, pending, kstack,
                   nextpid, lock, cpuVars, intr, child, sigi>>

\* p->pid = allocpid(): a second critical section.
AllocPid(c, p) ==
    /\ At(c, p, "forkpid")
    /\ lock = NULL
    /\ pid' = [pid EXCEPT ![child[p]] = nextpid]
    /\ nextpid' = nextpid + 1
    /\ Goto(p, "forkkstack")
    /\ UNCHANGED <<state, parent, chan, killed, freeze, pending, kstack,
                   lock, cpuVars, intr, child, sigi>>

\* The rest of allocproc(), without the lock: the kernel stack, the handlers,
\* the pending signals.  The pid has been visible to kill() since AllocPid.
AllocKstack(c, p) ==
    /\ At(c, p, "forkkstack")
    /\ kstack' = [kstack EXCEPT ![child[p]] = TRUE]
    /\ pending' = [pending EXCEPT ![child[p]] = {}]
    /\ Goto(p, "forkcopy")
    /\ UNCHANGED <<state, pid, parent, chan, killed, freeze,
                   nextpid, lock, cpuVars, intr, child, sigi>>

\* kalloc() fails: the slot is given back, without the lock, its pid kept.
KallocFails(c, p) ==
    /\ At(c, p, "forkkstack")
    /\ state' = [state EXCEPT ![child[p]] = "UNUSED"]
    /\ child' = [child EXCEPT ![p] = NULL]
    /\ Goto(p, RetTo(p))
    /\ UNCHANGED <<pid, parent, chan, killed, freeze, pending, kstack,
                   nextpid, lock, cpuVars, intr, sigi>>

\* fork(): the address space is copied and np->parent set, without the lock.
CopyProc(c, p) ==
    /\ At(c, p, "forkcopy")
    /\ parent' = [parent EXCEPT ![child[p]] = p]
    /\ Goto(p, "forkrun")
    /\ UNCHANGED <<state, pid, chan, killed, freeze, pending, kstack,
                   nextpid, lock, cpuVars, intr, child, sigi>>

\* Mutant: the failing fork() forgets kfree(np->kstack).
CopyuvmFailsLeak(c, p) ==
    /\ At(c, p, "forkcopy")
    /\ state' = [state EXCEPT ![child[p]] = "UNUSED"]
    /\ child' = [child EXCEPT ![p] = NULL]
    /\ Goto(p, RetTo(p))
    /\ UNCHANGED <<pid, parent, chan, killed, freeze, pending, kstack,
                   nextpid, lock, cpuVars, intr, sigi>>

\* copyuvm() fails: the kernel stack and the slot are given back.
CopyuvmFails(c, p) ==
    /\ At(c, p, "forkcopy")
    /\ kstack' = [kstack EXCEPT ![child[p]] = FALSE]
    /\ state' = [state EXCEPT ![child[p]] = "UNUSED"]
    /\ child' = [child EXCEPT ![p] = NULL]
    /\ Goto(p, RetTo(p))
    /\ UNCHANGED <<pid, parent, chan, killed, freeze, pending,
                   nextpid, lock, cpuVars, intr, sigi>>

\* fork(): the child becomes RUNNABLE; it will start in forkret.
RunChild(c, p) ==
    /\ At(c, p, "forkrun")
    /\ lock = NULL
    /\ state' = [state EXCEPT ![child[p]] = "RUNNABLE"]
    /\ pc' = [pc EXCEPT ![child[p]] = "forkret", ![p] = RetTo(p)]
    /\ child' = [child EXCEPT ![p] = NULL]
    /\ UNCHANGED <<pid, parent, chan, killed, freeze, pending, kstack,
                   nextpid, lock, cpuVars, intr, sigi>>

\* Mutant: forkret() without its release.
ForkRetKeepsLock(c, p) ==
    /\ Runs(c, p) /\ lock = c /\ pc[p] = "forkret"
    /\ Goto(p, "trapret")
    /\ UNCHANGED <<procVars, nextpid, lock, cpuVars, intr, child, sigi>>

\* forkret(): release the lock scheduler() took; "return" to trapret.
ForkRet(c, p) ==
    /\ Runs(c, p) /\ lock = c /\ pc[p] = "forkret"
    /\ lock' = NULL
    /\ Goto(p, "trapret")
    /\ UNCHANGED <<procVars, nextpid, cpuVars, intr, child, sigi>>

-----------------------------------------------------------------------------
(* exit() and wait(). *)

\* exit() before its critical section: init may not exit.
ExitPanic(c, p) ==
    /\ At(c, p, "exit") /\ p = InitProc
    /\ halted' = halted \cup {c}
    /\ UNCHANGED <<procVars, nextpid, lock, proc, scan, threadVars>>

\* Mutant: no wakeup1(curproc->parent).
ExitStatesForgetParent(p) ==
    LET orphanZombie == \E q \in Slots : parent[q] = p /\ state[q] = "ZOMBIE"
        toInit == IF orphanZombie THEN WokenIn(state, InitProc) ELSE state
    IN  [toInit EXCEPT ![p] = "ZOMBIE"]

\* What exit() does to the states: wakeup1(parent), wakeup1(initproc) if a
\* child handed to init is already a ZOMBIE, then the process is a ZOMBIE.
ExitStates(p) ==
    LET toParent == WokenIn(state, parent[p])
        orphanZombie == \E q \in Slots : parent[q] = p /\ toParent[q] = "ZOMBIE"
        toInit == IF orphanZombie THEN WokenIn(toParent, InitProc) ELSE toParent
    IN  [toInit EXCEPT ![p] = "ZOMBIE"]

\* Mutant: abandoned children are not passed to init.
ExitAbandons(c, p) ==
    /\ At(c, p, "exit") /\ p # InitProc
    /\ lock = NULL
    /\ lock' = c
    /\ state' = ExitStates(p)
    /\ Goto(p, "none")
    /\ UNCHANGED <<pid, parent, chan, killed, freeze, pending, kstack,
                   nextpid, cpuVars, intr, child, sigi>>

Exit(c, p) ==
    /\ At(c, p, "exit") /\ p # InitProc
    /\ lock = NULL
    /\ lock' = c
    /\ state' = ExitStates(p)
    /\ parent' = [q \in Slots |-> IF parent[q] = p THEN InitProc ELSE parent[q]]
    /\ Goto(p, "none")
    /\ UNCHANGED <<pid, chan, killed, freeze, pending, kstack,
                   nextpid, cpuVars, intr, child, sigi>>

\* Mutant: wait() scans the table without the lock.
InWaitUnlocked(c, p) == Runs(c, p) /\ ~intr[p] /\ pc[p] = "wait"

\* p is about to scan the table in wait(): it enters the critical section,
\* or it comes back from sleep() with the lock scheduler() handed over.
InWait(c, p) ==
    /\ Runs(c, p) /\ ~intr[p] /\ pc[p] = "wait"
    /\ lock \in {NULL, c}

\* Mutant: wait() does not test p->parent.
ChildrenAny(p) == Slots \ {p}

Children(p) == {q \in Slots : parent[q] = p}

\* The first ZOMBIE child is freed.  freeze and pending_signals stay.
Reap(c, p) ==
    /\ InWait(c, p)
    /\ \E q \in Children(p) :
         /\ state[q] = "ZOMBIE"
         /\ \A r \in Children(p) : r < q => state[r] # "ZOMBIE"
         /\ kstack' = [kstack EXCEPT ![q] = FALSE]
         /\ pid' = [pid EXCEPT ![q] = 0]
         /\ parent' = [parent EXCEPT ![q] = NULL]
         /\ killed' = [killed EXCEPT ![q] = FALSE]
         /\ state' = [state EXCEPT ![q] = "UNUSED"]
    /\ chan' = [chan EXCEPT ![p] = NULL]
    /\ lock' = NULL
    /\ Goto(p, RetTo(p))
    /\ UNCHANGED <<freeze, pending, nextpid, cpuVars, intr, child, sigi>>

\* No children, or killed: wait() returns -1.
WaitFails(c, p) ==
    /\ InWait(c, p)
    /\ \A q \in Children(p) : state[q] # "ZOMBIE"
    /\ Children(p) = {} \/ killed[p]
    /\ chan' = [chan EXCEPT ![p] = NULL]
    /\ lock' = NULL
    /\ Goto(p, RetTo(p))
    /\ UNCHANGED <<state, pid, parent, killed, freeze, pending, kstack,
                   nextpid, cpuVars, intr, child, sigi>>

\* sleep(curproc, &ptable.lock) from wait(), up to swtch.
WaitSleep(c, p) ==
    /\ InWait(c, p)
    /\ \A q \in Children(p) : state[q] # "ZOMBIE"
    /\ Children(p) # {} /\ ~killed[p]
    /\ chan' = [chan EXCEPT ![p] = p]
    /\ state' = [state EXCEPT ![p] = "SLEEPING"]
    /\ lock' = c
    /\ UNCHANGED <<pid, parent, killed, freeze, pending, kstack,
                   nextpid, cpuVars, threadVars>>

-----------------------------------------------------------------------------
(* sys_sleep: the loop around sleep(&ticks, &tickslock).  The test of ticks *)
(* and the sleep are one step, since tickslock is held between them and the *)
(* timer takes it around its wakeup.                                        *)

\* Enough ticks have passed, or the process is killed.
SleepReturns(c, p) ==
    /\ At(c, p, "sleep")
    /\ Goto(p, RetTo(p))
    /\ UNCHANGED <<procVars, nextpid, lock, cpuVars, intr, child, sigi>>

SleepOnTicks(c, p) ==
    /\ At(c, p, "sleep") /\ ~killed[p]
    /\ lock = NULL
    /\ chan' = [chan EXCEPT ![p] = TICKS]
    /\ state' = [state EXCEPT ![p] = "SLEEPING"]
    /\ lock' = c
    /\ UNCHANGED <<pid, parent, killed, freeze, pending, kstack,
                   nextpid, cpuVars, threadVars>>

\* Back in sleep() from sched(): tidy up and release ptable.lock.
SleepResumes(c, p) ==
    /\ Runs(c, p) /\ lock = c /\ ~intr[p] /\ pc[p] = "sleep"
    /\ chan' = [chan EXCEPT ![p] = NULL]
    /\ lock' = NULL
    /\ UNCHANGED <<state, pid, parent, killed, freeze, pending, kstack,
                   nextpid, cpuVars, threadVars>>

-----------------------------------------------------------------------------
(* The timer interrupt and yield(). *)

\* Interrupts are enabled in user space and, after a system call's trap
\* gate, in the kernel outside critical sections.
Interruptible(c, p) ==
    /\ Runs(c, p) /\ lock # c /\ ~intr[p]
    /\ pc[p] \in KernelPCs \cup {"user"}

\* CPU 1 is the one whose cpuid() is 0: its timer interrupt also advances
\* ticks and wakes the sleepers.
TickWakes(c) ==
    IF c = 1 THEN lock = NULL /\ state' = WokenIn(state, TICKS) ELSE UNCHANGED state

\* Mutant: trap() ends an interrupt without the tests of killed.
NeverMustExit(p) == FALSE

\* trap() lines 100 and 110: killed, and interrupted in user space.
MustExit(p) == killed[p] /\ pc[p] = "user"

TimerIntr(c, p) ==
    /\ Interruptible(c, p)
    /\ TickWakes(c)
    /\ IF MustExit(p)
       THEN Goto(p, "exit") /\ UNCHANGED intr
       ELSE intr' = [intr EXCEPT ![p] = TRUE] /\ UNCHANGED pc
    /\ UNCHANGED <<pid, parent, chan, killed, freeze, pending, kstack,
                   nextpid, lock, cpuVars, child, sigi>>

\* A timer interrupt on a CPU whose scheduler() has nothing to run.
IdleTick(c) ==
    /\ c \notin halted /\ proc[c] = NULL /\ scan[c] = 0
    /\ TickWakes(c)
    /\ UNCHANGED <<pid, parent, chan, killed, freeze, pending, kstack,
                   nextpid, lock, cpuVars, threadVars>>

\* Mutant: yield() without acquire.
YieldUnlocked(c, p) ==
    /\ Runs(c, p) /\ lock = NULL /\ intr[p]
    /\ state' = [state EXCEPT ![p] = "RUNNABLE"]
    /\ UNCHANGED <<pid, parent, chan, killed, freeze, pending, kstack,
                   nextpid, lock, cpuVars, threadVars>>

\* yield() up to swtch.
Yield(c, p) ==
    /\ Runs(c, p) /\ lock = NULL /\ intr[p]
    /\ state' = [state EXCEPT ![p] = "RUNNABLE"]
    /\ lock' = c
    /\ UNCHANGED <<pid, parent, chan, killed, freeze, pending, kstack,
                   nextpid, cpuVars, threadVars>>

\* yield() after swtch: release, and return from the interrupt, to user space
\* through exit() or the signal runner, in the kernel to where it was.
YieldResumes(c, p) ==
    /\ Runs(c, p) /\ lock = c /\ intr[p]
    /\ lock' = NULL
    /\ intr' = [intr EXCEPT ![p] = FALSE]
    /\ IF pc[p] = "user"
       THEN Goto(p, IF MustExit(p) THEN "exit" ELSE "irqret")
       ELSE UNCHANGED pc
    /\ UNCHANGED <<procVars, nextpid, cpuVars, child, sigi>>

-----------------------------------------------------------------------------
(* trapret: sig_handler_runner() with default handlers and an empty mask. *)

InRunner(c, p) ==
    Runs(c, p) /\ lock # c /\ ~intr[p] /\ pc[p] \in {"trapret", "irqret"}

\* SIGSTOP_handler, SIGCONT_handler, SIGKILL_handler: every signal but the
\* first two has SIGKILL_handler's default action.
DefaultAction(p, sig) ==
    /\ freeze' = [freeze EXCEPT ![p] = IF sig = SIGSTOP THEN TRUE
                                       ELSE IF sig = SIGCONT THEN FALSE ELSE @]
    /\ killed' = [killed EXCEPT ![p] = @ \/ sig \notin {SIGSTOP, SIGCONT}]

RunSignal(c, p) ==
    /\ InRunner(c, p)
    /\ \E sig \in pending[p] :
         /\ sig >= sigi[p] /\ \A s \in pending[p] : s >= sigi[p] => sig <= s
         /\ pending' = [pending EXCEPT ![p] = @ \ {sig}]
         /\ sigi' = [sigi EXCEPT ![p] = sig + 1]
         /\ DefaultAction(p, sig)
    /\ UNCHANGED <<state, pid, parent, chan, kstack, nextpid, lock, cpuVars, pc, intr, child>>

RunnerDone(c, p) ==
    /\ InRunner(c, p)
    /\ \A s \in pending[p] : s < sigi[p]
    /\ sigi' = [sigi EXCEPT ![p] = 0]
    /\ Goto(p, "user")
    /\ UNCHANGED <<procVars, nextpid, lock, cpuVars, intr, child>>

-----------------------------------------------------------------------------
(* sched() and scheduler(). *)

\* Mutant: scheduler() advances its loop variable twice per process.
SchedSkips(c, p) ==
    /\ proc[c] = p /\ state[p] # "RUNNING" /\ lock = c
    /\ proc' = [proc EXCEPT ![c] = NULL]
    /\ scan' = [scan EXCEPT ![c] = p + 2]
    /\ UNCHANGED <<procVars, nextpid, lock, threadVars, halted>>

\* Mutant: scheduler() starts its loop again after each process.
SchedRestarts(c, p) ==
    /\ proc[c] = p /\ state[p] # "RUNNING" /\ lock = c
    /\ proc' = [proc EXCEPT ![c] = NULL]
    /\ scan' = [scan EXCEPT ![c] = 1]
    /\ UNCHANGED <<procVars, nextpid, lock, threadVars, halted>>

\* sched() switches from p's kernel stack to the scheduler's, which resumes
\* its loop after p.  The lock goes with the CPU.
Sched(c, p) ==
    /\ proc[c] = p /\ state[p] # "RUNNING" /\ lock = c
    /\ proc' = [proc EXCEPT ![c] = NULL]
    /\ scan' = [scan EXCEPT ![c] = p + 1]
    /\ UNCHANGED <<procVars, nextpid, lock, threadVars, halted>>

\* CPU c is in scheduler(), where its loop may reach slot p: in the loop with
\* the lock, or about to acquire it and start at the first slot.
InScheduler(c) ==
    /\ c \notin halted /\ proc[c] = NULL
    /\ IF scan[c] = 0 THEN lock = NULL ELSE lock = c

\* The loop does not pass p by: p is RUNNABLE and not frozen, or frozen with
\* SIGCONT pending.
Selectable(p) == state[p] = "RUNNABLE" /\ (freeze[p] => SIGCONT \in pending[p])

NextSelectable(c, p) ==
    /\ Selectable(p) /\ p >= scan[c]
    /\ \A q \in Slots : q < p /\ q >= scan[c] => ~Selectable(q)

\* The loop finds p and switches to it.
Dispatch(c, p) ==
    /\ InScheduler(c) /\ NextSelectable(c, p) /\ ~freeze[p]
    /\ lock' = c
    /\ proc' = [proc EXCEPT ![c] = p]
    /\ state' = [state EXCEPT ![p] = "RUNNING"]
    /\ UNCHANGED <<pid, parent, chan, killed, freeze, pending, kstack,
                   nextpid, scan, threadVars, halted>>

\* The loop finds a frozen p that was sent SIGCONT.  SIGCONT_handler() stores
\* through myproc(), which is null in the scheduler: the kernel page table
\* maps nothing there, so the store faults and trap() panics, with the lock.
ThawPanic(c, p) ==
    /\ InScheduler(c) /\ NextSelectable(c, p) /\ freeze[p]
    /\ lock' = c
    /\ halted' = halted \cup {c}
    /\ UNCHANGED <<procVars, nextpid, proc, scan, threadVars>>

\* The loop reaches the end of the table.
ScanEnds(c) ==
    /\ c \notin halted /\ proc[c] = NULL /\ scan[c] # 0
    /\ \A q \in Slots : q >= scan[c] => ~Selectable(q)
    /\ lock' = NULL
    /\ scan' = [scan EXCEPT ![c] = 0]
    /\ UNCHANGED <<procVars, nextpid, proc, halted, threadVars>>

-----------------------------------------------------------------------------

\* What the program on c may choose to do next.
UserStep(c, p) ==
    \/ SysExit(c, p) \/ SysWait(c, p) \/ SysSleep(c, p) \/ SysOther(c, p)
    \/ SysKill(c, p) \/ AllocProc(c, p) \/ UserFault(c, p)

\* What the kernel does on c on behalf of p.
KernelStep(c, p) ==
    \/ AllocPid(c, p) \/ AllocKstack(c, p) \/ KallocFails(c, p)
    \/ CopyProc(c, p) \/ CopyuvmFails(c, p) \/ RunChild(c, p) \/ ForkRet(c, p)
    \/ ExitPanic(c, p) \/ Exit(c, p)
    \/ Reap(c, p) \/ WaitFails(c, p) \/ WaitSleep(c, p)
    \/ SleepReturns(c, p) \/ SleepOnTicks(c, p) \/ SleepResumes(c, p)
    \/ Yield(c, p) \/ YieldResumes(c, p)
    \/ RunSignal(c, p) \/ RunnerDone(c, p) \/ Sched(c, p)

\* What scheduler() does on c.
SchedulerStep(c) == ScanEnds(c) \/ \E p \in Slots : Dispatch(c, p) \/ ThawPanic(c, p)

Next ==
    \E c \in CPUs :
      \/ SchedulerStep(c) \/ IdleTick(c)
      \/ \E p \in Slots :
           UserStep(c, p) \/ KilledAtEntry(c, p) \/ KernelStep(c, p) \/ TimerIntr(c, p)

Spec == Init /\ [][Next]_vars

-----------------------------------------------------------------------------

TypeOK ==
    /\ state \in [Slots -> States]
    /\ pid \in [Slots -> Nat]
    /\ parent \in [Slots -> Slots \cup {NULL}]
    /\ chan \in [Slots -> Slots \cup {NULL, TICKS}]
    /\ killed \in [Slots -> BOOLEAN]
    /\ freeze \in [Slots -> BOOLEAN]
    /\ pending \in [Slots -> SUBSET (0..31)]
    /\ kstack \in [Slots -> BOOLEAN]
    /\ nextpid \in Nat
    /\ lock \in CPUs \cup {NULL}
    /\ proc \in [CPUs -> Slots \cup {NULL}]
    /\ scan \in [CPUs -> 0..(NPROC + 1)]
    /\ pc \in [Slots -> PCs]
    /\ intr \in [Slots -> BOOLEAN]
    /\ child \in [Slots -> Slots \cup {NULL}]
    /\ sigi \in [Slots -> 0..32]
    /\ halted \subseteq CPUs

-----------------------------------------------------------------------------
(* Safety. *)

OnCpu(p) == {c \in CPUs : proc[c] = p}
Live == {"SLEEPING", "RUNNABLE", "RUNNING"}

\* No process runs on two CPUs; one that is RUNNING is on a CPU, and one that
\* is on a CPU in any other state is between its state change and the switch
\* to the scheduler, with ptable.lock held by that CPU (yield, sleep and exit
\* change the state before sched() leaves the kernel stack).
RunningOnOneCpu ==
    \A p \in Slots :
      /\ \A c, d \in OnCpu(p) : c = d
      /\ state[p] = "RUNNING" => OnCpu(p) # {}
      /\ \A c \in OnCpu(p) : state[p] # "RUNNING" => lock = c

\* ptable.lock crosses swtch: the thread that a CPU holding the lock resumes is
\* always one that will release it (yield, sleep, wait or forkret), so no
\* process reaches user space or another acquire with the lock still held.
LockHandoff ==
    \A c \in CPUs : lock = c =>
      \/ proc[c] = NULL /\ (scan[c] # 0 \/ c \in halted)
      \/ \E p \in Slots :
           /\ proc[c] = p
           /\ state[p] = "RUNNING" => intr[p] \/ pc[p] \in {"wait", "sleep", "forkret"}

\* Every process that can still execute has its kernel stack, the stack of a
\* free slot has been given back, and an EMBRYO belongs to exactly one fork()
\* in progress: neither a failing fork() nor wait() leaks a slot or a stack.
SlotsAccountedFor ==
    \A q \in Slots :
      /\ state[q] \in Live \cup {"ZOMBIE"} => kstack[q]
      /\ state[q] = "UNUSED" => ~kstack[q]
      /\ state[q] = "EMBRYO" <=> \E p \in Slots : child[p] = q
      /\ \A p, r \in Slots : child[p] = q /\ child[r] = q => p = r

\* Every process but init has a parent that can still call wait() for it,
\* whatever exits in whatever order, and init itself is never a ZOMBIE.
FamilyTree ==
    /\ state[InitProc] \in Live
    /\ \A q \in Slots \ {InitProc} :
         state[q] \in Live \cup {"ZOMBIE"} =>
           /\ parent[q] \in Slots \ {q}
           /\ state[parent[q]] \in Live

\* No process sleeps in wait() while it has a ZOMBIE child: the wakeup of
\* exit(), its own child's or the one for orphans handed to init, is not lost.
NoLostChildWakeup ==
    \A p, q \in Slots :
      state[p] = "SLEEPING" /\ pc[p] = "wait" /\ parent[q] = p => state[q] # "ZOMBIE"

\* Two slots never show kill() the same pid, although fork() publishes the pid
\* before the slot is ready and a failing kalloc() leaves it behind.
PidsUnique ==
    \A p, q \in Slots : pid[p] = pid[q] /\ pid[p] # 0 => p = q

\* A process marked killed executes no system call: it runs user code until
\* its next trap and then exits.
KilledNeverServed ==
    \A p \in Slots :
      killed[p] => pc[p] \in {"user", "trapret", "irqret", "exit", "none"}

\* A kernel stack is freed only when no CPU executes on it: wait() cannot
\* free the stack on which exit() is still on its way to the scheduler.
StackFreedOffCpu ==
    [][\A q \in Slots : kstack[q] /\ ~kstack'[q] => OnCpu(q) = {}]_vars

\* A process and a CPU find each other only through the scheduler: what runs
\* runs once, the lock comes back, and nobody's stack goes while it is in use.
CpusSound ==
    [][/\ RunningOnOneCpu'
       /\ LockHandoff'
       /\ \A q \in Slots : kstack[q] /\ ~kstack'[q] => OnCpu(q) = {}]_vars

\* A ZOMBIE leaves that state only by its parent's wait(), which makes the
\* slot UNUSED; no wakeup or signal revives it.
ZombieReapedByParent ==
    [][\A q \in Slots : state[q] = "ZOMBIE" /\ state'[q] # "ZOMBIE" =>
         /\ state'[q] = "UNUSED"
         /\ state[parent[q]] = "RUNNING" /\ pc[parent[q]] = "wait"]_vars

-----------------------------------------------------------------------------
(* Liveness. *)

\* Steps of p's own kernel thread, between interrupts.
Work(c, p) ==
    \/ AllocPid(c, p) \/ AllocKstack(c, p) \/ KallocFails(c, p)
    \/ CopyProc(c, p) \/ CopyuvmFails(c, p) \/ RunChild(c, p)
    \/ Exit(c, p) \/ ExitPanic(c, p) \/ Reap(c, p) \/ WaitFails(c, p) \/ WaitSleep(c, p)
    \/ SleepReturns(c, p) \/ SleepOnTicks(c, p)
    \/ RunSignal(c, p) \/ RunnerDone(c, p)

\* Steps by which a CPU switches between a process and its scheduler.
Switch(c, p) ==
    Yield(c, p) \/ YieldResumes(c, p) \/ SleepResumes(c, p) \/ ForkRet(c, p) \/ Sched(c, p)

\* The kernel's code keeps executing (a CPU that spins on ptable.lock gets it
\* eventually, and a kernel path advances between two interrupts), timer
\* interrupts keep coming, and init.c calls wait() again and again.  Nothing
\* is assumed of any other program.
Fairness ==
    /\ \A c \in CPUs :
         /\ SF_vars(SchedulerStep(c))
         /\ SF_vars(\E p \in Slots : TimerIntr(c, p))
         /\ SF_vars(\E p \in Slots : Switch(c, p))
    /\ \A p \in Slots : SF_vars(\E c \in CPUs : Work(c, p))
    /\ SF_vars(\E c \in CPUs : SysWait(c, InitProc))

FairSpec == Spec /\ Fairness

\* A ZOMBIE handed to init is reaped, unless the machine panics: init is woken
\* for it or finds it.
OrphanReaped ==
    \A q \in Slots :
      state[q] = "ZOMBIE" /\ parent[q] = InitProc ~> state[q] = "UNUSED" \/ halted # {}

\* scheduler()'s loop starves nobody: until a panic, a RUNNABLE process gets a
\* CPU.
RunnableRuns ==
    \A p \in Slots : state[p] = "RUNNABLE" /\ ~freeze[p] ~> state[p] = "RUNNING" \/ halted # {}

\* Until a panic, a process marked killed does exit, even if it never makes a
\* system call; unless it is stopped too.  (The pass of the runner that sets
\* killed may go on to SIGSTOP, and exit() may then be preempted: nobody
\* dispatches it again.)
KilledExits ==
    \A p \in Slots \ {InitProc} :
      killed[p] ~> state[p] \in {"ZOMBIE", "UNUSED"} \/ freeze[p] \/ halted # {}

=============================================================================
