------------------------------ MODULE Spinlock ------------------------------
(***************************************************************************)
(* Spin-locks and the interrupt flag of a CPU: spinlock.c.                 *)
(*                                                                         *)
(* pushcli() and popcli() nest: the first one remembers whether interrupts *)
(* were on, the last one restores it.  holding(), which acquire() and      *)
(* release() call, nests another pair.  A CPU with interrupts off executes *)
(* each of these functions without a step in between, so that a function   *)
(* is an operator from one state of the CPU to the next; only the loop of  *)
(* acquire() is a step of its own.                                         *)
(***************************************************************************)
EXTENDS Integers

CONSTANTS
    CPUs,       \* the processors
    Locks       \* the spin-locks

NOCPU == -1

VARIABLES
    cli,        \* cli[c]: FL_IF of the processor, and ncli and intena of struct cpu
    lkcpu,      \* lkcpu[l]: lk->cpu while lk->locked, otherwise NOCPU
    panicked

spinVars == <<cli, lkcpu, panicked>>

SpinInit ==
    /\ cli = [c \in CPUs |-> [fl |-> TRUE, ncli |-> 0, intena |-> FALSE]]
    /\ lkcpu = [l \in Locks |-> NOCPU]
    /\ panicked = FALSE

\* Mutant: pushcli() overwrites what the first one remembered.
PushedForgetful(s) == [fl |-> FALSE, ncli |-> s.ncli + 1, intena |-> s.fl]

Pushed(s) ==
    [fl |-> FALSE, ncli |-> s.ncli + 1, intena |-> IF s.ncli = 0 THEN s.fl ELSE s.intena]

Popped(s) ==
    [fl |-> s.fl \/ (s.ncli = 1 /\ s.intena), ncli |-> s.ncli - 1, intena |-> s.intena]

\* "popcli - interruptible" and "popcli"
PopPanics(s) == s.fl \/ s.ncli < 1

Holding(c, l) == lkcpu[l] = c

\* acquire() up to its loop.
Acquire(c, l) ==
    /\ cli' = [cli EXCEPT ![c] = Popped(Pushed(Pushed(@)))]
    /\ panicked' = (panicked \/ Holding(c, l))
    /\ UNCHANGED lkcpu

\* The exchange that ends the loop of acquire().
Xchg(c, l) ==
    /\ lkcpu[l] = NOCPU
    /\ lkcpu' = [lkcpu EXCEPT ![l] = c]
    /\ UNCHANGED <<cli, panicked>>

Release(c, l) ==
    /\ lkcpu' = [lkcpu EXCEPT ![l] = NOCPU]
    /\ cli' = [cli EXCEPT ![c] = Popped(Popped(Pushed(@)))]
    /\ panicked' = (panicked \/ ~Holding(c, l) \/ PopPanics(cli[c]))

=============================================================================
