---------------------------- MODULE Transactions ----------------------------
(***************************************************************************)
(* What the file-system log promises: the blocks written between begin_op  *)
(* and end_op reach the disk all together with those of the other calls of *)
(* the same group, only when no call of the group is still writing, or not *)
(* at all; a crash takes the file system back to the last commit.          *)
(***************************************************************************)
EXTENDS Naturals

CONSTANTS
    Blocks,     \* home block numbers
    Procs,      \* processes making file-system calls
    Vals        \* block contents

VARIABLES
    cur,        \* cur[b]: what file-system calls read in block b
    stable,     \* stable[b]: what block b holds after a crash and recovery
    active      \* the processes between begin_op and end_op

vars == <<cur, stable, active>>

Init ==
    /\ cur \in [Blocks -> Vals]
    /\ stable = cur
    /\ active = {}

Begin(p) ==
    /\ p \notin active
    /\ active' = active \cup {p}
    /\ UNCHANGED <<cur, stable>>

Write(p) ==
    /\ p \in active
    /\ \E b \in Blocks, v \in Vals : cur' = [cur EXCEPT ![b] = v]
    /\ UNCHANGED <<stable, active>>

End(p) ==
    /\ p \in active
    /\ active' = active \ {p}
    /\ UNCHANGED <<cur, stable>>

Commit ==
    /\ active = {}
    /\ stable' = cur
    /\ UNCHANGED <<cur, active>>

Crash ==
    /\ cur' = stable
    /\ active' = {}
    /\ UNCHANGED stable

Next == (\E p \in Procs : Begin(p) \/ Write(p) \/ End(p)) \/ Commit \/ Crash

Spec == Init /\ [][Next]_vars

=============================================================================
