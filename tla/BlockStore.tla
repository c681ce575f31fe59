----------------------------- MODULE BlockStore -----------------------------
(***************************************************************************)
(* What the buffer cache promises its callers: an array of disk blocks,    *)
(* each in the hands of at most one process at a time, which changes only  *)
(* when the process that has a block writes it.                            *)
(***************************************************************************)
CONSTANTS
    Procs,      \* the processes that use the cache
    Blocks,     \* the blocks of the disk
    Data        \* what a block may contain

VARIABLES
    content,    \* content[k]: the current contents of block k
    holders     \* holders[k]: who has block k between bread() and brelse()

vars == <<content, holders>>

Init == content \in [Blocks -> Data] /\ holders = [k \in Blocks |-> {}]

Take(p, k) ==
    /\ holders[k] = {}
    /\ holders' = [holders EXCEPT ![k] = {p}]
    /\ UNCHANGED content

Write(p, k, v) ==
    /\ holders[k] = {p}
    /\ content' = [content EXCEPT ![k] = v]
    /\ UNCHANGED holders

Give(p, k) ==
    /\ holders[k] = {p}
    /\ holders' = [holders EXCEPT ![k] = {}]
    /\ UNCHANGED content

Next ==
    \E p \in Procs, k \in Blocks :
      \/ Take(p, k) \/ Give(p, k)
      \/ \E v \in Data : Write(p, k, v)

Spec == Init /\ [][Next]_vars

=============================================================================
