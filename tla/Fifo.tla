-------------------------------- MODULE Fifo --------------------------------
(***************************************************************************)
(* What a pipe promises: a bounded first-in first-out queue of bytes.  A   *)
(* read that returns nothing means that every writer has closed its end    *)
(* and the queue is drained; a write fails only if every reader has.       *)
(***************************************************************************)
EXTENDS Naturals, Sequences

CONSTANTS
    Procs,      \* the processes that share the pipe
    Bytes,      \* the byte values they write
    Capacity    \* how many bytes the queue holds

VARIABLES
    queue,              \* the bytes in the pipe
    readopen, writeopen,
    ret                 \* ret[p]: "none" during a call, then "ok", "eof" or "err"

vars == <<queue, readopen, writeopen, ret>>

Init ==
    /\ queue = <<>>
    /\ readopen = TRUE /\ writeopen = TRUE
    /\ ret = [p \in Procs |-> "ok"]

Call(p) ==
    /\ ret' = [ret EXCEPT ![p] = "none"]
    /\ UNCHANGED <<queue, readopen, writeopen>>

Put(b) ==
    /\ Len(queue) < Capacity
    /\ queue' = Append(queue, b)
    /\ UNCHANGED <<readopen, writeopen, ret>>

Get ==
    /\ queue # <<>>
    /\ queue' = Tail(queue)
    /\ UNCHANGED <<readopen, writeopen, ret>>

Return(p, r) ==
    /\ ret[p] = "none"
    /\ r = "eof" => queue = <<>> /\ ~writeopen
    /\ r = "err" => ~readopen
    /\ ret' = [ret EXCEPT ![p] = r]
    /\ UNCHANGED <<queue, readopen, writeopen>>

Close(p) ==
    /\ ret[p] = "none"
    /\ \/ readopen /\ readopen' = FALSE /\ UNCHANGED writeopen
       \/ writeopen /\ writeopen' = FALSE /\ UNCHANGED readopen
    /\ ret' = [ret EXCEPT ![p] = "ok"]
    /\ UNCHANGED queue

Next ==
    \/ \E p \in Procs : Call(p) \/ Close(p) \/ \E r \in {"ok", "eof", "err"} : Return(p, r)
    \/ \E b \in Bytes : Put(b)
    \/ Get

Spec == Init /\ [][Next]_vars

=============================================================================
