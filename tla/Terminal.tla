------------------------------ MODULE Terminal ------------------------------
(***************************************************************************)
(* What the console promises the processes that read it: what is typed is  *)
(* a line that can be edited until it is entered; entered characters are   *)
(* read in order, each once; a read returns nothing only when the end of   *)
(* file was typed at that point.                                           *)
(***************************************************************************)
EXTENDS Naturals, Sequences, SequencesExt

CONSTANTS
    Procs,          \* the processes that read
    Chars,          \* the characters that are stored, "nl" and "eof" included
    Capacity        \* how many characters are kept

VARIABLES
    queue,          \* entered and not read yet
    line,           \* typed and not entered yet
    reader          \* "idle", or in a read that has got nothing or something

vars == <<queue, line, reader>>

Init == queue = <<>> /\ line = <<>> /\ reader = [p \in Procs |-> "idle"]

Type(ch) ==
    LET typed == Append(line, ch) IN
    /\ Len(queue) + Len(line) < Capacity
    /\ IF ch \in {"nl", "eof"} \/ Len(queue) + Len(typed) = Capacity
       THEN queue' = queue \o typed /\ line' = <<>>
       ELSE line' = typed /\ UNCHANGED queue
    /\ UNCHANGED reader

Erase == line # <<>> /\ line' = Front(line) /\ UNCHANGED <<queue, reader>>

Kill == line' = <<>> /\ UNCHANGED <<queue, reader>>

Call(p) ==
    /\ reader[p] = "idle" /\ reader' = [reader EXCEPT ![p] = "empty"]
    /\ UNCHANGED <<queue, line>>

\* A character, with or without the end of the read.
Get(p) ==
    /\ reader[p] # "idle" /\ queue # <<>> /\ Head(queue) # "eof"
    /\ queue' = Tail(queue)
    /\ \E s \in {"idle", "some"} : reader' = [reader EXCEPT ![p] = s]
    /\ UNCHANGED line

\* An end of file ends a read that has some characters, and stays.
Return(p) ==
    /\ reader[p] = "some" /\ queue # <<>> /\ Head(queue) = "eof"
    /\ reader' = [reader EXCEPT ![p] = "idle"]
    /\ UNCHANGED <<queue, line>>

\* A read that has none returns 0 for it.
Eof(p) ==
    /\ reader[p] = "empty" /\ queue # <<>> /\ Head(queue) = "eof"
    /\ queue' = Tail(queue)
    /\ reader' = [reader EXCEPT ![p] = "idle"]
    /\ UNCHANGED line

Next ==
    \/ \E ch \in Chars : Type(ch)
    \/ Erase \/ Kill
    \/ \E p \in Procs : Call(p) \/ Get(p) \/ Return(p) \/ Eof(p)

Spec == Init /\ [][Next]_vars

=============================================================================
