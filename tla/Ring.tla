-------------------------------- MODULE Ring --------------------------------
(***************************************************************************)
(* Ring buffers whose indices run freely modulo the width of an unsigned   *)
(* integer and are reduced modulo the size of the ring when it is          *)
(* accessed: the pipe's and the console's.  The width is a multiple of the *)
(* size.  The lemmas about them are with the proofs that use them.         *)
(***************************************************************************)
EXTENDS Integers, Sequences

\* The n entries of the ring d of size p, from index x on.
Entries(d, p, x, n) == [k \in 1..n |-> d[(x + k - 1) % p]]

\* What the operations do to the ring and to the sequence, as operators: the
\* provers then compare whole terms where a lemma is applied.
Succ(x, w) == (x + 1) % w
Wrapped(a, w) == a % w
Place(x, m, p) == (x + m) % p
Rings(p, S) == [0..(p - 1) -> S]
Replaced(d, j, v) == [d EXCEPT ![j] = v]
Appended(s, v) == Append(s, v)
Dropped(s) == Tail(s)

\* The concatenation, as an operator.
Joined(s, t) == s \o t

\* All but the last entry.
WithoutLast(s) == SubSeq(s, 1, Len(s) - 1)
=============================================================================
