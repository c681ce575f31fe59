----------------------------- MODULE PipeProofs -----------------------------
(***************************************************************************)
(* Proofs about Pipe, for any number of processes, any ring and any width  *)
(* of its counters that the ring's size divides.                           *)
(***************************************************************************)
EXTENDS Pipe, Ring, SequenceTheorems, TLAPS

-----------------------------------------------------------------------------
(* Rings of entries. *)

\* The quotient and the remainder.
LEMMA DivMod ==
    ASSUME NEW a \in Nat, NEW m \in Nat \ {0}
    PROVE  /\ (a % m) \in 0..(m - 1)
           /\ a = m * (a \div m) + (a % m)
           /\ (a \div m) \in Nat
OBVIOUS

\* The remainder is the only one.
LEMMA ModUnique ==
    ASSUME NEW a \in Nat, NEW m \in Nat \ {0}, NEW q \in Nat, NEW y \in 0..(m - 1),
           a = m * q + y
    PROVE  a % m = y
<1>1. PICK z \in 0..(m - 1), o \in Nat : z = a % m /\ a = m * o + z
  BY DivMod
<1>2. \A j \in Nat, k \in Nat : k > j => m * k >= m * j + m
  <2>1. ASSUME NEW j \in Nat, NEW k \in Nat, k > j PROVE m * k >= m * j + m
    <3>1. PICK l \in Nat : k = j + 1 + l
      <4>1. k - j - 1 \in Nat /\ k = j + 1 + (k - j - 1)
        BY <2>1
      <4>2. QED
        BY <4>1
    <3>2. m * (j + 1 + l) = m * j + m + m * l /\ m * l >= 0
      OBVIOUS
    <3>3. (m * j) \in Nat /\ (m * l) \in Nat
      OBVIOUS
    <3>4. QED
      BY <3>1, <3>2, <3>3
  <2>2. QED
    BY <2>1
<1>3. (m * q) \in Nat /\ (m * o) \in Nat
  BY <1>1
<1>4. ~(o > q) /\ ~(q > o)
  BY <1>1, <1>2, <1>3
<1>5. o = q
  BY <1>1, <1>4
<1>6. QED
  BY <1>1, <1>3, <1>5

\* An index below twice the width is reduced by a comparison.
LEMMA ModStep ==
    ASSUME NEW m \in Nat \ {0}, NEW a \in Nat, a < 2 * m
    PROVE  a % m = IF a < m THEN a ELSE a - m
<1>1. CASE a < m
  <2>1. a = m * 0 + a /\ a \in 0..(m - 1) /\ 0 \in Nat
    BY <1>1
  <2>2. QED
    BY <1>1, <2>1, ModUnique
<1>2. CASE a >= m
  <2>1. a = m * 1 + (a - m) /\ (a - m) \in 0..(m - 1) /\ 1 \in Nat
    BY <1>2
  <2>2. QED
    BY <1>2, <2>1, ModUnique
<1>3. QED
  BY <1>1, <1>2

\* Reducing an index by the width first changes no place in the ring.
LEMMA ModOfMod ==
    ASSUME NEW p \in Nat \ {0}, NEW u \in Nat \ {0}, u % p = 0, NEW a \in Nat, NEW k \in Nat
    PROVE  ((a % u) + k) % p = (a + k) % p
<1> DEFINE c == u \div p
           q == a \div u
           y == a % u
<1>1. c \in Nat /\ u = p * c
  <2>1. c \in Nat /\ u = p * c + (u % p)
    BY DivMod
  <2>2. QED
    BY <2>1
<1>2. q \in Nat /\ y \in 0..(u - 1) /\ a = u * q + y
  BY DivMod
<1> HIDE DEF c, q, y
<1>3. (y + k) \in Nat
  BY <1>2
<1> DEFINE s == (y + k) % p
           t == (y + k) \div p
<1>4. s \in 0..(p - 1) /\ t \in Nat /\ y + k = p * t + s
  BY <1>3, DivMod
<1> HIDE DEF s, t
<1>5. a + k = p * (c * q + t) + s
  <2>1. u * q = p * (c * q)
    BY <1>1, <1>2
  <2>2. (c * q) \in Nat
    BY <1>1, <1>2
  <2>3. p * (c * q + t) = p * (c * q) + p * t
    BY <2>2, <1>4
  <2>4. (p * (c * q)) \in Int /\ (p * t) \in Int /\ (u * q) \in Int
    BY <1>1, <1>2, <1>4, <2>2
  <2> DEFINE X == p * (c * q)
             Y == p * t
             Z == u * q
  <2>5. a = Z + y /\ y + k = Y + s /\ Z = X /\ X \in Int /\ Y \in Int
    BY <1>2, <1>4, <2>1, <2>4
  <2>6. p * (c * q + t) = X + Y
    BY <2>3
  <2> HIDE DEF X, Y, Z
  <2>7. a + k = (X + Y) + s
    BY <1>2, <1>4, <2>5
  <2>8. QED
    BY <2>6, <2>7
<1>6. (c * q + t) \in Nat /\ (a + k) \in Nat
  BY <1>1, <1>2, <1>4
<1>7. (a + k) % p = s
  BY <1>4, <1>5, <1>6, ModUnique
<1>8. QED
  BY <1>7 DEF s, y

\* Two indices less than the size apart are two places.
LEMMA ModApart ==
    ASSUME NEW p \in Nat \ {0}, NEW a \in Nat, NEW b \in Nat, a < b, b - a < p
    PROVE  a % p # b % p
<1> SUFFICES ASSUME a % p = b % p PROVE FALSE
  OBVIOUS
<1> DEFINE qa == a \div p
           qb == b \div p
           y == a % p
<1>1. qa \in Nat /\ a = p * qa + y /\ y \in 0..(p - 1)
  BY DivMod
<1>2. qb \in Nat /\ b = p * qb + y
  BY DivMod
<1> HIDE DEF qa, qb, y
<1>3. b - a = p * (qb - qa)
  BY <1>1, <1>2
<1>4. qb - qa >= 1 \/ qb - qa <= 0
  BY <1>1, <1>2
<1>5. p * (qb - qa) >= p \/ p * (qb - qa) <= 0
  BY <1>1, <1>2, <1>4
<1>6. QED
  <2>1. PICK z \in Int : z = p * (qb - qa)
    BY <1>1, <1>2
  <2>2. b - a = z /\ (z >= p \/ z <= 0)
    BY <1>3, <1>5, <2>1
  <2>3. QED
    BY <2>2

\* A ring without entries, and how many there are.
LEMMA EntriesLen ==
    ASSUME NEW d, NEW p, NEW x, NEW h \in Nat
    PROVE  Len(Entries(d, p, x, h)) = h /\ (h = 0 <=> Entries(d, p, x, h) = <<>>)
  BY DEF Entries

\* Writing the place after the last entry appends.
LEMMA EntriesAppend ==
    ASSUME NEW p \in Nat \ {0}, NEW S, NEW d \in [0..(p - 1) -> S], NEW v \in S,
           NEW x \in Nat, NEW h \in Nat, h < p
    PROVE  Entries(Replaced(d, (x + h) % p, v), p, x, h + 1) = Appended(Entries(d, p, x, h), v)
<1> DEFINE d2 == [d EXCEPT ![(x + h) % p] = v]
           old == Entries(d, p, x, h)
           new == Entries(d2, p, x, h + 1)
<1>1. \A k \in 1..(h + 1) : (x + k - 1) \in Nat /\ (x + k - 1) % p \in 0..(p - 1)
  <2>1. ASSUME NEW k \in 1..(h + 1) PROVE (x + k - 1) \in Nat
    OBVIOUS
  <2>2. \A a \in Nat : a % p \in 0..(p - 1)
    BY DivMod
  <2>3. QED
    BY <2>1, <2>2
<1>2. \A k \in 1..h : d2[(x + k - 1) % p] = d[(x + k - 1) % p]
  <2> TAKE k \in 1..h
  <2> DEFINE a == x + k - 1
             b == x + h
  <2>1. a \in Nat /\ b \in Nat /\ a < b /\ b - a < p
    OBVIOUS
  <2> HIDE DEF a, b
  <2>2. a % p # b % p
    BY <2>1, ModApart
  <2>3. (x + k - 1) % p # (x + h) % p
    BY <2>2 DEF a, b
  <2>4. QED
    BY <2>3, <1>1
<1>3. d2[(x + (h + 1) - 1) % p] = v
  BY <1>1
<1>4. old \in Seq(S) /\ Len(old) = h
  BY <1>1 DEF Entries
<1>5. new \in Seq(S) /\ Len(new) = h + 1
  <2>1. d2 \in [0..(p - 1) -> S]
    OBVIOUS
  <2> HIDE DEF d2
  <2>2. \A k \in 1..(h + 1) : d2[(x + k - 1) % p] \in S
    BY <1>1, <2>1
  <2>3. new = [k \in 1..(h + 1) |-> d2[(x + k - 1) % p]]
    BY DEF Entries
  <2> HIDE DEF new
  <2>4. new \in [1..(h + 1) -> S]
    BY <2>2, <2>3
  <2>5. QED
    BY <2>4
<1>6. \A k \in 1..h : new[k] = old[k]
  BY <1>2 DEF Entries
<1>7. new[h + 1] = v
  BY <1>3 DEF Entries
<1>8. Append(old, v) \in Seq(S) /\ Len(Append(old, v)) = h + 1
      /\ (\A k \in 1..h : Append(old, v)[k] = old[k]) /\ Append(old, v)[h + 1] = v
  BY <1>4, AppendProperties
<1>9. \A k \in 1..(h + 1) : new[k] = Append(old, v)[k]
  <2> TAKE k \in 1..(h + 1)
  <2>1. k \in 1..h \/ k = h + 1
    OBVIOUS
  <2> HIDE DEF new, old
  <2>2. QED
    BY <2>1, <1>6, <1>7, <1>8
<1> HIDE DEF new, old
<1>10. QED
  BY <1>5, <1>8, <1>9, SeqEqual DEF new, old, Replaced, Appended

\* Advancing the first index removes the first entry.
LEMMA EntriesTail ==
    ASSUME NEW p \in Nat \ {0}, NEW u \in Nat \ {0}, u % p = 0,
           NEW d, NEW x \in Nat, NEW h \in Nat \ {0}
    PROVE  Entries(d, p, Succ(x, u), h - 1) = Dropped(Entries(d, p, x, h))
<1> DEFINE S == {d[j] : j \in 0..(p - 1)}
           old == Entries(d, p, x, h)
           new == Entries(d, p, (x + 1) % u, h - 1)
<1>1. \A k \in Nat : (x + k) % p \in 0..(p - 1)
  BY DivMod
<1>2. \A k \in 1..(h - 1) : (((x + 1) % u) + k - 1) % p = (x + (k + 1) - 1) % p
  <2> TAKE k \in 1..(h - 1)
  <2>1. (k - 1) \in Nat /\ (x + 1) \in Nat
    OBVIOUS
  <2> DEFINE a == x + 1
             b == k - 1
  <2>2. a \in Nat /\ b \in Nat
    BY <2>1
  <2> HIDE DEF a, b
  <2>3. \A g, j \in Nat : ((g % u) + j) % p = (g + j) % p
    BY ModOfMod
  <2>4. ((a % u) + b) % p = (a + b) % p
    BY <2>2, <2>3
  <2>5. (((x + 1) % u) + (k - 1)) % p = ((x + 1) + (k - 1)) % p
    BY <2>4 DEF a, b
  <2>6. (x + 1) % u \in Nat
    <3>1. (x + 1) % u \in 0..(u - 1)
      BY DivMod, <2>1
    <3>2. QED
      BY <3>1
  <2>7. QED
    BY <2>5, <2>6
<1>3. old \in Seq(S) /\ Len(old) = h /\ old # <<>>
  <2>1. ASSUME NEW k \in 1..h PROVE (x + k - 1) % p \in 0..(p - 1)
    <3>1. k - 1 \in Nat /\ x + k - 1 = x + (k - 1)
      OBVIOUS
    <3>2. QED
      BY <1>1, <3>1
  <2>2. \A k \in 1..h : d[(x + k - 1) % p] \in S
    BY <2>1
  <2> HIDE DEF S
  <2>3. old \in [1..h -> S]
    BY <2>2 DEF Entries
  <2>4. QED
    BY <2>3
<1>4. new \in Seq(S) /\ Len(new) = h - 1
  <2>1. ASSUME NEW k \in 1..(h - 1) PROVE (((x + 1) % u) + k - 1) % p \in 0..(p - 1)
    <3>1. k \in Nat /\ x + (k + 1) - 1 = x + k
      OBVIOUS
    <3>2. QED
      BY <1>1, <1>2, <3>1
  <2>2. \A k \in 1..(h - 1) : d[(((x + 1) % u) + k - 1) % p] \in S
    BY <2>1
  <2> HIDE DEF S
  <2>3. new = [k \in 1..(h - 1) |-> d[(((x + 1) % u) + k - 1) % p]]
    BY DEF Entries
  <2> HIDE DEF new
  <2>4. new \in [1..(h - 1) -> S]
    BY <2>2, <2>3
  <2>5. QED
    BY <2>4
<1>5. \A k \in 1..(h - 1) : new[k] = old[k + 1]
  BY <1>2 DEF Entries
<1> HIDE DEF new, old
<1>6. Tail(old) \in Seq(S) /\ Len(Tail(old)) = h - 1 /\ \A k \in 1..(h - 1) : Tail(old)[k] = old[k + 1]
  BY <1>3, HeadTailProperties
<1>7. QED
  <2> HIDE DEF S
  <2>1. new = Tail(old)
    BY <1>4, <1>5, <1>6, SeqEqual
  <2>2. QED
    BY <2>1 DEF new, old, Dropped, Succ

-----------------------------------------------------------------------------
(* The inductive invariant. *)

\* The two locks are held exactly where the code is between acquire() and
\* release(): p->lock inside a call, ptable.lock on the way to sleep.
LocksInv ==
    /\ \A p \in Procs : lock = p <=> pc[p] = "in"
    /\ \A p \in Procs : ptlock = p <=> pc[p] = "tosleep"

\* A process inside a call has the end that the call is on, or has just given
\* up the last reference to it; then the end is still open.
CallsInv ==
    \A p \in Procs : pc[p] # "idle" =>
      /\ ret[p] = "none"
      /\ call[p] = "read" => p \in rd
      /\ call[p] = "write" => p \in wr
      /\ call[p] = "closer" => rd = {} /\ readopen /\ pc[p] \in {"acquire", "in"}
      /\ call[p] = "closew" => wr = {} /\ writeopen /\ pc[p] \in {"acquire", "in"}
      /\ \A q \in Procs : pc[q] # "idle" /\ call[p] = call[q] /\ call[p] \in {"closer", "closew"}
                            => p = q

\* An end is closed when nobody has it, and the pipe freed when both are.
EndsInv ==
    /\ rd # {} => readopen
    /\ wr # {} => writeopen
    /\ freed => ~readopen /\ ~writeopen

\* The ring never holds more than it has room for.
RingInv == Used <= PIPESIZE

\* The holder of p->lock has changed the ring and has not called wakeup() yet.
WillWake(ch) ==
    \E p \in Procs : /\ pc[p] = "in" /\ i[p] > 0
                     /\ call[p] = IF ch = "nread" THEN "write" ELSE "read"

\* A sleeper has a reason, or will be woken before p->lock is free.
SleepInv ==
    \A p \in Procs : pc[p] \in {"tosleep", "asleep"} =>
      \/ /\ chan[p] = "nread" /\ call[p] = "read"
         /\ (Empty /\ writeopen) \/ WillWake("nread")
      \/ /\ chan[p] = "nwrite" /\ call[p] = "write"
         /\ (Full /\ readopen) \/ WillWake("nwrite")

IInv == TypeOK /\ LocksInv /\ CallsInv /\ EndsInv /\ RingInv /\ SleepInv

-----------------------------------------------------------------------------
(* The counters. *)

\* How far one counter is ahead of another.
LEMMA Distance ==
    ASSUME NEW x \in Counters, NEW y \in Counters
    PROVE  (y + WRAP - x) % WRAP = IF y >= x THEN y - x ELSE y + WRAP - x
<1> DEFINE z == y + WRAP - x
<1>1. WRAP \in Nat \ {0} /\ x \in 0..(WRAP - 1) /\ y \in 0..(WRAP - 1)
  BY RingAssumption DEF Counters
<1>2. z \in Nat /\ z < 2 * WRAP /\ (z < WRAP <=> y < x)
  BY <1>1
<1> HIDE DEF z
<1>3. z % WRAP = IF z < WRAP THEN z ELSE z - WRAP
  BY <1>1, <1>2, ModStep
<1>4. QED
  BY <1>1, <1>2, <1>3 DEF z

\* The number of bytes without the modulus, and what the code's tests of the
\* counters say about it.
LEMMA Counting ==
    ASSUME TypeOK
    PROVE  /\ Used = IF nwrite >= nread THEN nwrite - nread ELSE nwrite + WRAP - nread
           /\ Used \in 0..(WRAP - 1)
           /\ Empty <=> Used = 0
           /\ RingInv => (Full <=> Used = PIPESIZE)
<1>1. /\ WRAP \in Nat \ {0} /\ PIPESIZE \in Nat \ {0} /\ PIPESIZE < WRAP
      /\ nread \in 0..(WRAP - 1) /\ nwrite \in 0..(WRAP - 1)
  BY RingAssumption DEF TypeOK, Counters
<1>2. Used = IF nwrite >= nread THEN nwrite - nread ELSE nwrite + WRAP - nread
  BY Distance DEF TypeOK, Used
<1>3. (nread + PIPESIZE) % WRAP = IF nread + PIPESIZE < WRAP THEN nread + PIPESIZE
                                  ELSE nread + PIPESIZE - WRAP
  <2> DEFINE x == nread + PIPESIZE
  <2>1. x \in Nat /\ x < 2 * WRAP
    BY <1>1
  <2> HIDE DEF x
  <2>2. x % WRAP = IF x < WRAP THEN x ELSE x - WRAP
    BY <1>1, <2>1, ModStep
  <2>3. QED
    BY <1>1, <2>2 DEF x
<1>4. QED
  BY <1>1, <1>2, <1>3 DEF Empty, Full, RingInv

\* A counter that is incremented.
LEMMA Increment ==
    ASSUME NEW x \in Counters
    PROVE  (x + 1) % WRAP \in Counters /\ (x + 1) % WRAP = IF x + 1 = WRAP THEN 0 ELSE x + 1
<1> DEFINE y == x + 1
<1>1. WRAP \in Nat \ {0} /\ x \in 0..(WRAP - 1) /\ y \in Nat /\ y < 2 * WRAP
  BY RingAssumption DEF Counters
<1> HIDE DEF y
<1>2. y % WRAP = IF y < WRAP THEN y ELSE y - WRAP
  BY <1>1, ModStep
<1>3. QED
  BY <1>1, <1>2 DEF y, Counters

\* What the three kinds of steps do to the number of bytes.
LEMMA UsedSteps ==
    ASSUME TypeOK, TypeOK', RingInv
    PROVE  /\ \A p \in Procs, b \in Bytes : WriteByte(p, b) => Used' = Used + 1 /\ Used < PIPESIZE
           /\ \A p \in Procs : ReadByte(p) => Used' = Used - 1 /\ Used > 0
           /\ UNCHANGED ring => Used' = Used
<1>1. /\ WRAP \in Nat \ {0} /\ PIPESIZE \in Nat \ {0} /\ PIPESIZE < WRAP
      /\ nread \in 0..(WRAP - 1) /\ nwrite \in 0..(WRAP - 1)
  BY RingAssumption DEF TypeOK, Counters
<1>2. Used' = IF nwrite' >= nread' THEN nwrite' - nread' ELSE nwrite' + WRAP - nread'
  BY Distance DEF TypeOK, Used
<1>3. ASSUME NEW p \in Procs, NEW b \in Bytes, WriteByte(p, b)
      PROVE  Used' = Used + 1 /\ Used < PIPESIZE
  <2>1. nwrite' = IF nwrite + 1 = WRAP THEN 0 ELSE nwrite + 1
    BY <1>3, Increment DEF WriteByte, TypeOK
  <2>2. nread' = nread /\ ~Full
    BY <1>3 DEF WriteByte
  <2>3. Used < PIPESIZE /\ Used \in Nat
    BY <1>1, <2>2, Counting DEF RingInv
  <2>4. QED
    BY <1>1, <1>2, <2>1, <2>2, <2>3, Counting
<1>4. ASSUME NEW p \in Procs, ReadByte(p)
      PROVE  Used' = Used - 1 /\ Used > 0
  <2>1. nread' = IF nread + 1 = WRAP THEN 0 ELSE nread + 1
    BY <1>4, Increment DEF ReadByte, TypeOK
  <2>2. nwrite' = nwrite /\ ~Empty
    BY <1>4 DEF ReadByte
  <2>3. Used > 0 /\ Used \in Nat
    BY <2>2, Counting
  <2>4. QED
    BY <1>1, <1>2, <2>1, <2>2, <2>3, Counting
<1>5. UNCHANGED ring => Used' = Used
  BY DEF ring, Used
<1>6. QED
  BY <1>3, <1>4, <1>5

-----------------------------------------------------------------------------
(* Every step preserves every part of the invariant. *)

\* A new pipe satisfies the invariant.
LEMMA InitIInv == Init => IInv
<1> SUFFICES ASSUME Init PROVE IInv
  OBVIOUS
<1> USE EndsAssumption DEF Init
<1>1. TypeOK
  <2>1. 0 \in Counters
    BY RingAssumption DEF Counters
  <2>2. n \in [Procs -> Sizes \cup {0}] /\ i \in [Procs -> Nat] /\ \A p \in Procs : i[p] <= n[p]
    OBVIOUS
  <2>3. QED
    BY <2>1, <2>2 DEF TypeOK, NOBODY
<1>2. LocksInv /\ CallsInv /\ EndsInv /\ SleepInv
  BY DEF LocksInv, CallsInv, EndsInv, SleepInv, NOBODY
<1>3. RingInv
  <2>1. Used = 0
    BY <1>1, Counting
  <2>2. QED
    BY <2>1, RingAssumption DEF RingInv
<1>4. QED
  BY <1>1, <1>2, <1>3 DEF IInv

\* The number of bytes of a call is a natural number.
LEMMA SizesNat == TypeOK => \A p \in Procs : n[p] \in Nat
<1>1. Sizes \cup {0} \subseteq Nat
  BY RingAssumption
<1>2. QED
  BY <1>1 DEF TypeOK

\* A step that wakes others changes nobody else's program counter otherwise.
LEMMA Waking ==
    ASSUME TypeOK, NEW p \in Procs,
           \/ WriteSleep(p) \/ ReadSleep(p) \/ WriteFails(p) \/ WriteDone(p) \/ ReadDone(p)
           \/ PipeClose(p)
    PROVE  /\ WriteSleep(p) \/ ReadSleep(p) => pc'[p] = "tosleep"
           /\ WriteFails(p) \/ WriteDone(p) \/ ReadDone(p) \/ PipeClose(p) => pc'[p] = "idle"
           /\ \A q \in Procs \ {p} : pc'[q] = pc[q] \/ (pc[q] = "asleep" /\ pc'[q] = "acquire")
           /\ \A q \in Procs \ {p} : chan'[q] = chan[q]
<1> USE DEF TypeOK
<1>1. ASSUME WriteFails(p) \/ WriteDone(p) \/ ReadDone(p) \/ PipeClose(p)
      PROVE  ~WriteSleep(p) /\ ~ReadSleep(p)
  <2>1. pc'[p] = "idle"
    BY <1>1 DEF WriteFails, WriteDone, ReadDone, PipeClose, WakeAndReturn, WokenOn
  <2>2. QED
    BY <2>1 DEF WriteSleep, ReadSleep, SleepOn, WokenOn
<1>2. CASE WriteSleep(p)
  BY <1>2, <1>1 DEF WriteSleep, SleepOn, WokenOn
<1>3. CASE ReadSleep(p)
  BY <1>3, <1>1 DEF ReadSleep, SleepOn
<1>4. CASE WriteFails(p)
  BY <1>1, <1>4 DEF WriteFails
<1>5. CASE WriteDone(p)
  BY <1>1, <1>5 DEF WriteDone, WakeAndReturn, WokenOn
<1>6. CASE ReadDone(p)
  BY <1>1, <1>6 DEF ReadDone, WakeAndReturn, WokenOn
<1>7. CASE PipeClose(p)
  <2>1. PICK ch : pc' = [WokenOn(pc, ch) EXCEPT ![p] = "idle"] /\ UNCHANGED chan
    BY <1>7 DEF PipeClose, WakeAndReturn
  <2>2. QED
    BY <1>1, <1>7, <2>1 DEF WokenOn
<1>8. QED
  BY <1>2, <1>3, <1>4, <1>5, <1>6, <1>7

\* Every step of the pipe keeps the types of its variables.
LEMMA TypeStep ==
    ASSUME TypeOK, [Next]_vars
    PROVE  TypeOK'
<1> USE EndsAssumption DEF TypeOK, In, ring, ends, locals
<1>1. CASE UNCHANGED vars
  BY <1>1 DEF vars
<1>2. ASSUME NEW p \in Procs, NEW k \in Sizes, Read(p, k) \/ Write(p, k)
      PROVE  TypeOK'
  BY <1>2, RingAssumption DEF Read, Write, StartCall
<1>3. ASSUME NEW p \in Procs, CloseRead(p) \/ CloseWrite(p)
      PROVE  TypeOK'
  BY <1>3 DEF CloseRead, CloseWrite, StartCall
<1>4. ASSUME NEW p \in Procs, Kill(p) \/ Enter(p) \/ Sleeps(p)
      PROVE  TypeOK'
  BY <1>4 DEF Kill, Enter, Sleeps
<1>5. ASSUME NEW p \in Procs, NEW b \in Bytes, WriteByte(p, b)
      PROVE  TypeOK'
  <2>1. nwrite' \in Counters
    BY <1>5, Increment DEF WriteByte
  <2>2. data' \in [Slots -> Bytes]
    BY <1>5 DEF WriteByte
  <2>3. i' \in [Procs -> Nat] /\ \A q \in Procs : i'[q] <= n[q]
    <3>1. n[p] \in Nat /\ i[p] < n[p] /\ i' = [i EXCEPT ![p] = @ + 1]
      BY <1>5, SizesNat DEF WriteByte
    <3>2. QED
      BY <3>1
  <2>4. QED
    BY <1>5, <2>1, <2>2, <2>3 DEF WriteByte
<1>6. ASSUME NEW p \in Procs, ReadByte(p)
      PROVE  TypeOK'
  <2>1. nread' \in Counters
    BY <1>6, Increment DEF ReadByte
  <2>2. i' \in [Procs -> Nat] /\ \A q \in Procs : i'[q] <= n[q]
    <3>1. n[p] \in Nat /\ i[p] < n[p] /\ i' = [i EXCEPT ![p] = @ + 1]
      BY <1>6, SizesNat DEF ReadByte
    <3>2. QED
      BY <3>1
  <2>3. QED
    BY <1>6, <2>1, <2>2 DEF ReadByte
<1>7. ASSUME NEW p \in Procs, WriteSleep(p) \/ ReadSleep(p)
      PROVE  TypeOK'
  BY <1>7 DEF WriteSleep, ReadSleep, SleepOn, WokenOn
<1>8. ASSUME NEW p \in Procs, WriteFails(p) \/ WriteDone(p) \/ ReadDone(p)
      PROVE  TypeOK'
  BY <1>8 DEF WriteFails, WriteDone, ReadDone, WakeAndReturn, WokenOn
<1>9. ASSUME NEW p \in Procs, PipeClose(p)
      PROVE  TypeOK'
  BY <1>9 DEF PipeClose, WakeAndReturn, WokenOn, MustFree
<1>10. QED
  BY <1>1, <1>2, <1>3, <1>4, <1>5, <1>6, <1>7, <1>8, <1>9 DEF Next, Step

\* Every step keeps the locks with the process between acquire() and release().
LEMMA LocksStep ==
    ASSUME TypeOK, LocksInv, [Next]_vars
    PROVE  LocksInv'
<1> USE EndsAssumption DEF TypeOK, LocksInv, In, NOBODY
<1>1. CASE UNCHANGED vars
  BY <1>1 DEF vars
<1>2. ASSUME NEW p \in Procs, NEW k \in Sizes, Read(p, k) \/ Write(p, k)
      PROVE  LocksInv'
  BY <1>2 DEF Read, Write, StartCall
<1>3. ASSUME NEW p \in Procs, CloseRead(p) \/ CloseWrite(p)
      PROVE  LocksInv'
  BY <1>3 DEF CloseRead, CloseWrite, StartCall
<1>4. ASSUME NEW p \in Procs, Kill(p) \/ Enter(p) \/ Sleeps(p)
      PROVE  LocksInv'
  BY <1>4 DEF Kill, Enter, Sleeps
<1>5. ASSUME NEW p \in Procs, (\E b \in Bytes : WriteByte(p, b)) \/ ReadByte(p)
      PROVE  LocksInv'
  BY <1>5 DEF WriteByte, ReadByte
<1>6. ASSUME NEW p \in Procs, WriteSleep(p) \/ ReadSleep(p)
      PROVE  LocksInv'
  <2>1. lock = p /\ ptlock = "nobody" /\ ptlock' = p /\ lock' = "nobody"
    BY <1>6 DEF WriteSleep, ReadSleep, SleepOn
  <2>2. pc'[p] = "tosleep" /\ \A q \in Procs \ {p} :
          pc'[q] = pc[q] \/ (pc[q] = "asleep" /\ pc'[q] = "acquire")
    BY <1>6, Waking
  <2>3. QED
    BY <2>1, <2>2
<1>7. ASSUME NEW p \in Procs, WriteFails(p) \/ WriteDone(p) \/ ReadDone(p)
      PROVE  LocksInv'
  <2>1. lock = p /\ lock' = "nobody" /\ ptlock' = ptlock
    BY <1>7 DEF WriteFails, WriteDone, ReadDone, WakeAndReturn
  <2>2. pc'[p] = "idle" /\ \A q \in Procs \ {p} :
          pc'[q] = pc[q] \/ (pc[q] = "asleep" /\ pc'[q] = "acquire")
    BY <1>7, Waking
  <2>3. QED
    BY <2>1, <2>2
<1>8. ASSUME NEW p \in Procs, PipeClose(p)
      PROVE  LocksInv'
  BY <1>8 DEF PipeClose, WakeAndReturn, WokenOn
<1>9. QED
  BY <1>1, <1>2, <1>3, <1>4, <1>5, <1>6, <1>7, <1>8 DEF Next, Step

\* Every step keeps the ends that the calls in progress rely on open, and the
\* pipe allocated while an end is.
LEMMA CallsStep ==
    ASSUME TypeOK, LocksInv, CallsInv, EndsInv, [Next]_vars
    PROVE  CallsInv' /\ EndsInv'
<1> USE EndsAssumption DEF TypeOK, CallsInv, EndsInv, In, ends, locals
<1>1. CASE UNCHANGED vars
  BY <1>1 DEF vars
<1>2. ASSUME NEW p \in Procs, NEW k \in Sizes, Read(p, k) \/ Write(p, k)
      PROVE  CallsInv' /\ EndsInv'
  BY <1>2 DEF Read, Write, StartCall
<1>3. ASSUME NEW p \in Procs, CloseRead(p)
      PROVE  CallsInv' /\ EndsInv'
  BY <1>3 DEF CloseRead, StartCall
<1>4. ASSUME NEW p \in Procs, CloseWrite(p)
      PROVE  CallsInv' /\ EndsInv'
  BY <1>4 DEF CloseWrite, StartCall
<1>5. ASSUME NEW p \in Procs, Kill(p) \/ Enter(p) \/ Sleeps(p)
      PROVE  CallsInv' /\ EndsInv'
  BY <1>5 DEF Kill, Enter, Sleeps
<1>6. ASSUME NEW p \in Procs, (\E b \in Bytes : WriteByte(p, b)) \/ ReadByte(p)
      PROVE  CallsInv' /\ EndsInv'
  BY <1>6 DEF WriteByte, ReadByte
<1>7. ASSUME NEW p \in Procs, WriteSleep(p) \/ ReadSleep(p)
      PROVE  CallsInv' /\ EndsInv'
  <2>1. pc[p] = "in" /\ call[p] \in {"read", "write"} /\ UNCHANGED <<ends, locals, ret>>
    BY <1>7 DEF WriteSleep, ReadSleep, SleepOn
  <2>2. pc'[p] = "tosleep" /\ \A q \in Procs \ {p} :
          pc'[q] = pc[q] \/ (pc[q] = "asleep" /\ pc'[q] = "acquire")
    BY <1>7, Waking
  <2>3. QED
    BY <2>1, <2>2
<1>8. ASSUME NEW p \in Procs, WriteFails(p) \/ WriteDone(p) \/ ReadDone(p)
      PROVE  CallsInv' /\ EndsInv'
  <2>1. /\ pc[p] = "in" /\ UNCHANGED <<ends, locals>>
        /\ \A q \in Procs \ {p} : ret'[q] = ret[q]
    BY <1>8 DEF WriteFails, WriteDone, ReadDone, WakeAndReturn
  <2>2. pc'[p] = "idle" /\ \A q \in Procs \ {p} :
          pc'[q] = pc[q] \/ (pc[q] = "asleep" /\ pc'[q] = "acquire")
    BY <1>8, Waking
  <2>3. QED
    BY <2>1, <2>2
<1>9. ASSUME NEW p \in Procs, PipeClose(p)
      PROVE  CallsInv' /\ EndsInv'
  BY <1>9 DEF PipeClose, WakeAndReturn, WokenOn, MustFree
<1>10. QED
  BY <1>1, <1>2, <1>3, <1>4, <1>5, <1>6, <1>7, <1>8, <1>9 DEF Next, Step

\* Every step keeps the ring within its size.
LEMMA RingStep ==
    ASSUME TypeOK, TypeOK', RingInv, [Next]_vars
    PROVE  RingInv'
<1>1. \/ \E p \in Procs, b \in Bytes : WriteByte(p, b)
      \/ \E p \in Procs : ReadByte(p)
      \/ UNCHANGED ring
  BY DEF Next, Step, vars, ring, Read, Write, StartCall, CloseRead, CloseWrite, Kill, Enter,
         Sleeps, WriteSleep, ReadSleep, WriteFails, WriteDone, ReadDone, PipeClose
<1>2. Used \in Nat /\ PIPESIZE \in Nat
  BY Counting, RingAssumption
<1>3. QED
  BY <1>1, <1>2, UsedSteps DEF RingInv

\* The only process that can owe a wakeup is the one with p->lock.
LEMMA OwesWakeup ==
    ASSUME TypeOK, LocksInv, NEW p \in Procs, pc[p] = "in", NEW ch
    PROVE  WillWake(ch) <=> i[p] > 0 /\ call[p] = IF ch = "nread" THEN "write" ELSE "read"
BY DEF WillWake, LocksInv

\* Nobody is left asleep without a reason by a step, whichever process takes it:
\* what takes a reason away is done with p->lock and is followed by a wakeup.
LEMMA SleepStep ==
    ASSUME IInv, TypeOK', LocksInv', [Next]_vars
    PROVE  SleepInv'
<1> USE DEF IInv
<1>1. CASE UNCHANGED vars
  BY <1>1 DEF vars, SleepInv, WillWake, Empty, Full
<1>2. ASSUME NEW p \in Procs, pc[p] = "idle" \/ pc[p] = "tosleep" \/ pc[p] = "asleep",
             UNCHANGED <<nread, nwrite, readopen, writeopen, chan>>,
             pc'[p] # "in",
             pc'[p] \in {"tosleep", "asleep"} => pc[p] \in {"tosleep", "asleep"} /\ call'[p] = call[p],
             \A q \in Procs \ {p} : pc'[q] = pc[q] /\ call'[q] = call[q] /\ i'[q] = i[q]
      PROVE  SleepInv'
  <2>1. \A ch \in {"nread", "nwrite"} : WillWake(ch) => WillWake(ch)'
    BY <1>2 DEF WillWake
  <2>2. QED
    BY <1>2, <2>1 DEF SleepInv, Empty, Full
<1>3. ASSUME NEW p \in Procs, NEW k \in Sizes, Read(p, k) \/ Write(p, k)
      PROVE  SleepInv'
  BY <1>2, <1>3 DEF Read, Write, StartCall, TypeOK, ring
<1>4. ASSUME NEW p \in Procs, CloseRead(p) \/ CloseWrite(p)
      PROVE  SleepInv'
  BY <1>2, <1>4 DEF CloseRead, CloseWrite, StartCall, TypeOK, ring, locals
<1>5. ASSUME NEW p \in Procs, Kill(p) \/ Sleeps(p)
      PROVE  SleepInv'
  BY <1>2, <1>5 DEF Kill, Sleeps, TypeOK, ring, ends, locals
<1>6. ASSUME NEW p \in Procs, Enter(p)
      PROVE  SleepInv'
  <2>1. \A q \in Procs : pc[q] # "in"
    BY <1>6, EndsAssumption DEF Enter, LocksInv, NOBODY
  <2>2. \A ch \in {"nread", "nwrite"} : ~WillWake(ch)
    BY <2>1 DEF WillWake
  <2>3. /\ pc'[p] = "in" /\ UNCHANGED <<nread, nwrite, readopen, writeopen, call>>
        /\ \A q \in Procs \ {p} : pc'[q] = pc[q] /\ chan'[q] = chan[q]
    BY <1>6 DEF Enter, TypeOK, ring, ends, locals
  <2>4. QED
    BY <2>2, <2>3 DEF SleepInv, Empty, Full
<1>7. ASSUME NEW p \in Procs, NEW b \in Bytes, WriteByte(p, b)
      PROVE  SleepInv'
  <2>1. /\ pc[p] = "in" /\ call[p] = "write" /\ ~Full
        /\ UNCHANGED <<pc, call, chan>> /\ i'[p] = i[p] + 1 /\ i[p] \in Nat
    BY <1>7 DEF WriteByte, In, TypeOK
  <2>2. WillWake("nread")'
    BY <2>1 DEF WillWake
  <2>3. ~WillWake("nwrite")
    BY <2>1, OwesWakeup
  <2>4. QED
    BY <2>1, <2>2, <2>3 DEF SleepInv
<1>8. ASSUME NEW p \in Procs, ReadByte(p)
      PROVE  SleepInv'
  <2>1. /\ pc[p] = "in" /\ call[p] = "read" /\ ~Empty
        /\ UNCHANGED <<pc, call, chan>> /\ i'[p] = i[p] + 1 /\ i[p] \in Nat
    BY <1>8 DEF ReadByte, In, TypeOK
  <2>2. WillWake("nwrite")'
    BY <2>1 DEF WillWake
  <2>3. ~WillWake("nread")
    BY <2>1, OwesWakeup
  <2>4. QED
    BY <2>1, <2>2, <2>3 DEF SleepInv
<1>9. ASSUME NEW p \in Procs, WriteSleep(p)
      PROVE  SleepInv'
  <2>1. /\ pc[p] = "in" /\ call[p] = "write" /\ Full /\ readopen /\ ptlock = NOBODY
        /\ UNCHANGED <<nread, nwrite, readopen, writeopen, call>>
        /\ chan' = [chan EXCEPT ![p] = "nwrite"]
        /\ pc' = [WokenOn(pc, "nread") EXCEPT ![p] = "tosleep"]
    BY <1>9 DEF WriteSleep, SleepOn, In, ring, ends, locals
  <2>2. \A q \in Procs : pc[q] # "tosleep"
    BY <2>1, EndsAssumption DEF LocksInv, NOBODY
  <2>3. ~WillWake("nwrite")
    BY <2>1, OwesWakeup
  <2>4. ASSUME NEW q \in Procs \ {p}, pc'[q] \in {"tosleep", "asleep"}
        PROVE  pc[q] = "asleep" /\ chan'[q] = chan[q] /\ chan[q] # "nread"
    BY <2>1, <2>2, <2>4 DEF WokenOn, TypeOK
  <2>5. chan'[p] = "nwrite"
    BY <2>1 DEF TypeOK
  <2>6. QED
    BY <2>1, <2>3, <2>4, <2>5 DEF SleepInv, Full
<1>10. ASSUME NEW p \in Procs, ReadSleep(p)
       PROVE  SleepInv'
  <2>1. /\ pc[p] = "in" /\ call[p] = "read" /\ i[p] = 0 /\ Empty /\ writeopen
        /\ UNCHANGED <<nread, nwrite, readopen, writeopen, call>>
        /\ chan' = [chan EXCEPT ![p] = "nread"]
        /\ pc' = [pc EXCEPT ![p] = "tosleep"]
    BY <1>10 DEF ReadSleep, SleepOn, In, ring, ends, locals
  <2>2. ~WillWake("nread") /\ ~WillWake("nwrite")
    BY <2>1, OwesWakeup
  <2>3. chan'[p] = "nread" /\ \A q \in Procs \ {p} : chan'[q] = chan[q] /\ pc'[q] = pc[q]
    BY <2>1 DEF TypeOK
  <2>4. QED
    BY <2>1, <2>2, <2>3 DEF SleepInv, Empty, Full
<1>11. ASSUME NEW p \in Procs, WriteFails(p)
       PROVE  SleepInv'
  <2>1. /\ pc[p] = "in" /\ call[p] = "write" /\ ~readopen
        /\ pc' = [pc EXCEPT ![p] = "idle"]
    BY <1>11 DEF WriteFails, In
  <2>2. ~WillWake("nwrite")
    BY <2>1, OwesWakeup
  <2>3. \A q \in Procs : pc[q] # "idle" => call[q] # "read"
    BY <2>1 DEF CallsInv, EndsInv
  <2>4. \A q \in Procs : pc'[q] \notin {"tosleep", "asleep"}
    BY <2>1, <2>2, <2>3 DEF SleepInv, TypeOK
  <2>5. QED
    BY <2>4 DEF SleepInv
<1>12. ASSUME NEW p \in Procs, NEW ch \in {"nread", "nwrite"}, pc[p] = "in", ptlock = NOBODY,
              pc' = [WokenOn(pc, ch) EXCEPT ![p] = "idle"],
              UNCHANGED <<nread, nwrite, call, chan>>,
              ch = "nwrite" => call[p] # "write" /\ UNCHANGED writeopen,
              ch = "nread" => call[p] # "read" /\ UNCHANGED readopen
       PROVE  SleepInv'
  <2>1. \A q \in Procs : pc[q] # "tosleep"
    BY <1>12, EndsAssumption DEF LocksInv, NOBODY
  <2>2. \A c \in {"nread", "nwrite"} \ {ch} : ~WillWake(c)
    BY <1>12, OwesWakeup
  <2>3. ASSUME NEW q \in Procs, pc'[q] \in {"tosleep", "asleep"}
        PROVE  pc[q] = "asleep" /\ chan[q] # ch
    BY <1>12, <2>1, <2>3 DEF WokenOn, TypeOK
  <2>4. QED
    BY <1>12, <2>2, <2>3 DEF SleepInv, Empty, Full
<1>13. ASSUME NEW p \in Procs, WriteDone(p)
       PROVE  SleepInv'
  BY <1>12, <1>13 DEF WriteDone, WakeAndReturn, In, ring, ends, locals
<1>14. ASSUME NEW p \in Procs, ReadDone(p)
       PROVE  SleepInv'
  BY <1>12, <1>14 DEF ReadDone, WakeAndReturn, In, ring, ends, locals
<1>15. ASSUME NEW p \in Procs, PipeClose(p)
       PROVE  SleepInv'
  <2>1. CASE call[p] = "closer"
    BY <1>12, <1>15, <2>1 DEF PipeClose, WakeAndReturn, ring, locals, TypeOK
  <2>2. CASE call[p] = "closew"
    BY <1>12, <1>15, <2>2 DEF PipeClose, WakeAndReturn, ring, locals, TypeOK
  <2>3. QED
    BY <1>15, <2>1, <2>2 DEF PipeClose
<1>16. QED
  BY <1>1, <1>3, <1>4, <1>5, <1>6, <1>7, <1>8, <1>9, <1>10, <1>11, <1>13, <1>14, <1>15
     DEF Next, Step

-----------------------------------------------------------------------------
(* The theorems. *)

\* The inductive invariant holds in every reachable state of the pipe.
THEOREM Invariant == Spec => []IInv
<1>1. IInv /\ [Next]_vars => IInv'
  BY TypeStep, LocksStep, CallsStep, RingStep, SleepStep DEF IInv
<1>2. QED
  BY InitIInv, <1>1, PTL DEF Spec

\* The pipe's variables keep their types: the counters stay below WRAP and no
\* call transfers more bytes than it was asked to.
THEOREM TypeCorrect == Spec => []TypeOK
<1>1. IInv => TypeOK
  BY DEF IInv
<1>2. QED
  BY <1>1, Invariant, PTL

\* No wakeup is lost between pipewrite(), piperead() and pipeclose().
THEOREM SleepersHaveReasonHolds == Spec => []SleepersHaveReason
<1>1. IInv => SleepersHaveReason
  <2> SUFFICES ASSUME IInv, lock = NOBODY PROVE SleepersHaveReason
    BY DEF SleepersHaveReason
  <2>1. \A ch \in {"nread", "nwrite"} : ~WillWake(ch)
    BY EndsAssumption DEF IInv, LocksInv, WillWake, NOBODY
  <2>2. QED
    BY <2>1 DEF IInv, SleepInv, SleepersHaveReason
<1>2. QED
  BY <1>1, Invariant, PTL

\* Nobody uses a pipe that pipeclose() has freed, or ever will.
THEOREM FreedUnusedHolds == Spec => []FreedUnused
<1>1. IInv => FreedUnused
  <2> SUFFICES ASSUME IInv, freed PROVE FreedUnused
    BY DEF FreedUnused
  <2>1. ~readopen /\ ~writeopen /\ rd = {} /\ wr = {}
    BY DEF IInv, EndsInv
  <2>2. \A p \in Procs : pc[p] = "idle"
    BY <2>1 DEF IInv, CallsInv, TypeOK
  <2>3. lock = NOBODY
    BY <2>2 DEF IInv, LocksInv, TypeOK
  <2>4. QED
    BY <2>1, <2>2, <2>3 DEF FreedUnused
<1>2. QED
  BY <1>1, Invariant, PTL

-----------------------------------------------------------------------------
(* The pipe implements the queue. *)

\* The queue is the ring's contents from nread on.
LEMMA ContentsEntries == Contents = Entries(data, PIPESIZE, nread, Used)
BY DEF Contents, Entries

\* pipewrite() stores at the place after the last byte, wherever the counters
\* have wrapped.
LEMMA WritePlace ==
    ASSUME TypeOK
    PROVE  nwrite % PIPESIZE = (nread + Used) % PIPESIZE
<1>1. /\ WRAP \in Nat \ {0} /\ PIPESIZE \in Nat \ {0} /\ WRAP % PIPESIZE = 0
      /\ nread \in 0..(WRAP - 1) /\ nwrite \in 0..(WRAP - 1) /\ Used \in Nat
  BY RingAssumption, Counting DEF TypeOK, Counters
<1> DEFINE x == nread + Used
<1>2. x \in Nat /\ x < 2 * WRAP /\ nwrite = IF x < WRAP THEN x ELSE x - WRAP
  <2>1. WRAP \in Nat /\ nread \in 0..(WRAP - 1) /\ nwrite \in 0..(WRAP - 1)
    BY <1>1
  <2>2. Used = IF nwrite >= nread THEN nwrite - nread ELSE nwrite + WRAP - nread
    BY Counting
  <2>3. QED
    BY <2>1, <2>2
<1> HIDE DEF x
<1>3. nwrite = x % WRAP
  BY <1>1, <1>2, ModStep
<1>4. \A j, k \in Nat : ((j % WRAP) + k) % PIPESIZE = (j + k) % PIPESIZE
  BY <1>1, ModOfMod
<1>5. ((x % WRAP) + 0) % PIPESIZE = (x + 0) % PIPESIZE
  BY <1>2, <1>4
<1>6. nwrite + 0 = nwrite /\ x + 0 = x
  BY <1>1, <1>2
<1>7. QED
  BY <1>3, <1>5, <1>6 DEF x

\* A byte written goes to the end of the queue.
LEMMA WritePuts ==
    ASSUME TypeOK, TypeOK', RingInv, NEW p \in Procs, NEW b \in Bytes, WriteByte(p, b)
    PROVE  Queue!Put(b)
<1>1. Used' = Used + 1 /\ Used < PIPESIZE /\ Used \in Nat
  BY UsedSteps, Counting
<1>2. PIPESIZE \in Nat \ {0} /\ data \in [0..(PIPESIZE - 1) -> Bytes] /\ nread \in Nat
  BY RingAssumption DEF TypeOK, Slots, Counters
<1>3. data' = [data EXCEPT ![(nread + Used) % PIPESIZE] = b] /\ nread' = nread
  BY WritePlace DEF WriteByte
<1>4. Contents' = Entries(data', PIPESIZE, nread', Used')
  BY DEF Contents, Entries
<1> DEFINE u == Used
           d == data
<1>5. Contents' = Append(Contents, b)
  <2>1. u \in Nat /\ u < PIPESIZE /\ d \in [0..(PIPESIZE - 1) -> Bytes]
    BY <1>1, <1>2
  <2> HIDE DEF u, d
  <2>2. Entries(Replaced(d, (nread + u) % PIPESIZE, b), PIPESIZE, nread, u + 1)
          = Appended(Entries(d, PIPESIZE, nread, u), b)
    BY <1>2, <2>1, EntriesAppend
  <2>3. Contents' = Entries(Replaced(d, (nread + u) % PIPESIZE, b), PIPESIZE, nread, u + 1)
    BY <1>1, <1>3, <1>4 DEF u, d, Replaced
  <2>4. Contents = Entries(d, PIPESIZE, nread, u)
    BY ContentsEntries DEF u, d
  <2>5. QED
    BY <2>2, <2>3, <2>4 DEF Appended
<1>6. Len(Contents) < PIPESIZE
  BY <1>1, EntriesLen, ContentsEntries
<1>7. UNCHANGED <<readopen, writeopen, ret>>
  BY DEF WriteByte, ends
<1>8. QED
  BY <1>5, <1>6, <1>7 DEF Queue!Put

\* A byte read is the first of the queue.
LEMMA ReadGets ==
    ASSUME TypeOK, TypeOK', RingInv, NEW p \in Procs, ReadByte(p)
    PROVE  Queue!Get
<1>1. Used' = Used - 1 /\ Used \in Nat \ {0}
  BY UsedSteps, Counting
<1>2. /\ PIPESIZE \in Nat \ {0} /\ WRAP \in Nat \ {0} /\ WRAP % PIPESIZE = 0
      /\ data \in [0..(PIPESIZE - 1) -> Bytes] /\ nread \in Nat
  BY RingAssumption DEF TypeOK, Slots, Counters
<1>3. data' = data /\ nread' = (nread + 1) % WRAP
  BY DEF ReadByte
<1>4. Contents' = Entries(data', PIPESIZE, nread', Used')
  BY DEF Contents, Entries
<1> DEFINE u == Used
<1>5. Contents' = Tail(Contents)
  <2>1. u \in Nat \ {0}
    BY <1>1
  <2> HIDE DEF u
  <2>2. Entries(data, PIPESIZE, Succ(nread, WRAP), u - 1) = Dropped(Entries(data, PIPESIZE, nread, u))
    BY <1>2, <2>1, EntriesTail
  <2>3. Contents' = Entries(data, PIPESIZE, Succ(nread, WRAP), u - 1)
    BY <1>1, <1>3, <1>4 DEF u, Succ
  <2>4. Contents = Entries(data, PIPESIZE, nread, u)
    BY ContentsEntries DEF u
  <2>5. QED
    BY <2>2, <2>3, <2>4 DEF Dropped
<1>6. Contents # <<>>
  BY <1>1, EntriesLen, ContentsEntries
<1>7. UNCHANGED <<readopen, writeopen, ret>>
  BY DEF ReadByte, ends
<1>8. QED
  BY <1>5, <1>6, <1>7 DEF Queue!Get

\* The queue changes only with the ring.
LEMMA ContentsKept == UNCHANGED ring => Contents' = Contents
BY DEF ring, Contents, Used

\* Every step of the pipe is one of the queue, or changes nothing of it.
LEMMA StepImplements ==
    ASSUME IInv, TypeOK', [Next]_vars
    PROVE  [Queue!Next]_(Queue!vars)
<1> USE DEF IInv, Queue!vars
<1>1. CASE UNCHANGED vars
  BY <1>1, ContentsKept DEF vars, ring
<1>2. ASSUME NEW p \in Procs, NEW c, NEW k, StartCall(p, c, k)
      PROVE  Queue!Next
  BY <1>2, ContentsKept DEF StartCall, Queue!Call, Queue!Next
<1>3. ASSUME NEW p \in Procs, NEW k \in Sizes, Read(p, k) \/ Write(p, k)
      PROVE  Queue!Next
  BY <1>2, <1>3 DEF Read, Write
<1>4. ASSUME NEW p \in Procs, CloseRead(p) \/ CloseWrite(p)
      PROVE  [Queue!Next]_(Queue!vars)
  BY <1>2, <1>4, ContentsKept DEF CloseRead, CloseWrite
<1>5. ASSUME NEW p \in Procs, Kill(p) \/ Enter(p) \/ Sleeps(p) \/ WriteSleep(p) \/ ReadSleep(p)
      PROVE  UNCHANGED Queue!vars
  BY <1>5, ContentsKept DEF Kill, Enter, Sleeps, WriteSleep, ReadSleep, ends
<1>6. ASSUME NEW p \in Procs, WriteFails(p)
      PROVE  Queue!Next
  <2>1. ret[p] = "none" /\ ~readopen /\ ret' = [ret EXCEPT ![p] = "err"]
    BY <1>6 DEF WriteFails, In, CallsInv
  <2>2. UNCHANGED <<Contents, readopen, writeopen>>
    BY <1>6, ContentsKept DEF WriteFails, ends
  <2>3. Queue!Return(p, "err")
    BY <2>1, <2>2 DEF Queue!Return
  <2>4. QED
    BY <2>3 DEF Queue!Next
<1>7. ASSUME NEW p \in Procs, WriteDone(p)
      PROVE  Queue!Next
  <2>1. ret[p] = "none" /\ ret' = [ret EXCEPT ![p] = "ok"]
    BY <1>7 DEF WriteDone, WakeAndReturn, In, CallsInv
  <2>2. UNCHANGED <<Contents, readopen, writeopen>>
    BY <1>7, ContentsKept DEF WriteDone, ends
  <2>3. Queue!Return(p, "ok")
    BY <2>1, <2>2 DEF Queue!Return
  <2>4. QED
    BY <2>3 DEF Queue!Next
<1>8. ASSUME NEW p \in Procs, ReadDone(p)
      PROVE  Queue!Next
  <2> DEFINE r == IF i[p] = 0 /\ n[p] > 0 THEN "eof" ELSE "ok"
  <2>1. ret[p] = "none" /\ ret' = [ret EXCEPT ![p] = r]
    BY <1>8 DEF ReadDone, WakeAndReturn, In, CallsInv
  <2>2. UNCHANGED <<Contents, readopen, writeopen>>
    BY <1>8, ContentsKept DEF ReadDone, ends
  <2>3. r = "eof" => Contents = <<>> /\ ~writeopen
    <3> SUFFICES ASSUME r = "eof" PROVE Contents = <<>> /\ ~writeopen
      OBVIOUS
    <3>1. i[p] = 0 /\ n[p] > 0 /\ n[p] \in Nat
      BY SizesNat
    <3>2. Empty /\ ~writeopen
      BY <1>8, <3>1 DEF ReadDone
    <3>3. Used = 0
      BY <3>2, Counting
    <3>4. QED
      BY <3>2, <3>3, ContentsEntries, EntriesLen
  <2>4. r \in {"ok", "eof", "err"} /\ r # "err"
    OBVIOUS
  <2> HIDE DEF r
  <2>5. Queue!Return(p, r)
    BY <2>1, <2>2, <2>3, <2>4 DEF Queue!Return
  <2>6. QED
    BY <2>4, <2>5 DEF Queue!Next
<1>9. ASSUME NEW p \in Procs, PipeClose(p)
      PROVE  Queue!Next
  <2>1. ret[p] = "none" /\ ret' = [ret EXCEPT ![p] = "ok"] /\ Contents' = Contents
    BY <1>9, ContentsKept DEF PipeClose, WakeAndReturn, CallsInv
  <2>2. \/ readopen /\ readopen' = FALSE /\ UNCHANGED writeopen
        \/ writeopen /\ writeopen' = FALSE /\ UNCHANGED readopen
    BY <1>9 DEF PipeClose, CallsInv, TypeOK
  <2>3. Queue!Close(p)
    BY <2>1, <2>2 DEF Queue!Close
  <2>4. QED
    BY <2>3 DEF Queue!Next
<1>10. ASSUME NEW p \in Procs, ReadByte(p) \/ \E b \in Bytes : WriteByte(p, b)
       PROVE  Queue!Next
  BY <1>10, ReadGets, WritePuts DEF Queue!Next
<1>11. QED
  BY <1>1, <1>3, <1>4, <1>5, <1>6, <1>7, <1>8, <1>9, <1>10 DEF Next, Step

\* The pipe implements a bounded first-in first-out queue: no byte is lost,
\* repeated or overtaken, whatever the numbers of readers and writers, the
\* size of the ring and the point at which the counters wrap.
THEOREM ImplementsFifoHolds == Spec => ImplementsFifo
<1>1. Init => Queue!Init
  <2> SUFFICES ASSUME Init PROVE Queue!Init
    OBVIOUS
  <2>1. TypeOK
    BY InitIInv DEF IInv
  <2>2. Used = 0
    BY <2>1, Counting DEF Init, Empty
  <2>3. Contents = <<>>
    BY <2>2, ContentsEntries, EntriesLen
  <2>4. QED
    BY <2>3 DEF Init, Queue!Init
<1>2. IInv /\ IInv' /\ [Next]_vars => [Queue!Next]_(Queue!vars)
  BY StepImplements DEF IInv
<1>3. QED
  BY <1>1, <1>2, Invariant, PTL DEF Spec, ImplementsFifo, Queue!Spec

=============================================================================
