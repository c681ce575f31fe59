--------------------------- MODULE ConsoleProofs ---------------------------
(***************************************************************************)
(* Proofs about Console, for any number of CPUs, any size of the ring and  *)
(* any width of its counters that is a multiple of it.                     *)
(***************************************************************************)
EXTENDS Console, Ring, SequenceTheorems, TLAPS

-----------------------------------------------------------------------------
(* Rings of entries. *)

\* The quotient and the remainder.
LEMMA DivMod ==
    ASSUME NEW a \in Nat, NEW m \in Nat \ {0}
    PROVE  /\ (a % m) \in 0..(m - 1)
           /\ a = m * (a \div m) + (a % m)
           /\ (a \div m) \in Nat
OBVIOUS

\* The remainder is the only one.
LEMMA ModUnique ==
    ASSUME NEW a \in Nat, NEW m \in Nat \ {0}, NEW q \in Nat, NEW y \in 0..(m - 1),
           a = m * q + y
    PROVE  a % m = y
<1>1. PICK z \in 0..(m - 1), o \in Nat : z = a % m /\ a = m * o + z
  BY DivMod
<1>2. \A j \in Nat, k \in Nat : k > j => m * k >= m * j + m
  <2>1. ASSUME NEW j \in Nat, NEW k \in Nat, k > j PROVE m * k >= m * j + m
    <3>1. PICK l \in Nat : k = j + 1 + l
      <4>1. k - j - 1 \in Nat /\ k = j + 1 + (k - j - 1)
        BY <2>1
      <4>2. QED
        BY <4>1
    <3>2. m * (j + 1 + l) = m * j + m + m * l /\ m * l >= 0
      OBVIOUS
    <3>3. (m * j) \in Nat /\ (m * l) \in Nat
      OBVIOUS
    <3>4. QED
      BY <3>1, <3>2, <3>3
  <2>2. QED
    BY <2>1
<1>3. (m * q) \in Nat /\ (m * o) \in Nat
  BY <1>1
<1>4. ~(o > q) /\ ~(q > o)
  BY <1>1, <1>2, <1>3
<1>5. o = q
  BY <1>1, <1>4
<1>6. QED
  BY <1>1, <1>3, <1>5

\* An index below twice the width is reduced by a comparison.
LEMMA ModStep ==
    ASSUME NEW m \in Nat \ {0}, NEW a \in Nat, a < 2 * m
    PROVE  a % m = IF a < m THEN a ELSE a - m
<1>1. CASE a < m
  <2>1. a = m * 0 + a /\ a \in 0..(m - 1) /\ 0 \in Nat
    BY <1>1
  <2>2. QED
    BY <1>1, <2>1, ModUnique
<1>2. CASE a >= m
  <2>1. a = m * 1 + (a - m) /\ (a - m) \in 0..(m - 1) /\ 1 \in Nat
    BY <1>2
  <2>2. QED
    BY <1>2, <2>1, ModUnique
<1>3. QED
  BY <1>1, <1>2

\* Reducing an index by the width first changes no place in the ring.
LEMMA ModOfMod ==
    ASSUME NEW p \in Nat \ {0}, NEW u \in Nat \ {0}, u % p = 0, NEW a \in Nat, NEW k \in Nat
    PROVE  ((a % u) + k) % p = (a + k) % p
<1> DEFINE c == u \div p
           q == a \div u
           y == a % u
<1>1. c \in Nat /\ u = p * c
  <2>1. c \in Nat /\ u = p * c + (u % p)
    BY DivMod
  <2>2. QED
    BY <2>1
<1>2. q \in Nat /\ y \in 0..(u - 1) /\ a = u * q + y
  BY DivMod
<1> HIDE DEF c, q, y
<1>3. (y + k) \in Nat
  BY <1>2
<1> DEFINE s == (y + k) % p
           t == (y + k) \div p
<1>4. s \in 0..(p - 1) /\ t \in Nat /\ y + k = p * t + s
  BY <1>3, DivMod
<1> HIDE DEF s, t
<1>5. a + k = p * (c * q + t) + s
  <2>1. u * q = p * (c * q)
    BY <1>1, <1>2
  <2>2. (c * q) \in Nat
    BY <1>1, <1>2
  <2>3. p * (c * q + t) = p * (c * q) + p * t
    BY <2>2, <1>4
  <2>4. (p * (c * q)) \in Int /\ (p * t) \in Int /\ (u * q) \in Int
    BY <1>1, <1>2, <1>4, <2>2
  <2> DEFINE X == p * (c * q)
             Y == p * t
             Z == u * q
  <2>5. a = Z + y /\ y + k = Y + s /\ Z = X /\ X \in Int /\ Y \in Int
    BY <1>2, <1>4, <2>1, <2>4
  <2>6. p * (c * q + t) = X + Y
    BY <2>3
  <2> HIDE DEF X, Y, Z
  <2>7. a + k = (X + Y) + s
    BY <1>2, <1>4, <2>5
  <2>8. QED
    BY <2>6, <2>7
<1>6. (c * q + t) \in Nat /\ (a + k) \in Nat
  BY <1>1, <1>2, <1>4
<1>7. (a + k) % p = s
  BY <1>4, <1>5, <1>6, ModUnique
<1>8. QED
  BY <1>7 DEF s, y

\* Two indices less than the size apart are two places.
LEMMA ModApart ==
    ASSUME NEW p \in Nat \ {0}, NEW a \in Nat, NEW b \in Nat, a < b, b - a < p
    PROVE  a % p # b % p
<1> SUFFICES ASSUME a % p = b % p PROVE FALSE
  OBVIOUS
<1> DEFINE qa == a \div p
           qb == b \div p
           y == a % p
<1>1. qa \in Nat /\ a = p * qa + y /\ y \in 0..(p - 1)
  BY DivMod
<1>2. qb \in Nat /\ b = p * qb + y
  BY DivMod
<1> HIDE DEF qa, qb, y
<1>3. b - a = p * (qb - qa)
  BY <1>1, <1>2
<1>4. qb - qa >= 1 \/ qb - qa <= 0
  BY <1>1, <1>2
<1>5. p * (qb - qa) >= p \/ p * (qb - qa) <= 0
  BY <1>1, <1>2, <1>4
<1>6. QED
  <2>1. PICK z \in Int : z = p * (qb - qa)
    BY <1>1, <1>2
  <2>2. b - a = z /\ (z >= p \/ z <= 0)
    BY <1>3, <1>5, <2>1
  <2>3. QED
    BY <2>2

\* A ring without entries, and how many there are.
LEMMA EntriesLen ==
    ASSUME NEW d, NEW p, NEW x, NEW h \in Nat
    PROVE  Len(Entries(d, p, x, h)) = h /\ (h = 0 <=> Entries(d, p, x, h) = <<>>)
  BY DEF Entries

\* Writing the place after the last entry appends.
LEMMA EntriesAppend ==
    ASSUME NEW p \in Nat \ {0}, NEW S, NEW d \in [0..(p - 1) -> S], NEW v \in S,
           NEW x \in Nat, NEW h \in Nat, h < p
    PROVE  Entries(Replaced(d, (x + h) % p, v), p, x, h + 1) = Appended(Entries(d, p, x, h), v)
<1> DEFINE d2 == [d EXCEPT ![(x + h) % p] = v]
           old == Entries(d, p, x, h)
           new == Entries(d2, p, x, h + 1)
<1>1. \A k \in 1..(h + 1) : (x + k - 1) \in Nat /\ (x + k - 1) % p \in 0..(p - 1)
  <2>1. ASSUME NEW k \in 1..(h + 1) PROVE (x + k - 1) \in Nat
    OBVIOUS
  <2>2. \A a \in Nat : a % p \in 0..(p - 1)
    BY DivMod
  <2>3. QED
    BY <2>1, <2>2
<1>2. \A k \in 1..h : d2[(x + k - 1) % p] = d[(x + k - 1) % p]
  <2> TAKE k \in 1..h
  <2> DEFINE a == x + k - 1
             b == x + h
  <2>1. a \in Nat /\ b \in Nat /\ a < b /\ b - a < p
    OBVIOUS
  <2> HIDE DEF a, b
  <2>2. a % p # b % p
    BY <2>1, ModApart
  <2>3. (x + k - 1) % p # (x + h) % p
    BY <2>2 DEF a, b
  <2>4. QED
    BY <2>3, <1>1
<1>3. d2[(x + (h + 1) - 1) % p] = v
  BY <1>1
<1>4. old \in Seq(S) /\ Len(old) = h
  BY <1>1 DEF Entries
<1>5. new \in Seq(S) /\ Len(new) = h + 1
  <2>1. d2 \in [0..(p - 1) -> S]
    OBVIOUS
  <2> HIDE DEF d2
  <2>2. \A k \in 1..(h + 1) : d2[(x + k - 1) % p] \in S
    BY <1>1, <2>1
  <2>3. new = [k \in 1..(h + 1) |-> d2[(x + k - 1) % p]]
    BY DEF Entries
  <2> HIDE DEF new
  <2>4. new \in [1..(h + 1) -> S]
    BY <2>2, <2>3
  <2>5. QED
    BY <2>4
<1>6. \A k \in 1..h : new[k] = old[k]
  BY <1>2 DEF Entries
<1>7. new[h + 1] = v
  BY <1>3 DEF Entries
<1>8. Append(old, v) \in Seq(S) /\ Len(Append(old, v)) = h + 1
      /\ (\A k \in 1..h : Append(old, v)[k] = old[k]) /\ Append(old, v)[h + 1] = v
  BY <1>4, AppendProperties
<1>9. \A k \in 1..(h + 1) : new[k] = Append(old, v)[k]
  <2> TAKE k \in 1..(h + 1)
  <2>1. k \in 1..h \/ k = h + 1
    OBVIOUS
  <2> HIDE DEF new, old
  <2>2. QED
    BY <2>1, <1>6, <1>7, <1>8
<1> HIDE DEF new, old
<1>10. QED
  BY <1>5, <1>8, <1>9, SeqEqual DEF new, old, Replaced, Appended

\* Advancing the first index removes the first entry.
LEMMA EntriesTail ==
    ASSUME NEW p \in Nat \ {0}, NEW u \in Nat \ {0}, u % p = 0,
           NEW d, NEW x \in Nat, NEW h \in Nat \ {0}
    PROVE  Entries(d, p, Succ(x, u), h - 1) = Dropped(Entries(d, p, x, h))
<1> DEFINE S == {d[j] : j \in 0..(p - 1)}
           old == Entries(d, p, x, h)
           new == Entries(d, p, (x + 1) % u, h - 1)
<1>1. \A k \in Nat : (x + k) % p \in 0..(p - 1)
  BY DivMod
<1>2. \A k \in 1..(h - 1) : (((x + 1) % u) + k - 1) % p = (x + (k + 1) - 1) % p
  <2> TAKE k \in 1..(h - 1)
  <2>1. (k - 1) \in Nat /\ (x + 1) \in Nat
    OBVIOUS
  <2> DEFINE a == x + 1
             b == k - 1
  <2>2. a \in Nat /\ b \in Nat
    BY <2>1
  <2> HIDE DEF a, b
  <2>3. \A g, j \in Nat : ((g % u) + j) % p = (g + j) % p
    BY ModOfMod
  <2>4. ((a % u) + b) % p = (a + b) % p
    BY <2>2, <2>3
  <2>5. (((x + 1) % u) + (k - 1)) % p = ((x + 1) + (k - 1)) % p
    BY <2>4 DEF a, b
  <2>6. (x + 1) % u \in Nat
    <3>1. (x + 1) % u \in 0..(u - 1)
      BY DivMod, <2>1
    <3>2. QED
      BY <3>1
  <2>7. QED
    BY <2>5, <2>6
<1>3. old \in Seq(S) /\ Len(old) = h /\ old # <<>>
  <2>1. ASSUME NEW k \in 1..h PROVE (x + k - 1) % p \in 0..(p - 1)
    <3>1. k - 1 \in Nat /\ x + k - 1 = x + (k - 1)
      OBVIOUS
    <3>2. QED
      BY <1>1, <3>1
  <2>2. \A k \in 1..h : d[(x + k - 1) % p] \in S
    BY <2>1
  <2> HIDE DEF S
  <2>3. old \in [1..h -> S]
    BY <2>2 DEF Entries
  <2>4. QED
    BY <2>3
<1>4. new \in Seq(S) /\ Len(new) = h - 1
  <2>1. ASSUME NEW k \in 1..(h - 1) PROVE (((x + 1) % u) + k - 1) % p \in 0..(p - 1)
    <3>1. k \in Nat /\ x + (k + 1) - 1 = x + k
      OBVIOUS
    <3>2. QED
      BY <1>1, <1>2, <3>1
  <2>2. \A k \in 1..(h - 1) : d[(((x + 1) % u) + k - 1) % p] \in S
    BY <2>1
  <2> HIDE DEF S
  <2>3. new = [k \in 1..(h - 1) |-> d[(((x + 1) % u) + k - 1) % p]]
    BY DEF Entries
  <2> HIDE DEF new
  <2>4. new \in [1..(h - 1) -> S]
    BY <2>2, <2>3
  <2>5. QED
    BY <2>4
<1>5. \A k \in 1..(h - 1) : new[k] = old[k + 1]
  BY <1>2 DEF Entries
<1> HIDE DEF new, old
<1>6. Tail(old) \in Seq(S) /\ Len(Tail(old)) = h - 1 /\ \A k \in 1..(h - 1) : Tail(old)[k] = old[k + 1]
  BY <1>3, HeadTailProperties
<1>7. QED
  <2> HIDE DEF S
  <2>1. new = Tail(old)
    BY <1>4, <1>5, <1>6, SeqEqual
  <2>2. QED
    BY <2>1 DEF new, old, Dropped, Succ

\* Writing behind the entries leaves them alone.
LEMMA EntriesKept ==
    ASSUME NEW p \in Nat \ {0}, NEW S, NEW d \in Rings(p, S), NEW v,
           NEW x \in Nat, NEW m \in Nat, m < p, NEW h \in 0..m
    PROVE  Entries(Replaced(d, Place(x, m, p), v), p, x, h) = Entries(d, p, x, h)
<1> DEFINE d2 == [d EXCEPT ![(x + m) % p] = v]
<1>1. ASSUME NEW k \in 1..h
      PROVE  d2[(x + k - 1) % p] = d[(x + k - 1) % p]
  <2> DEFINE a == x + k - 1
             b == x + m
  <2>1. a \in Nat /\ b \in Nat /\ a < b /\ b - a < p
    OBVIOUS
  <2> HIDE DEF a, b
  <2>2. a % p # b % p /\ a % p \in 0..(p - 1)
    BY <2>1, ModApart, DivMod
  <2>3. (x + k - 1) % p # (x + m) % p /\ (x + k - 1) % p \in 0..(p - 1)
    BY <2>2 DEF a, b
  <2>4. QED
    BY <2>3 DEF Rings
<1>2. QED
  BY <1>1 DEF Entries, Replaced, Place

\* Reducing the first index by the width first changes no entry.
LEMMA EntriesShift ==
    ASSUME NEW p \in Nat \ {0}, NEW u \in Nat \ {0}, u % p = 0,
           NEW d, NEW a \in Nat, NEW m \in Nat
    PROVE  Entries(d, p, Wrapped(a, u), m) = Entries(d, p, a, m)
<1>1. ASSUME NEW k \in 1..m
      PROVE  ((a % u) + k - 1) % p = (a + k - 1) % p
  <2> DEFINE b == k - 1
  <2>1. b \in Nat
    OBVIOUS
  <2> HIDE DEF b
  <2>2. ((a % u) + b) % p = (a + b) % p /\ (a % u) \in Nat
    <3>1. \A g, j \in Nat : ((g % u) + j) % p = (g + j) % p
      BY ModOfMod
    <3>2. (a % u) \in 0..(u - 1)
      BY DivMod
    <3>3. QED
      BY <2>1, <3>1, <3>2
  <2>3. ((a % u) + (k - 1)) % p = (a + (k - 1)) % p /\ (a % u) \in Nat
    BY <2>2 DEF b
  <2>4. QED
    BY <2>3
<1>2. QED
  BY <1>1 DEF Entries, Wrapped

\* Two runs of entries, the second of which starts where the first ends, are
\* one.
LEMMA EntriesJoined ==
    ASSUME NEW p \in Nat \ {0}, NEW u \in Nat \ {0}, u % p = 0,
           NEW S, NEW d \in Rings(p, S), NEW x \in Nat, NEW h \in Nat, NEW m \in Nat,
           NEW c, c = h + m, NEW s, s = x + h
    PROVE  Entries(d, p, x, c) = Joined(Entries(d, p, x, h), Entries(d, p, Wrapped(s, u), m))
<1> DEFINE q == Entries(d, p, x, h)
           l == Entries(d, p, x + h, m)
           all == Entries(d, p, x, h + m)
<1>1. ASSUME NEW z \in Nat, NEW j \in Nat
      PROVE  Entries(d, p, z, j) \in Seq(S) /\ Len(Entries(d, p, z, j)) = j
  <2>1. \A k \in 1..j : (z + k - 1) \in Nat
    OBVIOUS
  <2>2. \A a \in Nat : a % p \in 0..(p - 1)
    BY DivMod
  <2>3. \A k \in 1..j : (z + k - 1) % p \in 0..(p - 1)
    BY <2>1, <2>2
  <2>4. QED
    BY <2>3 DEF Entries, Rings
<1>2. /\ q \in Seq(S) /\ Len(q) = h /\ l \in Seq(S) /\ Len(l) = m
      /\ all \in Seq(S) /\ Len(all) = h + m
  <2>1. (x + h) \in Nat /\ (h + m) \in Nat
    OBVIOUS
  <2>2. QED
    BY <1>1, <2>1
<1>3. \A k \in 1..h : all[k] = q[k]
  BY DEF Entries
<1>4. \A k \in (h + 1)..(h + m) : all[k] = l[k - h]
  <2> TAKE k \in (h + 1)..(h + m)
  <2>1. (k - h) \in 1..m /\ k \in 1..(h + m) /\ x + k - 1 = (x + h) + (k - h) - 1
    OBVIOUS
  <2>2. QED
    BY <2>1 DEF Entries
<1> HIDE DEF q, l, all
<1>5. q \o l \in Seq(S) /\ Len(q \o l) = h + m
  BY <1>2, ConcatProperties
<1>6. \A k \in 1..(h + m) : (q \o l)[k] = IF k <= h THEN q[k] ELSE l[k - h]
  BY <1>2, ConcatProperties
<1>7. \A k \in 1..(h + m) : all[k] = (q \o l)[k]
  <2> TAKE k \in 1..(h + m)
  <2>1. CASE k <= h
    <3>1. k \in 1..h
      BY <2>1
    <3>2. QED
      BY <1>3, <1>6, <2>1, <3>1
  <2>2. CASE ~(k <= h)
    <3>1. k \in (h + 1)..(h + m)
      BY <2>2
    <3>2. QED
      BY <1>4, <1>6, <2>2, <3>1
  <2>3. QED
    BY <2>1, <2>2
<1>8. all = q \o l
  BY <1>2, <1>5, <1>7, SeqEqual
<1>9. QED
  <2>1. Entries(d, p, Wrapped(x + h, u), m) = l
    <3>1. (x + h) \in Nat
      OBVIOUS
    <3>2. QED
      BY <3>1, EntriesShift DEF l
  <2>2. QED
    BY <1>8, <2>1 DEF q, all, Joined

\* A character at the end of the second run is at the end of both.
LEMMA JoinedAppended ==
    ASSUME NEW S, NEW s \in Seq(S), NEW t \in Seq(S), NEW v \in S
    PROVE  Appended(Joined(s, t), v) = Joined(s, Appended(t, v))
<1> DEFINE a == Append(s \o t, v)
           b == s \o Append(t, v)
<1>1. s \o t \in Seq(S) /\ Len(s \o t) = Len(s) + Len(t)
  BY ConcatProperties
<1>2. Append(t, v) \in Seq(S) /\ Len(Append(t, v)) = Len(t) + 1
  BY AppendProperties
<1>3. a \in Seq(S) /\ b \in Seq(S) /\ Len(a) = Len(b) /\ Len(a) = Len(s) + Len(t) + 1
  BY <1>1, <1>2, ConcatProperties, AppendProperties
<1>4. \A k \in 1..Len(a) : a[k] = b[k]
  OBVIOUS
<1> HIDE DEF a, b
<1>5. a = b
  BY <1>3, <1>4, SeqEqual
<1>6. QED
  BY <1>5 DEF a, b, Appended, Joined

\* Moving the last index back removes the last entry.
LEMMA EntriesFront ==
    ASSUME NEW p \in Nat \ {0}, NEW S, NEW d \in Rings(p, S),
           NEW x \in Nat, NEW h \in Nat \ {0}
    PROVE  Entries(d, p, x, h - 1) = WithoutLast(Entries(d, p, x, h))
<1> DEFINE old == Entries(d, p, x, h)
           new == Entries(d, p, x, h - 1)
<1>1. old \in Seq(S) /\ new \in Seq(S) /\ Len(old) = h /\ Len(new) = h - 1
  <2>1. ASSUME NEW k \in 1..h PROVE (x + k - 1) \in Nat
    OBVIOUS
  <2>2. \A k \in 1..h : d[(x + k - 1) % p] \in S
    <3>1. \A a \in Nat : a % p \in 0..(p - 1)
      BY DivMod
    <3>2. QED
      BY <2>1, <3>1 DEF Rings
  <2>3. /\ old = [k \in 1..h |-> d[(x + k - 1) % p]]
        /\ new = [k \in 1..(h - 1) |-> d[(x + k - 1) % p]]
    BY DEF Entries
  <2> HIDE DEF old, new
  <2>4. old \in [1..h -> S]
    BY <2>2, <2>3
  <2>5. new \in [1..(h - 1) -> S]
    <3>1. \A k \in 1..(h - 1) : k \in 1..h
      OBVIOUS
    <3>2. \A k \in 1..(h - 1) : d[(x + k - 1) % p] \in S
      BY <2>2, <3>1
    <3>3. QED
      BY <2>3, <3>2
  <2>6. QED
    BY <2>4, <2>5
<1>2. \A k \in 1..(h - 1) : new[k] = old[k]
  BY DEF Entries
<1> HIDE DEF old, new
<1>3. /\ SubSeq(old, 1, h - 1) \in Seq(S) /\ Len(SubSeq(old, 1, h - 1)) = h - 1
      /\ \A k \in 1..(h - 1) : SubSeq(old, 1, h - 1)[k] = old[k]
  BY <1>1
<1>4. new = SubSeq(old, 1, h - 1)
  BY <1>1, <1>2, <1>3, SeqEqual
<1>5. QED
  BY <1>1, <1>4 DEF old, new, WithoutLast

-----------------------------------------------------------------------------
(* The inductive invariant. *)

\* ncli and intena of a CPU that holds or waits for cons.lock.
Nested(i) == [fl |-> FALSE, ncli |-> 1, intena |-> i]

\* The interrupt flag and the nesting of every CPU: a process has them as it
\* left user mode or is inside one acquire(); the handler finds interrupts on
\* and runs with interrupts that stay off.
ProcCli(p) ==
    Runs(p) =>
      /\ pc[p] \in {"spin", "in"} => cli[p] = Nested(TRUE)
      /\ pc[p] \in {"user", "asleep", "wake"} => cli[p].fl /\ cli[p].ncli = 0
HandlerCli ==
    /\ hpc # "none" => pc[0] \in {"user", "asleep", "wake"}
    /\ hpc \in {"spin", "in", "dumpspin", "dumping"} => cli[0] = Nested(FALSE)
    /\ hpc \in {"procdump", "iret"} => ~cli[0].fl /\ cli[0].ncli = 0
CliInv == (\A p \in Procs : ProcCli(p)) /\ HandlerCli

\* Whoever is inside holds cons.lock, and nobody else does.
LockInv ==
    /\ ~panicked
    /\ \A p \in Procs :
         lkcpu["cons"] = p <=> pc[p] = "in" \/ (p = 0 /\ hpc \in {"in", "dumping"})

\* A call is under way from its acquire() to its release(), and a read has
\* something left to read.
CallsInv ==
    \A p \in Procs :
      /\ pc[p] = "user" <=> call[p] = "none"
      /\ pc[p] \in {"asleep", "wake"} => call[p] = "read"
      /\ call[p] = "read" => n[p] > 0

\* r, w and e follow each other around the ring, and the line that is being
\* edited has no end of a line.
RingInv ==
    /\ Between(r, w) + Between(w, e) = Between(r, e) /\ Between(r, e) <= INPUT_BUF
    /\ \A x \in 0..(WRAP - 1) : Between(w, x) < Between(w, e) => At(x) # "nl"

IInv == TypeOK /\ CliInv /\ LockInv /\ CallsInv /\ RingInv

-----------------------------------------------------------------------------
(* The counters. *)

\* A sum of an index and less than the width, reduced.
LEMMA Reduce ==
    ASSUME NEW a \in Nat, a < 2 * WRAP
    PROVE  a % WRAP = IF a < WRAP THEN a ELSE a - WRAP
<1>1. WRAP \in Nat \ {0}
  BY ConsoleAssumption
<1>2. QED
  BY <1>1, ModStep

\* The next index.
LEMMA IncIs ==
    ASSUME NEW x \in 0..(WRAP - 1)
    PROVE  Inc(x) = (IF x = WRAP - 1 THEN 0 ELSE x + 1) /\ Inc(x) \in 0..(WRAP - 1)
<1> DEFINE a == x + 1
<1>1. WRAP \in Nat \ {0} /\ a \in Nat /\ a < 2 * WRAP
  BY ConsoleAssumption
<1> HIDE DEF a
<1>2. a % WRAP = IF a < WRAP THEN a ELSE a - WRAP
  BY <1>1, Reduce
<1>3. QED
  BY <1>1, <1>2 DEF Inc, a

\* The index before.
LEMMA DecIs ==
    ASSUME NEW x \in 0..(WRAP - 1)
    PROVE  Dec(x) = (IF x = 0 THEN WRAP - 1 ELSE x - 1) /\ Dec(x) \in 0..(WRAP - 1)
<1> DEFINE a == x + WRAP - 1
<1>1. WRAP \in Nat \ {0} /\ a \in Nat /\ a < 2 * WRAP
  BY ConsoleAssumption
<1> HIDE DEF a
<1>2. a % WRAP = IF a < WRAP THEN a ELSE a - WRAP
  BY <1>1, Reduce
<1>3. QED
  BY <1>1, <1>2 DEF Dec, a

\* The distance from one index to another.
LEMMA BetweenIs ==
    ASSUME NEW x \in 0..(WRAP - 1), NEW y \in 0..(WRAP - 1)
    PROVE  /\ Between(x, y) = IF y < x THEN y + WRAP - x ELSE y - x
           /\ Between(x, y) \in 0..(WRAP - 1)
<1> DEFINE a == y + WRAP - x
<1>1. WRAP \in Nat \ {0} /\ a \in Nat /\ a < 2 * WRAP
  BY ConsoleAssumption
<1> HIDE DEF a
<1>2. a % WRAP = IF a < WRAP THEN a ELSE a - WRAP
  BY <1>1, Reduce
<1>3. QED
  BY <1>1, <1>2 DEF Between, a

\* An index is where the distance says, and the only one there.
LEMMA BetweenEnd ==
    ASSUME NEW x \in 0..(WRAP - 1), NEW y \in 0..(WRAP - 1)
    PROVE  /\ Between(x, y) = 0 <=> x = y
           /\ Wrapped(x + Between(x, y), WRAP) = y
           /\ \A z \in 0..(WRAP - 1) : Between(x, z) = Between(x, y) => z = y
<1> DEFINE b == Between(x, y)
           a == x + b
<1>1. WRAP \in Nat \ {0}
  BY ConsoleAssumption
<1>2. b = (IF y < x THEN y + WRAP - x ELSE y - x) /\ b \in 0..(WRAP - 1)
  BY BetweenIs
<1> HIDE DEF b
<1>3. a \in Nat /\ a < 2 * WRAP
  BY <1>1, <1>2
<1> HIDE DEF a
<1>4. a % WRAP = IF a < WRAP THEN a ELSE a - WRAP
  BY <1>3, Reduce
<1>5. a % WRAP = y
  BY <1>1, <1>2, <1>4 DEF a
<1>6. ASSUME NEW z \in 0..(WRAP - 1), Between(x, z) = b
      PROVE  z = y
  <2>1. Between(x, z) = IF z < x THEN z + WRAP - x ELSE z - x
    BY BetweenIs
  <2>2. QED
    BY <1>1, <1>2, <1>6, <2>1
<1>7. b = 0 <=> x = y
  BY <1>1, <1>2
<1>8. QED
  BY <1>5, <1>6, <1>7 DEF a, b, Wrapped

\* How the distance changes when its ends move.
LEMMA BetweenMoves ==
    ASSUME NEW x \in 0..(WRAP - 1), NEW y \in 0..(WRAP - 1)
    PROVE  /\ Between(x, y) < WRAP - 1 => Between(x, Inc(y)) = Between(x, y) + 1
           /\ x # y => Between(Inc(x), y) = Between(x, y) - 1
           /\ x # y => Between(x, Dec(y)) = Between(x, y) - 1
<1> DEFINE ix == Inc(x)
           iy == Inc(y)
           dy == Dec(y)
           D(u, v) == IF v < u THEN v + WRAP - u ELSE v - u
<1>1. WRAP \in Nat \ {0}
  BY ConsoleAssumption
<1>2. /\ ix = (IF x = WRAP - 1 THEN 0 ELSE x + 1) /\ ix \in 0..(WRAP - 1)
      /\ iy = (IF y = WRAP - 1 THEN 0 ELSE y + 1) /\ iy \in 0..(WRAP - 1)
      /\ dy = (IF y = 0 THEN WRAP - 1 ELSE y - 1) /\ dy \in 0..(WRAP - 1)
  BY IncIs, DecIs
<1> HIDE DEF ix, iy, dy
<1>3. /\ Between(x, y) = D(x, y) /\ Between(x, iy) = D(x, iy)
      /\ Between(ix, y) = D(ix, y) /\ Between(x, dy) = D(x, dy)
  BY <1>2, BetweenIs
<1>4. D(x, y) < WRAP - 1 => D(x, iy) = D(x, y) + 1
  BY <1>1, <1>2
<1>5. x # y => D(ix, y) = D(x, y) - 1
  BY <1>1, <1>2
<1>6. x # y => D(x, dy) = D(x, y) - 1
  BY <1>1, <1>2
<1>7. QED
  BY <1>3, <1>4, <1>5, <1>6 DEF ix, iy, dy

-----------------------------------------------------------------------------
(* The locks. *)

\* popcli() with interrupts off.
LEMMA PoppedIs ==
    ASSUME NEW k \in Nat, NEW i \in BOOLEAN
    PROVE  Popped([fl |-> FALSE, ncli |-> k, intena |-> i])
             = [fl |-> k = 1 /\ i, ncli |-> k - 1, intena |-> i]
<1> DEFINE s == [fl |-> FALSE, ncli |-> k, intena |-> i]
           f == s.fl \/ (s.ncli = 1 /\ s.intena)
<1>1. s.fl = FALSE /\ s.ncli = k /\ s.intena = i
  OBVIOUS
<1>2. f <=> k = 1 /\ i
  BY <1>1
<1>3. f \in BOOLEAN /\ (k = 1 /\ i) \in BOOLEAN
  OBVIOUS
<1>4. f = (k = 1 /\ i)
  BY <1>2, <1>3
<1>5. Popped(s) = [fl |-> f, ncli |-> s.ncli - 1, intena |-> s.intena]
  BY DEF Popped
<1> HIDE DEF f
<1>6. QED
  BY <1>1, <1>4, <1>5

\* acquire() up to its loop, on a CPU that holds no lock.
LEMMA AcquireNests ==
    ASSUME NEW s \in [fl : BOOLEAN, ncli : 0..3, intena : BOOLEAN], s.ncli = 0
    PROVE  Popped(Pushed(Pushed(s))) = Nested(s.fl)
<1>1. Pushed(s) = [fl |-> FALSE, ncli |-> 1, intena |-> s.fl]
  BY DEF Pushed
<1>2. Pushed(Pushed(s)) = [fl |-> FALSE, ncli |-> 2, intena |-> s.fl]
  BY <1>1 DEF Pushed
<1>3. Popped(Pushed(Pushed(s))) = [fl |-> 2 = 1 /\ s.fl, ncli |-> 2 - 1, intena |-> s.fl]
  BY <1>2, PoppedIs
<1>4. (2 = 1 /\ s.fl) = FALSE /\ 2 - 1 = 1
  OBVIOUS
<1>5. QED
  BY <1>3, <1>4 DEF Nested

\* release() of the only lock.
LEMMA ReleaseRestores ==
    ASSUME NEW i \in BOOLEAN
    PROVE  /\ Popped(Popped(Pushed(Nested(i)))) = [fl |-> i, ncli |-> 0, intena |-> i]
           /\ ~PopPanics(Nested(i))
<1>1. Pushed(Nested(i)) = [fl |-> FALSE, ncli |-> 2, intena |-> i]
  BY DEF Pushed, Nested
<1>2. Popped(Pushed(Nested(i))) = Nested(i)
  <2>1. Popped(Pushed(Nested(i))) = [fl |-> 2 = 1 /\ i, ncli |-> 2 - 1, intena |-> i]
    BY <1>1, PoppedIs
  <2>2. (2 = 1 /\ i) = FALSE /\ 2 - 1 = 1
    OBVIOUS
  <2>3. QED
    BY <2>1, <2>2 DEF Nested
<1>3. Popped(Nested(i)) = [fl |-> i, ncli |-> 0, intena |-> i]
  <2>1. Popped(Nested(i)) = [fl |-> 1 = 1 /\ i, ncli |-> 1 - 1, intena |-> i]
    BY PoppedIs DEF Nested
  <2>2. (1 = 1 /\ i) = i /\ 1 - 1 = 0
    OBVIOUS
  <2>3. QED
    BY <2>1, <2>2
<1>4. ~PopPanics(Nested(i))
  BY DEF PopPanics, Nested
<1>5. QED
  BY <1>2, <1>3, <1>4
\* acquire() up to its loop, by a CPU that holds no lock.
LEMMA AcquireEffect ==
    ASSUME TypeOK, NEW c \in CPUs, cli[c].ncli = 0, ~panicked, lkcpu["cons"] # c,
           Acquire(c, "cons")
    PROVE  /\ cli' \in [CPUs -> [fl : BOOLEAN, ncli : 0..3, intena : BOOLEAN]]
           /\ cli'[c] = Nested(cli[c].fl) /\ \A q \in CPUs : q # c => cli'[q] = cli[q]
           /\ panicked' = FALSE /\ lkcpu' = lkcpu
<1>1. cli[c] \in [fl : BOOLEAN, ncli : 0..3, intena : BOOLEAN]
  BY DEF TypeOK
<1>2. cli' = [cli EXCEPT ![c] = Nested(cli[c].fl)]
  BY <1>1, AcquireNests DEF Acquire
<1>3. Nested(cli[c].fl) \in [fl : BOOLEAN, ncli : 0..3, intena : BOOLEAN]
  BY <1>1 DEF Nested
<1>4. panicked' = FALSE
  BY DEF Acquire, Holding
<1>5. QED
  BY <1>2, <1>3, <1>4 DEF TypeOK, Acquire

\* release() by the CPU that holds cons.lock and no other lock.
LEMMA ReleaseEffect ==
    ASSUME TypeOK, NEW c \in CPUs, NEW i \in BOOLEAN, cli[c] = Nested(i), ~panicked,
           lkcpu["cons"] = c, Release(c, "cons")
    PROVE  /\ cli' \in [CPUs -> [fl : BOOLEAN, ncli : 0..3, intena : BOOLEAN]]
           /\ cli'[c] = [fl |-> i, ncli |-> 0, intena |-> i]
           /\ \A q \in CPUs : q # c => cli'[q] = cli[q]
           /\ panicked' = FALSE /\ lkcpu' \in [Locks -> CPUs \cup {NOCPU}] /\ lkcpu'["cons"] = NOCPU
<1>1. cli' = [cli EXCEPT ![c] = [fl |-> i, ncli |-> 0, intena |-> i]]
  BY ReleaseRestores DEF Release
<1>2. [fl |-> i, ncli |-> 0, intena |-> i] \in [fl : BOOLEAN, ncli : 0..3, intena : BOOLEAN]
  OBVIOUS
<1>3. panicked' = FALSE
  BY ReleaseRestores DEF Release, Holding
<1>4. "cons" \in Locks
  BY ConsoleAssumption
<1>5. QED
  BY <1>1, <1>2, <1>3, <1>4 DEF TypeOK, Release

\* What the spin-locks' variables are when a step leaves a CPU alone.
SpinType ==
    /\ cli \in [CPUs -> [fl : BOOLEAN, ncli : 0..3, intena : BOOLEAN]]
    /\ lkcpu \in [Locks -> CPUs \cup {NOCPU}] /\ panicked \in BOOLEAN

\* Every step keeps the interrupts masked and the lock with who is inside.
LEMMA LocksStep ==
    ASSUME TypeOK, CliInv, LockInv, [Next]_vars
    PROVE  SpinType' /\ CliInv' /\ LockInv'
<1> USE DEF spinVars, input, handler, locals, SpinType
<1>1. /\ Procs = CPUs /\ 0 \in CPUs /\ "cons" \in Locks /\ NOCPU \notin CPUs
      /\ pc \in [Procs -> {"user", "spin", "in", "asleep", "wake"}]
      /\ SpinType
  <2>1. NOCPU \notin Nat
    BY DEF NOCPU
  <2>2. QED
    BY <2>1, ConsoleAssumption DEF TypeOK
<1>2. ASSUME UNCHANGED <<spinVars, hpc>>,
             \A p \in Procs : pc'[p] = pc[p] \/ (pc[p] = "asleep" /\ pc'[p] = "wake")
      PROVE  SpinType' /\ CliInv' /\ LockInv'
  <2>1. \A p \in Procs : ProcCli(p)'
    BY <1>1, <1>2 DEF CliInv, ProcCli, Runs
  <2>2. HandlerCli'
    BY <1>1, <1>2 DEF CliInv, HandlerCli
  <2>3. LockInv'
    BY <1>1, <1>2 DEF LockInv
  <2>4. QED
    BY <1>1, <1>2, <2>1, <2>2, <2>3 DEF CliInv
<1>3. ASSUME NEW k, Press(k)
      PROVE  SpinType' /\ CliInv' /\ LockInv'
  BY <1>2, <1>3 DEF Press
<1>4. CASE Interrupt
  <2> DEFINE s == [cli[0] EXCEPT !.fl = FALSE]
  <2>1. hpc = "none" /\ cli[0].fl /\ hpc' = "spin" /\ UNCHANGED <<lkcpu, pc>>
    BY <1>4 DEF Interrupt
  <2>2. pc[0] \in {"user", "asleep", "wake"} /\ cli[0].ncli = 0
    BY <1>1, <2>1 DEF CliInv, ProcCli, HandlerCli, Runs, Nested
  <2>3. lkcpu["cons"] # 0
    BY <1>1, <2>1, <2>2 DEF LockInv
  <2>4. s \in [fl : BOOLEAN, ncli : 0..3, intena : BOOLEAN] /\ s.ncli = 0 /\ s.fl = FALSE
    BY <1>1, <2>2
  <2>5. cli' = [cli EXCEPT ![0] = Nested(FALSE)]
    BY <1>4, <2>4, AcquireNests DEF Interrupt
  <2>6. panicked' = FALSE
    BY <1>4, <2>3 DEF Interrupt, Holding, LockInv
  <2>7. Nested(FALSE) \in [fl : BOOLEAN, ncli : 0..3, intena : BOOLEAN]
    BY DEF Nested
  <2>8. cli'[0] = Nested(FALSE) /\ (\A p \in Procs : p # 0 => cli'[p] = cli[p]) /\ SpinType'
    BY <1>1, <2>1, <2>5, <2>6, <2>7
  <2>9. CliInv'
    <3>1. ASSUME NEW q \in Procs
          PROVE  ProcCli(q)'
      <4>1. CASE q = 0
        BY <2>1, <4>1 DEF ProcCli, Runs
      <4>2. CASE q # 0
        <5>1. ProcCli(q)
          BY DEF CliInv
        <5>2. QED
          BY <2>1, <2>8, <4>2, <5>1 DEF ProcCli, Runs
      <4>3. QED
        BY <4>1, <4>2
    <3>2. HandlerCli'
      BY <1>1, <2>1, <2>2, <2>8 DEF CliInv, HandlerCli
    <3>3. QED
      BY <3>1, <3>2 DEF CliInv
  <2>10. LockInv'
    BY <2>1, <2>6 DEF LockInv
  <2>11. QED
    BY <2>8, <2>9, <2>10
<1>5. ASSUME hpc = "spin" \/ hpc = "dumpspin", Xchg(0, "cons"), UNCHANGED pc,
             hpc' = IF hpc = "spin" THEN "in" ELSE "dumping"
      PROVE  SpinType' /\ CliInv' /\ LockInv'
  <2>1. lkcpu["cons"] = NOCPU /\ lkcpu'["cons"] = 0 /\ UNCHANGED <<cli, panicked>> /\ SpinType'
    BY <1>1, <1>5 DEF Xchg
  <2>2. CliInv'
    BY <1>5, <2>1 DEF CliInv, ProcCli, HandlerCli, Runs
  <2>3. LockInv'
    BY <1>1, <1>5, <2>1 DEF LockInv
  <2>4. QED
    BY <2>1, <2>2, <2>3
<1>6. ASSUME hpc = "in" \/ hpc = "dumping", Release(0, "cons"), UNCHANGED pc,
             hpc' \in {"procdump", "iret"}
      PROVE  SpinType' /\ CliInv' /\ LockInv'
  <2>1. cli[0] = Nested(FALSE) /\ lkcpu["cons"] = 0 /\ ~panicked
    BY <1>1, <1>6 DEF CliInv, ProcCli, HandlerCli, LockInv
  <2>2. /\ cli'[0] = [fl |-> FALSE, ncli |-> 0, intena |-> FALSE]
        /\ \A q \in CPUs : q # 0 => cli'[q] = cli[q]
        /\ panicked' = FALSE /\ lkcpu'["cons"] = NOCPU /\ SpinType'
    BY <1>1, <1>6, <2>1, ReleaseEffect
  <2>3. CliInv'
    <3>1. \A q \in Procs : ProcCli(q)'
      BY <1>1, <1>6, <2>2 DEF CliInv, ProcCli, Runs
    <3>2. HandlerCli'
      <4>1. ~cli'[0].fl /\ cli'[0].ncli = 0
        BY <2>2
      <4>2. QED
        BY <1>6, <4>1 DEF CliInv, HandlerCli
    <3>3. QED
      BY <3>1, <3>2 DEF CliInv
  <2>4. LockInv'
    BY <1>1, <1>6, <2>1, <2>2 DEF LockInv, CliInv, HandlerCli
  <2>5. QED
    BY <2>2, <2>3, <2>4
<1>7. CASE HandlerXchg
  BY <1>5, <1>7 DEF HandlerXchg
<1>8. CASE HandlerDone
  BY <1>6, <1>8 DEF HandlerDone, AfterKeys
<1>9. CASE ProcDump
  <2>1. CASE hpc = "procdump" /\ Acquire(0, "cons") /\ hpc' = "dumpspin" /\ UNCHANGED pc
    <3>1. cli[0].ncli = 0 /\ ~cli[0].fl /\ lkcpu["cons"] # 0 /\ ~panicked
      BY <1>1, <2>1 DEF CliInv, ProcCli, HandlerCli, LockInv
    <3>2. /\ cli'[0] = Nested(cli[0].fl) /\ \A q \in CPUs : q # 0 => cli'[q] = cli[q]
          /\ panicked' = FALSE /\ lkcpu' = lkcpu /\ SpinType'
      BY <1>1, <2>1, <3>1, AcquireEffect
    <3>3. cli[0].fl = FALSE
      BY <1>1, <3>1
    <3>4. cli'[0] = Nested(FALSE)
      BY <3>2, <3>3
    <3>5. CliInv'
      BY <1>1, <2>1, <3>2, <3>4 DEF CliInv, ProcCli, HandlerCli, Runs
    <3>6. LockInv'
      BY <1>1, <2>1, <3>2 DEF LockInv
    <3>7. QED
      BY <3>2, <3>5, <3>6
  <2>2. QED
    BY <1>5, <1>6, <1>9, <2>1 DEF ProcDump
<1>10. CASE Iret
  <2>1. /\ hpc = "iret" /\ hpc' = "none" /\ UNCHANGED <<lkcpu, panicked, pc>>
        /\ cli' = [cli EXCEPT ![0] = [cli[0] EXCEPT !.fl = TRUE]]
    BY <1>10 DEF Iret
  <2>2. /\ cli'[0].fl /\ cli'[0].ncli = 0 /\ \A q \in CPUs : q # 0 => cli'[q] = cli[q]
        /\ SpinType'
    BY <1>1, <2>1 DEF CliInv, ProcCli, HandlerCli
  <2>3. CliInv'
    BY <1>1, <2>1, <2>2 DEF CliInv, ProcCli, HandlerCli, Runs
  <2>4. LockInv'
    BY <1>1, <2>1 DEF LockInv
  <2>5. QED
    BY <2>2, <2>3, <2>4
<1>11. CASE KeyDump \/ KeyKill \/ KeyErase \/ KeyDropped
  BY <1>2, <1>11 DEF KeyDump, KeyKill, KeyErase, KeyDropped
<1>12. CASE KeyChar
  BY <1>1, <1>2, <1>12 DEF KeyChar, WokenBy
<1>13. ASSUME NEW p \in Procs, Runs(p), pc[p] \in {"user", "wake"}, Acquire(p, "cons"),
              Goto(p, "spin"), UNCHANGED hpc
       PROVE  SpinType' /\ CliInv' /\ LockInv'
  <2>1. cli[p].fl /\ cli[p].ncli = 0 /\ lkcpu["cons"] # p /\ ~panicked
    BY <1>1, <1>13 DEF CliInv, ProcCli, HandlerCli, LockInv, Runs
  <2>2. cli[p].fl = TRUE
    BY <1>1, <2>1
  <2>3. /\ cli'[p] = Nested(TRUE) /\ \A q \in CPUs : q # p => cli'[q] = cli[q]
        /\ panicked' = FALSE /\ lkcpu' = lkcpu /\ SpinType'
    BY <1>1, <1>13, <2>1, <2>2, AcquireEffect
  <2>4. pc'[p] = "spin" /\ \A q \in Procs : q # p => pc'[q] = pc[q]
    BY <1>1, <1>13 DEF Goto
  <2>5. CliInv'
    <3>1. ASSUME NEW q \in Procs
          PROVE  ProcCli(q)'
      <4>1. CASE q = p
        BY <2>3, <2>4, <4>1 DEF ProcCli
      <4>2. CASE q # p
        <5>1. ProcCli(q) /\ cli'[q] = cli[q] /\ pc'[q] = pc[q] /\ hpc' = hpc
          BY <1>1, <1>13, <2>3, <2>4, <4>2 DEF CliInv
        <5>2. QED
          BY <5>1 DEF ProcCli, Runs
      <4>3. QED
        BY <4>1, <4>2
    <3>2. HandlerCli'
      BY <1>1, <1>13, <2>3, <2>4 DEF CliInv, HandlerCli, Runs
    <3>3. QED
      BY <3>1, <3>2 DEF CliInv
  <2>6. LockInv'
    BY <1>1, <1>13, <2>3, <2>4 DEF LockInv
  <2>7. QED
    BY <2>3, <2>5, <2>6
<1>14. ASSUME NEW p \in Procs, Spin(p)
       PROVE  SpinType' /\ CliInv' /\ LockInv'
  <2>1. /\ Runs(p) /\ pc[p] = "spin" /\ lkcpu["cons"] = NOCPU /\ lkcpu'["cons"] = p
        /\ UNCHANGED <<cli, panicked, hpc>> /\ SpinType'
    BY <1>1, <1>14 DEF Spin, Xchg
  <2>2. pc'[p] = "in" /\ \A q \in Procs : q # p => pc'[q] = pc[q]
    BY <1>1, <1>14 DEF Spin, Goto
  <2>3. CliInv'
    BY <1>1, <2>1, <2>2 DEF CliInv, ProcCli, HandlerCli, Runs
  <2>4. LockInv'
    BY <1>1, <2>1, <2>2 DEF LockInv
  <2>5. QED
    BY <2>1, <2>3, <2>4
<1>15. ASSUME NEW p \in Procs, Runs(p), pc[p] = "in", Release(p, "cons"), UNCHANGED hpc,
              Goto(p, "user") \/ Goto(p, "asleep")
       PROVE  SpinType' /\ CliInv' /\ LockInv'
  <2>1. cli[p] = Nested(TRUE) /\ lkcpu["cons"] = p /\ ~panicked
    BY <1>1, <1>15 DEF CliInv, ProcCli, HandlerCli, LockInv
  <2>2. /\ cli'[p] = [fl |-> TRUE, ncli |-> 0, intena |-> TRUE]
        /\ \A q \in CPUs : q # p => cli'[q] = cli[q]
        /\ panicked' = FALSE /\ lkcpu'["cons"] = NOCPU /\ SpinType'
    <3>1. TypeOK /\ p \in CPUs /\ TRUE \in BOOLEAN /\ Release(p, "cons")
      BY <1>1, <1>15
    <3>2. QED
      BY <2>1, <3>1, ReleaseEffect
  <2>3. pc'[p] \in {"user", "asleep"} /\ \A q \in Procs : q # p => pc'[q] = pc[q]
    BY <1>1, <1>15 DEF Goto
  <2>4. CliInv'
    <3> DEFINE fl == cli'[p].fl
               ncli == cli'[p].ncli
    <3>1. fl /\ ncli = 0
      BY <2>2
    <3> HIDE DEF fl, ncli
    <3>2. ASSUME NEW q \in Procs
          PROVE  ProcCli(q)'
      <4>1. CASE q = p
        BY <2>3, <3>1, <4>1 DEF ProcCli, Runs, fl, ncli
      <4>2. CASE q # p
        <5>1. ProcCli(q)
          BY DEF CliInv
        <5>2. QED
          BY <1>1, <1>15, <2>2, <2>3, <4>2, <5>1 DEF ProcCli, Runs
      <4>3. QED
        BY <4>1, <4>2
    <3>3. HandlerCli'
      BY <1>1, <1>15, <2>2, <2>3 DEF CliInv, HandlerCli, Runs
    <3>4. QED
      BY <3>2, <3>3 DEF CliInv
  <2>5. LockInv'
    BY <1>1, <1>15, <2>1, <2>2, <2>3 DEF LockInv, Runs
  <2>6. QED
    BY <2>2, <2>4, <2>5
<1>16. ASSUME NEW p \in Procs, NEW k \in Sizes, Read(p, k)
       PROVE  SpinType' /\ CliInv' /\ LockInv'
  BY <1>13, <1>16 DEF Read
<1>17. ASSUME NEW p \in Procs, Write(p) \/ Wake(p)
       PROVE  SpinType' /\ CliInv' /\ LockInv'
  BY <1>13, <1>17 DEF Write, Wake
<1>18. ASSUME NEW p \in Procs, WriteDone(p) \/ ReadSleep(p) \/ ReadEof(p)
       PROVE  SpinType' /\ CliInv' /\ LockInv'
  BY <1>15, <1>18 DEF WriteDone, ReadSleep, ReadEof, InRead, Leave
<1>19. ASSUME NEW p \in Procs, ReadChar(p)
       PROVE  SpinType' /\ CliInv' /\ LockInv'
  <2>1. CASE UNCHANGED <<spinVars, pc, hpc>>
    BY <1>2, <2>1
  <2>2. QED
    BY <1>15, <1>19, <2>1 DEF ReadChar, InRead, Leave
<1>20. ASSUME NEW p \in Procs, KillReader(p)
       PROVE  SpinType' /\ CliInv' /\ LockInv'
  BY <1>1, <1>2, <1>20 DEF KillReader, Goto
<1>21. CASE UNCHANGED vars
  BY <1>2, <1>21 DEF vars
<1>22. QED
  BY <1>3, <1>4, <1>7, <1>8, <1>9, <1>10, <1>11, <1>12, <1>14, <1>16, <1>17, <1>18, <1>19, <1>20, <1>21
     DEF Next, Handler, Step

-----------------------------------------------------------------------------
(* The calls and the ring. *)

\* Every step keeps the calls in order.
LEMMA CallsStep ==
    ASSUME TypeOK, CallsInv, [Next]_vars
    PROVE  CallsInv'
<1> USE DEF CallsInv, spinVars, input, handler, locals
<1>1. /\ pc \in [Procs -> {"user", "spin", "in", "asleep", "wake"}] /\ n \in [Procs -> Nat]
      /\ call \in [Procs -> {"none", "read", "write"}] /\ target \in [Procs -> Sizes \cup {0}]
      /\ \A k \in Sizes : k \in Nat /\ k > 0
  BY ConsoleAssumption DEF TypeOK
<1>2. ASSUME UNCHANGED <<call, n>>,
             \A p \in Procs : pc'[p] = pc[p] \/ (pc[p] = "asleep" /\ pc'[p] = "wake")
      PROVE  CallsInv'
  BY <1>2
<1>3. ASSUME Handler \/ \E k \in Keys : Press(k)
      PROVE  CallsInv'
  BY <1>1, <1>2, <1>3 DEF Handler, Press, Interrupt, HandlerXchg, HandlerDone, ProcDump, Iret, KeyDump,
           KeyKill, KeyErase, KeyChar, KeyDropped, WokenBy
<1>4. ASSUME NEW p \in Procs, NEW k \in Sizes, Read(p, k)
      PROVE  CallsInv'
  BY <1>1, <1>4 DEF Read, Goto
<1>5. ASSUME NEW p \in Procs, Write(p)
      PROVE  CallsInv'
  BY <1>1, <1>5 DEF Write, Goto
<1>6. ASSUME NEW p \in Procs, Wake(p) \/ Spin(p)
      PROVE  CallsInv'
  BY <1>1, <1>6 DEF Wake, Spin, Goto
<1>7. ASSUME NEW p \in Procs, Leave(p)
      PROVE  CallsInv'
  BY <1>1, <1>7 DEF Leave, Goto
<1>8. ASSUME NEW p \in Procs, ReadSleep(p) \/ KillReader(p)
      PROVE  CallsInv'
  BY <1>1, <1>8 DEF ReadSleep, InRead, KillReader, Goto
<1>9. ASSUME NEW p \in Procs, ReadChar(p)
      PROVE  CallsInv'
  <2>1. CASE n[p] # 1 /\ n' = [n EXCEPT ![p] = @ - 1] /\ UNCHANGED <<pc, call>>
    <3>1. n[p] \in Nat /\ (call[p] = "read" => n[p] - 1 > 0)
      BY <1>1, <2>1
    <3>2. QED
      BY <1>1, <2>1, <3>1
  <2>2. QED
    BY <1>7, <1>9, <2>1 DEF ReadChar
<1>10. CASE UNCHANGED vars
  BY <1>2, <1>10 DEF vars
<1>11. QED
  BY <1>3, <1>4, <1>5, <1>6, <1>7, <1>8, <1>9, <1>10 DEF Next, Step, WriteDone, ReadEof

\* Control-U takes away the whole line: it has no end of a line to stop at.
LEMMA KilledToW ==
    ASSUME TypeOK, RingInv
    PROVE  KilledTo = w
<1> DEFINE P(x) == /\ Between(w, x) <= Between(w, e)
                   /\ x = w \/ At(Dec(x)) = "nl"
                   /\ \A y \in 0..(WRAP - 1) :
                        Between(w, x) < Between(w, y) /\ Between(w, y) <= Between(w, e)
                          => At(Dec(y)) # "nl"
<1>1. w \in 0..(WRAP - 1) /\ e \in 0..(WRAP - 1)
  BY DEF TypeOK
<1>2. ASSUME NEW y \in 0..(WRAP - 1), y # w, Between(w, y) <= Between(w, e)
      PROVE  At(Dec(y)) # "nl"
  <2>1. Dec(y) \in 0..(WRAP - 1) /\ Between(w, Dec(y)) = Between(w, y) - 1
    BY <1>1, <1>2, DecIs, BetweenMoves
  <2>2. Between(w, y) \in Nat /\ Between(w, e) \in Nat
    BY <1>1, BetweenIs
  <2>3. Between(w, Dec(y)) < Between(w, e)
    BY <1>2, <2>1, <2>2
  <2>4. QED
    BY <2>1, <2>3 DEF RingInv
<1>3. Between(w, w) = 0 /\ Between(w, e) \in Nat
  BY <1>1, BetweenEnd, BetweenIs
<1>4. P(w)
  <2>1. ASSUME NEW y \in 0..(WRAP - 1), Between(w, w) < Between(w, y), Between(w, y) <= Between(w, e)
        PROVE  At(Dec(y)) # "nl"
    <3>1. y # w
      BY <1>3, <2>1
    <3>2. QED
      BY <1>2, <2>1, <3>1
  <2>2. Between(w, w) <= Between(w, e)
    BY <1>3
  <2>3. QED
    BY <2>1, <2>2
<1>5. \A x \in 0..(WRAP - 1) : P(x) => x = w
  BY <1>2
<1> HIDE DEF P
<1>6. (CHOOSE x \in 0..(WRAP - 1) : P(x)) = w
  BY <1>1, <1>4, <1>5
<1>7. QED
  BY <1>6 DEF KilledTo, P

\* The ring's variables have their types.
RingType == buf \in [0..(INPUT_BUF - 1) -> Chars] /\ {r, w, e} \subseteq 0..(WRAP - 1)

\* Typing a character into a ring with room, and whether it ends the line.
LEMMA TypeChar ==
    ASSUME TypeOK, RingInv, KeyChar
    PROVE  LET k == Stored(Head(keys)) IN
           /\ k \in Chars /\ e % INPUT_BUF \in 0..(INPUT_BUF - 1)
           /\ buf' = Replaced(buf, e % INPUT_BUF, k)
           /\ e' \in 0..(WRAP - 1) /\ r' = r
           /\ Between(r, e') = Between(r, e) + 1 /\ Between(w, e') = Between(w, e) + 1
           /\ Between(r, e) < INPUT_BUF
           /\ Enters(k) <=> k \in {"nl", "eof"} \/ Between(r, e) + 1 = INPUT_BUF
           /\ Enters(k) => w' = e'
           /\ ~Enters(k) => w' = w
<1> DEFINE k == Stored(Head(keys))
<1>1. /\ r \in 0..(WRAP - 1) /\ w \in 0..(WRAP - 1) /\ e \in 0..(WRAP - 1)
      /\ INPUT_BUF \in Nat \ {0} /\ WRAP \in Nat /\ WRAP > INPUT_BUF /\ e \in Nat
  BY ConsoleAssumption DEF TypeOK
<1>2. /\ Head(keys) \in Chars \cup {"cr"} /\ Between(r, e) < INPUT_BUF
      /\ buf' = [buf EXCEPT ![e % INPUT_BUF] = k] /\ e' = Inc(e) /\ r' = r
      /\ w' = IF Enters(k) THEN e' ELSE w
  BY DEF KeyChar, InHandler, Room
<1>3. k \in Chars
  BY <1>2 DEF Stored, Chars
<1>4. /\ Between(r, e) \in Nat /\ Between(w, e) \in Nat /\ Between(r, w) \in Nat
      /\ Between(r, w) + Between(w, e) = Between(r, e)
  BY <1>1, BetweenIs DEF RingInv
<1>5. Between(r, e) < WRAP - 1 /\ Between(w, e) < WRAP - 1
  BY <1>1, <1>2, <1>4
<1>6. /\ e' \in 0..(WRAP - 1)
      /\ Between(r, e') = Between(r, e) + 1 /\ Between(w, e') = Between(w, e) + 1
  BY <1>1, <1>2, <1>5, IncIs, BetweenMoves
<1>7. Inc(e) = (r + INPUT_BUF) % WRAP <=> Between(r, e) + 1 = INPUT_BUF
  <2> DEFINE f == Inc(e)
             a == r + INPUT_BUF
             g == a % WRAP
  <2>1. f \in 0..(WRAP - 1) /\ Between(r, f) = Between(r, e) + 1
    BY <1>2, <1>6
  <2>2. a \in Nat /\ a < 2 * WRAP
    BY <1>1
  <2> HIDE DEF a
  <2>3. a % WRAP = IF a < WRAP THEN a ELSE a - WRAP
    BY <2>2, Reduce
  <2>4. g \in 0..(WRAP - 1) /\ g = IF r + INPUT_BUF < WRAP THEN r + INPUT_BUF ELSE r + INPUT_BUF - WRAP
    BY <1>1, <2>2, <2>3 DEF a
  <2> HIDE DEF g, f
  <2>5. Between(r, g) = IF g < r THEN g + WRAP - r ELSE g - r
    BY <1>1, <2>4, BetweenIs
  <2>6. Between(r, g) = INPUT_BUF
    BY <1>1, <2>4, <2>5
  <2>7. f = g <=> Between(r, f) = INPUT_BUF
    BY <1>1, <2>1, <2>4, <2>6, BetweenEnd
  <2>8. QED
    BY <2>1, <2>7 DEF f, g, a
<1>8. e % INPUT_BUF \in 0..(INPUT_BUF - 1)
  BY <1>1, DivMod
<1>9. Enters(k) <=> k \in {"nl", "eof"} \/ Between(r, e) + 1 = INPUT_BUF
  BY <1>7 DEF Enters
<1> HIDE DEF k
<1>10. QED
  BY <1>2, <1>3, <1>6, <1>8, <1>9 DEF Replaced, k

\* Every step keeps the indices in order around the ring.
LEMMA RingStep ==
    ASSUME TypeOK, RingInv, [Next]_vars
    PROVE  RingType' /\ RingInv'
<1> USE DEF spinVars, input, handler, locals
<1>1. /\ r \in 0..(WRAP - 1) /\ w \in 0..(WRAP - 1) /\ e \in 0..(WRAP - 1) /\ WRAP \in Nat
      /\ buf \in [0..(INPUT_BUF - 1) -> Chars] /\ INPUT_BUF \in Nat
  BY ConsoleAssumption DEF TypeOK
<1>2. /\ Between(r, w) \in Nat /\ Between(w, e) \in Nat /\ Between(r, e) \in Nat
      /\ Between(r, w) + Between(w, e) = Between(r, e) /\ Between(r, e) <= INPUT_BUF
      /\ \A x \in 0..(WRAP - 1) : Between(w, x) \in Nat
      /\ \A x \in 0..(WRAP - 1) : Between(w, x) < Between(w, e) => At(x) # "nl"
  <2>1. \A x \in 0..(WRAP - 1), y \in 0..(WRAP - 1) : Between(x, y) \in 0..(WRAP - 1)
    BY BetweenIs
  <2>2. \A x \in 0..(WRAP - 1), y \in 0..(WRAP - 1) : Between(x, y) \in Nat
    BY <1>1, <2>1
  <2>3. QED
    BY <1>1, <2>2 DEF RingInv
<1>3. ASSUME UNCHANGED input
      PROVE  RingType' /\ RingInv'
  BY <1>1, <1>3 DEF RingType, RingInv, At
<1>4. ASSUME NEW f \in 0..(WRAP - 1), e' = f, UNCHANGED <<buf, r, w>>,
             Between(r, w) + Between(w, f) = Between(r, f), Between(w, f) <= Between(w, e)
      PROVE  RingType' /\ RingInv'
  <2>1. Between(w, f) \in Nat /\ Between(r, f) <= INPUT_BUF
    BY <1>1, <1>2, <1>4
  <2>2. \A x \in 0..(WRAP - 1) : Between(w, x) < Between(w, f) => At(x) # "nl"
    BY <1>2, <1>4, <2>1
  <2>3. RingInv'
    BY <1>4, <2>1, <2>2 DEF RingInv, At
  <2>4. QED
    BY <1>1, <1>4, <2>3 DEF RingType
<1>5. CASE KeyKill
  <2>1. e' = w /\ UNCHANGED <<buf, r, w>>
    BY <1>5, KilledToW DEF KeyKill
  <2>2. Between(w, w) = 0
    BY <1>1, BetweenEnd
  <2>3. QED
    BY <1>1, <1>2, <1>4, <2>1, <2>2
<1>6. CASE KeyErase
  <2>1. CASE e = w
    BY <1>3, <1>6, <2>1 DEF KeyErase
  <2>2. CASE e # w
    <3>1. e' = Dec(e) /\ UNCHANGED <<buf, r, w>>
      BY <1>6, <2>2 DEF KeyErase
    <3>2. Between(w, e) # 0 /\ r # e
      BY <1>1, <1>2, <2>2, BetweenEnd
    <3>3. /\ Dec(e) \in 0..(WRAP - 1)
          /\ Between(w, Dec(e)) = Between(w, e) - 1 /\ Between(r, Dec(e)) = Between(r, e) - 1
      BY <1>1, <2>2, <3>2, DecIs, BetweenMoves
    <3>4. QED
      BY <1>2, <1>4, <3>1, <3>3
  <2>3. QED
    BY <2>1, <2>2
<1>7. CASE KeyChar
  <2> DEFINE k == Stored(Head(keys))
  <2>1. /\ k \in Chars /\ buf' = [buf EXCEPT ![e % INPUT_BUF] = k]
        /\ e' \in 0..(WRAP - 1) /\ r' = r
        /\ Between(r, e') = Between(r, e) + 1 /\ Between(w, e') = Between(w, e) + 1
        /\ Between(r, e) < INPUT_BUF /\ (k = "nl" => Enters(k))
        /\ Enters(k) => w' = e'
        /\ ~Enters(k) => w' = w
    BY <1>7, TypeChar DEF Replaced
  <2>2. RingType'
    BY <1>1, <2>1 DEF RingType
  <2>3. CASE Enters(k)
    <3>1. Between(w', e') = 0
      BY <2>1, <2>3, BetweenEnd
    <3>2. \A x \in 0..(WRAP - 1) : Between(w', x) \in Nat
      BY <2>1, <2>3, BetweenIs
    <3>3. QED
      <4>1. Between(r', w') + Between(w', e') = Between(r', e') /\ Between(r', e') <= INPUT_BUF
        <5>1. r' = r /\ w' = e' /\ Between(r, e') = Between(r, e) + 1 /\ Between(r, e) < INPUT_BUF
          BY <2>1, <2>3
        <5>2. Between(r', w') = Between(r, e') /\ Between(r', e') = Between(r, e')
          BY <5>1
        <5>3. QED
          BY <1>1, <1>2, <3>1, <5>1, <5>2
      <4>2. \A x \in 0..(WRAP - 1) : ~(Between(w', x) < Between(w', e'))
        BY <3>1, <3>2
      <4>3. QED
        BY <2>2, <4>1, <4>2 DEF RingInv
  <2>4. CASE ~Enters(k)
    <3>1. \A x \in 0..(WRAP - 1) : Between(w, x) < Between(w, e) + 1 => buf'[x % INPUT_BUF] # "nl"
      <4> TAKE x \in 0..(WRAP - 1)
      <4> HAVE Between(w, x) < Between(w, e) + 1
      <4>1. INPUT_BUF \in Nat \ {0} /\ x \in Nat
        BY ConsoleAssumption, <1>1
      <4>2. x % INPUT_BUF \in 0..(INPUT_BUF - 1)
        BY <4>1, DivMod
      <4>3. CASE x = e
        BY <1>1, <2>1, <2>4, <4>2, <4>3
      <4>4. CASE x # e
        <5>1. Between(w, x) # Between(w, e)
          BY <1>1, <4>4, BetweenEnd
        <5>2. Between(w, x) < Between(w, e)
          BY <1>2, <5>1
        <5>3. buf[x % INPUT_BUF] # "nl"
          BY <1>2, <5>2 DEF At
        <5>4. QED
          BY <1>1, <2>1, <2>4, <4>2, <5>3
      <4>5. QED
        BY <4>3, <4>4
    <3>2. QED
      <4>1. r' = r /\ w' = w /\ Between(r, e') = Between(r, e) + 1 /\ Between(r, e) < INPUT_BUF
            /\ Between(w, e') = Between(w, e) + 1
        BY <2>1, <2>4
      <4>2. Between(r', w') + Between(w', e') = Between(r', e') /\ Between(r', e') <= INPUT_BUF
        <5>1. Between(r', w') = Between(r, w) /\ Between(w', e') = Between(w, e) + 1
              /\ Between(r', e') = Between(r, e) + 1
          BY <4>1
        <5>2. QED
          <6> DEFINE a == Between(r, w)
                     b == Between(w, e)
                     c == Between(r, e)
          <6>1. a \in Nat /\ b \in Nat /\ c \in Nat /\ a + b = c /\ c < INPUT_BUF /\ INPUT_BUF \in Nat
            BY <1>1, <1>2, <4>1
          <6> HIDE DEF a, b, c
          <6>2. a + (b + 1) = c + 1 /\ c + 1 <= INPUT_BUF
            BY <6>1
          <6>3. QED
            BY <5>1, <6>2 DEF a, b, c
      <4>3. \A x \in 0..(WRAP - 1) : Between(w', x) < Between(w', e') => At(x)' # "nl"
        BY <3>1, <4>1 DEF At
      <4>4. QED
        BY <2>2, <4>2, <4>3 DEF RingInv
  <2>5. QED
    BY <2>3, <2>4
<1>8. ASSUME r # w, r' = Inc(r), UNCHANGED <<buf, w, e>>
      PROVE  RingType' /\ RingInv'
  <2>1. Between(r, w) # 0 /\ r # e
    BY <1>1, <1>2, <1>8, BetweenEnd
  <2>2. /\ Inc(r) \in 0..(WRAP - 1)
        /\ Between(Inc(r), w) = Between(r, w) - 1 /\ Between(Inc(r), e) = Between(r, e) - 1
    BY <1>1, <1>8, <2>1, IncIs, BetweenMoves
  <2>3. RingType'
    BY <1>1, <1>8, <2>2 DEF RingType
  <2>4. /\ Between(Inc(r), w) + Between(w, e) = Between(Inc(r), e)
        /\ Between(Inc(r), e) <= INPUT_BUF
    <3> DEFINE a == Between(r, w)
               b == Between(w, e)
               c == Between(r, e)
    <3>1. a \in Nat /\ b \in Nat /\ c \in Nat /\ a + b = c /\ c <= INPUT_BUF /\ INPUT_BUF \in Nat
      BY <1>1, <1>2
    <3> HIDE DEF a, b, c
    <3>2. (a - 1) + b = c - 1 /\ c - 1 <= INPUT_BUF
      BY <3>1
    <3>3. QED
      BY <2>2, <3>2 DEF a, b, c
  <2>5. QED
    BY <1>2, <1>8, <2>3, <2>4 DEF RingInv, At
<1>9. ASSUME NEW p \in Procs, ReadChar(p) \/ ReadEof(p)
      PROVE  RingType' /\ RingInv'
  BY <1>3, <1>8, <1>9 DEF ReadChar, ReadEof
<1>10. CASE Interrupt \/ HandlerXchg \/ HandlerDone \/ ProcDump \/ Iret \/ KeyDump \/ KeyDropped
  BY <1>3, <1>10 DEF Interrupt, HandlerXchg, HandlerDone, ProcDump, Iret, KeyDump, KeyDropped
<1>11. ASSUME NEW k, Press(k) \/ \E p \in Procs : Read(p, k)
       PROVE  RingType' /\ RingInv'
  BY <1>3, <1>11 DEF Press, Read
<1>12. ASSUME NEW p \in Procs,
              Write(p) \/ KillReader(p) \/ Wake(p) \/ Spin(p) \/ WriteDone(p) \/ ReadSleep(p)
       PROVE  RingType' /\ RingInv'
  BY <1>3, <1>12 DEF Write, KillReader, Wake, Spin, WriteDone, ReadSleep
<1>13. CASE UNCHANGED vars
  BY <1>3, <1>13 DEF vars
<1>14. QED
  BY <1>5, <1>6, <1>7, <1>9, <1>10, <1>11, <1>12, <1>13 DEF Next, Handler, Step

\* Every step keeps the types.
LEMMA TypeStep ==
    ASSUME IInv, [Next]_vars
    PROVE  TypeOK'
<1> USE DEF spinVars, input, handler, locals
<1>1. SpinType' /\ RingType'
  BY LocksStep, RingStep DEF IInv
<1>2. /\ keys \in Seq(Keys) /\ dump \in BOOLEAN
      /\ hpc \in {"none", "spin", "in", "procdump", "dumpspin", "dumping", "iret"}
      /\ pc \in [Procs -> {"user", "spin", "in", "asleep", "wake"}]
      /\ call \in [Procs -> {"none", "read", "write"}]
      /\ n \in [Procs -> Nat] /\ target \in [Procs -> Sizes \cup {0}]
      /\ \A p \in Procs : n[p] <= target[p]
      /\ Sizes \subseteq Nat
  BY ConsoleAssumption DEF IInv, TypeOK
<1> DEFINE HType == /\ keys \in Seq(Keys) /\ dump \in BOOLEAN
                    /\ hpc \in {"none", "spin", "in", "procdump", "dumpspin", "dumping", "iret"}
           PType == /\ pc \in [Procs -> {"user", "spin", "in", "asleep", "wake"}]
                    /\ call \in [Procs -> {"none", "read", "write"}]
                    /\ n \in [Procs -> Nat] /\ target \in [Procs -> Sizes \cup {0}]
                    /\ \A p \in Procs : n[p] <= target[p]
<1>3. HType'
  <2>1. ASSUME NEW k \in Keys, Press(k)
        PROVE  HType'
    BY <1>2, <2>1 DEF Press
  <2>2. CASE Interrupt \/ HandlerXchg \/ HandlerDone \/ ProcDump \/ Iret
    BY <1>2, <2>2 DEF Interrupt, HandlerXchg, HandlerDone, AfterKeys, ProcDump, Iret
  <2>3. CASE KeyDump \/ KeyKill \/ KeyErase \/ KeyChar \/ KeyDropped
    <3>1. keys # <<>> /\ keys' = Tail(keys) /\ hpc' = hpc /\ dump' \in {TRUE, dump}
      BY <2>3 DEF KeyDump, KeyKill, KeyErase, KeyChar, KeyDropped, InHandler
    <3>2. Tail(keys) \in Seq(Keys)
      BY <1>2, <3>1
    <3>3. QED
      BY <1>2, <3>1, <3>2
  <2>4. ASSUME UNCHANGED <<keys, hpc, dump>>
        PROVE  HType'
    BY <1>2, <2>4
  <2>5. QED
    BY <2>1, <2>2, <2>3, <2>4 DEF Next, Handler, Step, vars, Read, Write, KillReader, Wake, Spin,
       WriteDone, ReadSleep, ReadChar, ReadEof
<1>4. PType'
  <2>1. ASSUME UNCHANGED <<pc, locals>>
        PROVE  PType'
    BY <1>2, <2>1
  <2>2. ASSUME NEW p \in Procs, NEW l \in {"user", "spin", "in", "asleep", "wake"}, Goto(p, l),
               UNCHANGED locals
        PROVE  PType'
    BY <1>2, <2>2 DEF Goto
  <2>3. ASSUME NEW p \in Procs, Leave(p)
        PROVE  PType'
    BY <1>2, <2>3 DEF Leave, Goto
  <2>4. ASSUME NEW p \in Procs, NEW k \in Sizes, Read(p, k)
        PROVE  PType'
    BY <1>2, <2>4 DEF Read, Goto
  <2>5. ASSUME NEW p \in Procs, Write(p)
        PROVE  PType'
    BY <1>2, <2>5 DEF Write, Goto
  <2>6. ASSUME NEW p \in Procs, ReadChar(p)
        PROVE  PType'
    <3>1. CASE n' = [n EXCEPT ![p] = @ - 1] /\ UNCHANGED <<pc, call, target>>
      <4>1. n[p] \in Nat /\ n[p] > 0 /\ target[p] \in Nat
        <5>1. call[p] = "read"
          BY <2>6 DEF ReadChar, InRead
        <5>2. n[p] > 0
          BY <5>1 DEF IInv, CallsInv
        <5>3. 0 \in Nat
          OBVIOUS
        <5>4. QED
          BY <1>2, <5>2, <5>3
      <4>2. n[p] - 1 \in Nat /\ n[p] - 1 <= target[p]
        BY <1>2, <4>1
      <4>3. QED
        BY <1>2, <3>1, <4>2
    <3>2. QED
      BY <2>3, <2>6, <3>1 DEF ReadChar
  <2>7. CASE KeyChar
    BY <1>2, <2>7 DEF KeyChar, WokenBy
  <2>8. ASSUME NEW p \in Procs, Wake(p) \/ Spin(p) \/ ReadSleep(p) \/ KillReader(p)
        PROVE  PType'
    BY <2>2, <2>8 DEF Wake, Spin, ReadSleep, KillReader
  <2>9. ASSUME NEW p \in Procs, WriteDone(p) \/ ReadEof(p)
        PROVE  PType'
    BY <2>3, <2>9 DEF WriteDone, ReadEof
  <2>10. ASSUME (\E k \in Keys : Press(k)) \/ (Handler /\ ~KeyChar) \/ UNCHANGED vars
         PROVE  PType'
    BY <2>1, <2>10 DEF Press, Handler, vars, Interrupt, HandlerXchg, HandlerDone, ProcDump, Iret, KeyDump,
       KeyKill, KeyErase, KeyDropped
  <2>11. QED
    BY <2>4, <2>5, <2>6, <2>7, <2>8, <2>9, <2>10 DEF Next, Step
<1>5. QED
  BY <1>1, <1>3, <1>4 DEF TypeOK, SpinType, RingType

-----------------------------------------------------------------------------
(* The theorems. *)

\* The invariant holds initially.
LEMMA InitIInv == Init => IInv
<1> SUFFICES ASSUME Init
             PROVE  IInv
  OBVIOUS
<1>1. /\ Procs = CPUs /\ INPUT_BUF \in Nat \ {0} /\ WRAP \in Nat /\ WRAP > INPUT_BUF
      /\ "nl" \in Chars /\ 0 \in CPUs /\ NOCPU \notin CPUs /\ "cons" \in Locks
  <2>1. NOCPU \notin Nat
    BY DEF NOCPU
  <2>2. QED
    BY <2>1, ConsoleAssumption DEF Chars
<1>2. \A p \in CPUs : cli[p].fl /\ cli[p].ncli = 0
  BY DEF Init, SpinInit
<1>3. TypeOK
  <2>1. SpinType
    <3>1. [fl |-> TRUE, ncli |-> 0, intena |-> FALSE] \in [fl : BOOLEAN, ncli : 0..3, intena : BOOLEAN]
      OBVIOUS
    <3>2. panicked \in BOOLEAN /\ cli \in [CPUs -> [fl : BOOLEAN, ncli : 0..3, intena : BOOLEAN]]
      BY <3>1 DEF Init, SpinInit
    <3>3. QED
      BY <3>2 DEF SpinType, Init, SpinInit
  <2>2. RingType
    BY <1>1 DEF RingType, Init
  <2>3. /\ keys \in Seq(Keys) /\ dump \in BOOLEAN
        /\ hpc \in {"none", "spin", "in", "procdump", "dumpspin", "dumping", "iret"}
    <3>1. keys = <<>> /\ dump = FALSE /\ hpc = "none"
      BY DEF Init
    <3>2. <<>> \in Seq(Keys)
      OBVIOUS
    <3>3. QED
      BY <3>1, <3>2
  <2>4. /\ pc \in [Procs -> {"user", "spin", "in", "asleep", "wake"}]
        /\ call \in [Procs -> {"none", "read", "write"}]
        /\ n \in [Procs -> Nat] /\ target \in [Procs -> Sizes \cup {0}]
        /\ \A p \in Procs : n[p] <= target[p]
    BY DEF Init
  <2>5. QED
    BY <2>1, <2>2, <2>3, <2>4 DEF TypeOK, SpinType, RingType
<1>4. CliInv
  BY <1>1, <1>2 DEF CliInv, ProcCli, HandlerCli, Init
<1>5. LockInv
  BY <1>1 DEF LockInv, Init, SpinInit
<1>6. CallsInv
  BY DEF CallsInv, Init
<1>7. RingInv
  <2>1. 0 \in 0..(WRAP - 1) /\ r = 0 /\ w = 0 /\ e = 0
    BY <1>1 DEF Init
  <2>2. Between(0, 0) = 0 /\ \A x \in 0..(WRAP - 1) : Between(0, x) \in 0..(WRAP - 1)
    BY <2>1, BetweenEnd, BetweenIs
  <2>3. QED
    BY <1>1, <2>1, <2>2 DEF RingInv
<1>8. QED
  BY <1>3, <1>4, <1>5, <1>6, <1>7 DEF IInv

\* The inductive invariant: the nesting of interrupts on every CPU, who holds
\* cons.lock, where the calls are, and the order of the ring's indices.
THEOREM Invariant == Spec => []IInv
<1>1. Init => IInv
  BY InitIInv
<1>2. IInv /\ [Next]_vars => IInv'
  BY TypeStep, LocksStep, CallsStep, RingStep DEF IInv
<1>3. QED
  BY <1>1, <1>2, PTL DEF Spec

\* Every variable has its type.
THEOREM TypeCorrect == Spec => []TypeOK
<1>1. IInv => TypeOK
  BY DEF IInv
<1>2. QED
  BY <1>1, Invariant, PTL

\* On any number of CPUs, no CPU waits in acquire() for itself: the keyboard
\* interrupt is masked whenever cons.lock is held or waited for on its CPU, and
\* pushcli() and popcli() turn interrupts back on.
THEOREM LocksMaskInterruptsHolds == Spec => []LocksMaskInterrupts
<1>1. IInv => LocksMaskInterrupts
  <2> SUFFICES ASSUME IInv
               PROVE  LocksMaskInterrupts
    OBVIOUS
  <2>1. Procs = CPUs /\ 0 \in Procs /\ ~Nested(TRUE).fl /\ ~Nested(FALSE).fl
    BY ConsoleAssumption DEF Nested
  <2>2. /\ CliInv /\ LockInv
        /\ pc \in [Procs -> {"user", "spin", "in", "asleep", "wake"}]
        /\ hpc \in {"none", "spin", "in", "procdump", "dumpspin", "dumping", "iret"}
    BY DEF IInv, TypeOK
  <2>3. ASSUME NEW p \in Procs, lkcpu["cons"] = p
        PROVE  ~cli[p].fl
    <3>1. CASE pc[p] = "in"
      BY <2>1, <2>2, <3>1 DEF CliInv, ProcCli, HandlerCli, Runs
    <3>2. CASE p = 0 /\ hpc \in {"in", "dumping"}
      BY <2>1, <2>2, <3>2 DEF CliInv, HandlerCli
    <3>3. QED
      BY <2>2, <2>3, <3>1, <3>2 DEF LockInv
  <2>4. ASSUME NEW p \in Procs, pc[p] = "spin"
        PROVE  ~cli[p].fl /\ (Runs(p) => lkcpu["cons"] # p)
    BY <2>1, <2>2, <2>4 DEF CliInv, ProcCli, HandlerCli, LockInv, Runs
  <2>5. ASSUME NEW p \in Procs, Runs(p), pc[p] \in {"user", "asleep", "wake"}
        PROVE  cli[p].fl /\ cli[p].ncli = 0
    BY <2>2, <2>5 DEF CliInv, ProcCli
  <2>6. hpc \in {"spin", "dumpspin"} => lkcpu["cons"] # 0
    BY <2>1, <2>2 DEF CliInv, HandlerCli, LockInv
  <2>7. QED
    BY <2>2, <2>3, <2>4, <2>5, <2>6 DEF LocksMaskInterrupts, LockInv
<1>2. QED
  BY <1>1, Invariant, PTL

-----------------------------------------------------------------------------
(* The console implements the terminal. *)

\* n characters of the ring b from index x on, without the width: what Segment
\* reads.
Part(b, x, k) == Entries(b, INPUT_BUF, x, k)

\* The sequences that Segment reads are entries of the ring.
LEMMA SegmentIs ==
    ASSUME NEW b, NEW x \in 0..(WRAP - 1), NEW y \in 0..(WRAP - 1)
    PROVE  [i \in 1..Between(x, y) |-> b[((x + i - 1) % WRAP) % INPUT_BUF]]
             = Part(b, x, Between(x, y))
<1> DEFINE m == Between(x, y)
<1>1. /\ WRAP \in Nat \ {0} /\ INPUT_BUF \in Nat \ {0} /\ WRAP % INPUT_BUF = 0
      /\ m \in Nat /\ x \in Nat
  <2>1. m \in 0..(WRAP - 1)
    BY BetweenIs
  <2>2. QED
    BY <2>1, ConsoleAssumption
<1> HIDE DEF m
<1>2. \A j, k \in Nat : ((j % WRAP) + k) % INPUT_BUF = (j + k) % INPUT_BUF
  BY <1>1, ModOfMod
<1>3. ASSUME NEW i \in 1..m
      PROVE  ((x + i - 1) % WRAP) % INPUT_BUF = (x + i - 1) % INPUT_BUF
  <2> DEFINE a == x + i - 1
             c == a % WRAP
  <2>1. a \in Nat
    BY <1>1
  <2> HIDE DEF a
  <2>2. c \in Nat
    BY <1>1, <2>1, DivMod
  <2>3. ((a % WRAP) + 0) % INPUT_BUF = (a + 0) % INPUT_BUF
    BY <1>2, <2>1
  <2>4. (c + 0) % INPUT_BUF = (a + 0) % INPUT_BUF
    BY <2>3
  <2> HIDE DEF c
  <2>5. c % INPUT_BUF = a % INPUT_BUF
    BY <2>1, <2>2, <2>4
  <2>6. QED
    BY <2>5 DEF a, c
<1>4. [i \in 1..m |-> b[((x + i - 1) % WRAP) % INPUT_BUF]] = [i \in 1..m |-> b[(x + i - 1) % INPUT_BUF]]
  BY <1>3
<1>5. QED
  BY <1>4 DEF m, Part, Entries

\* What has been entered and what is edited, as entries of the ring.
LEMMA EnteredIs ==
    ASSUME RingType
    PROVE  Entered = Part(buf, r, Between(r, w)) /\ Line = Part(buf, w, Between(w, e))
<1>1. r \in 0..(WRAP - 1) /\ w \in 0..(WRAP - 1) /\ e \in 0..(WRAP - 1)
  BY DEF RingType
<1>2. QED
  BY <1>1, SegmentIs DEF Entered, Line, Segment, At

\* The same of the next state.
LEMMA EnteredIsNext ==
    ASSUME RingType'
    PROVE  Entered' = Part(buf', r', Between(r', w')) /\ Line' = Part(buf', w', Between(w', e'))
<1>1. r' \in 0..(WRAP - 1) /\ w' \in 0..(WRAP - 1) /\ e' \in 0..(WRAP - 1)
  BY DEF RingType
<1>2. QED
  BY <1>1, SegmentIs DEF Entered, Line, Segment, At

\* The facts on the ring that the steps below use.
LEMMA RingFacts ==
    ASSUME TypeOK, RingInv
    PROVE  /\ RingType /\ r \in Nat /\ w \in Nat /\ e \in Nat
           /\ WRAP \in Nat \ {0} /\ INPUT_BUF \in Nat \ {0} /\ WRAP % INPUT_BUF = 0
           /\ buf \in [0..(INPUT_BUF - 1) -> Chars] /\ buf \in Rings(INPUT_BUF, Chars)
           /\ Between(r, w) \in Nat /\ Between(w, e) \in Nat /\ Between(r, e) \in Nat
           /\ Between(r, w) + Between(w, e) = Between(r, e)
           /\ w = Wrapped(r + Between(r, w), WRAP)
           /\ Len(Entered) = Between(r, w) /\ Len(Line) = Between(w, e)
           /\ Entered \in Seq(Chars) /\ Line \in Seq(Chars)
<1>1. /\ r \in 0..(WRAP - 1) /\ w \in 0..(WRAP - 1) /\ e \in 0..(WRAP - 1)
      /\ WRAP \in Nat \ {0} /\ INPUT_BUF \in Nat \ {0} /\ WRAP % INPUT_BUF = 0
      /\ buf \in [0..(INPUT_BUF - 1) -> Chars] /\ buf \in Rings(INPUT_BUF, Chars)
  BY ConsoleAssumption DEF TypeOK, Rings
<1>2. /\ Between(r, w) \in 0..(WRAP - 1) /\ Between(w, e) \in 0..(WRAP - 1)
      /\ Between(r, e) \in 0..(WRAP - 1)
  BY <1>1, BetweenIs
<1>3. Between(r, w) \in Nat /\ Between(w, e) \in Nat /\ Between(r, e) \in Nat
  BY <1>1, <1>2
<1>4. RingType
  BY <1>1 DEF RingType
<1>5. ASSUME NEW x \in Nat, NEW m \in Nat
      PROVE  Part(buf, x, m) \in Seq(Chars) /\ Len(Part(buf, x, m)) = m
  <2>1. \A k \in 1..m : (x + k - 1) \in Nat /\ (x + k - 1) % INPUT_BUF \in 0..(INPUT_BUF - 1)
    BY <1>1, DivMod
  <2>2. QED
    BY <1>1, <2>1 DEF Part, Entries
<1>6. r \in Nat /\ w \in Nat /\ e \in Nat
  BY <1>1
<1>7. w = Wrapped(r + Between(r, w), WRAP)
  BY <1>1, BetweenEnd
<1>8. Entered = Part(buf, r, Between(r, w)) /\ Line = Part(buf, w, Between(w, e))
  BY <1>4, EnteredIs
<1>9. QED
  BY <1>1, <1>3, <1>4, <1>5, <1>6, <1>7, <1>8 DEF RingInv

\* A character is stored behind the line, wherever the indices have wrapped.
LEMMA StorePlace ==
    ASSUME TypeOK, RingInv
    PROVE  /\ e % INPUT_BUF = (w + Between(w, e)) % INPUT_BUF
           /\ e % INPUT_BUF = (r + Between(r, e)) % INPUT_BUF
<1>1. /\ r \in 0..(WRAP - 1) /\ w \in 0..(WRAP - 1) /\ e \in 0..(WRAP - 1) /\ e \in Nat
      /\ WRAP \in Nat \ {0} /\ INPUT_BUF \in Nat \ {0} /\ WRAP % INPUT_BUF = 0
  BY RingFacts DEF RingType
<1>2. \A j, k \in Nat : ((j % WRAP) + k) % INPUT_BUF = (j + k) % INPUT_BUF
  BY <1>1, ModOfMod
<1>3. ASSUME NEW x \in 0..(WRAP - 1)
      PROVE  e % INPUT_BUF = (x + Between(x, e)) % INPUT_BUF
  <2> DEFINE a == x + Between(x, e)
  <2>1. a \in Nat
    BY <1>1, BetweenIs
  <2>2. a % WRAP = e
    BY <1>1, BetweenEnd DEF Wrapped
  <2> HIDE DEF a
  <2>3. ((a % WRAP) + 0) % INPUT_BUF = (a + 0) % INPUT_BUF
    BY <1>2, <2>1
  <2>4. (e + 0) % INPUT_BUF = (a + 0) % INPUT_BUF
    BY <2>2, <2>3
  <2>5. QED
    BY <1>1, <2>1, <2>4 DEF a
<1>4. QED
  BY <1>1, <1>3

\* Typing into the ring is typing into the line, and entering the line moves
\* all of it.
LEMMA CharTypes ==
    ASSUME TypeOK, RingInv, RingType', KeyChar
    PROVE  Term!Type(Stored(Head(keys)))
<1> DEFINE k == Stored(Head(keys))
           a == Between(r, w)
           b == Between(w, e)
           c == Between(r, e)
           j == e % INPUT_BUF
<1>1. /\ k \in Chars /\ buf' = Replaced(buf, j, k) /\ r' = r
      /\ Between(r, e') = c + 1 /\ Between(w, e') = b + 1 /\ c < INPUT_BUF
      /\ Enters(k) <=> k \in {"nl", "eof"} \/ c + 1 = INPUT_BUF
      /\ Enters(k) => w' = e'
      /\ ~Enters(k) => w' = w
      /\ e' \in 0..(WRAP - 1)
  BY TypeChar
<1>2. /\ r \in Nat /\ w \in Nat
      /\ WRAP \in Nat \ {0} /\ INPUT_BUF \in Nat \ {0} /\ WRAP % INPUT_BUF = 0
      /\ buf \in [0..(INPUT_BUF - 1) -> Chars] /\ buf \in Rings(INPUT_BUF, Chars)
      /\ a \in Nat /\ b \in Nat /\ c \in Nat /\ a + b = c
      /\ Len(Entered) = a /\ Len(Line) = b
      /\ Entered \in Seq(Chars) /\ Line \in Seq(Chars)
      /\ w = Wrapped(r + a, WRAP)
  BY RingFacts
<1>3. Entered = Part(buf, r, a) /\ Line = Part(buf, w, b)
  BY RingFacts, EnteredIs
<1>4. Entered' = Part(buf', r', Between(r', w')) /\ Line' = Part(buf', w', Between(w', e'))
  BY EnteredIsNext
<1>5. j = (w + b) % INPUT_BUF /\ j = (r + c) % INPUT_BUF
  BY StorePlace
<1>6. Between(r, w) = a
  OBVIOUS
<1>7. e' \in 0..(WRAP - 1) => Between(e', e') = 0
  BY BetweenEnd
<1> HIDE DEF k, a, b, c, j
<1>8. Part(Replaced(buf, j, k), w, b + 1) = Appended(Part(buf, w, b), k)
  <2>1. b < INPUT_BUF
    BY <1>1, <1>2
  <2>2. Entries(Replaced(buf, (w + b) % INPUT_BUF, k), INPUT_BUF, w, b + 1)
          = Appended(Entries(buf, INPUT_BUF, w, b), k)
    <3>1. INPUT_BUF \in Nat \ {0} /\ buf \in [0..(INPUT_BUF - 1) -> Chars] /\ k \in Chars
          /\ w \in Nat /\ b \in Nat
      BY <1>1, <1>2
    <3>2. QED
      BY <2>1, <3>1, EntriesAppend
  <2>3. QED
    BY <1>5, <2>2 DEF Part
<1>9. Part(Replaced(buf, j, k), r, c + 1) = Appended(Part(buf, r, c), k)
  <2>1. Entries(Replaced(buf, (r + c) % INPUT_BUF, k), INPUT_BUF, r, c + 1)
          = Appended(Entries(buf, INPUT_BUF, r, c), k)
    <3>1. INPUT_BUF \in Nat \ {0} /\ buf \in [0..(INPUT_BUF - 1) -> Chars] /\ k \in Chars
          /\ r \in Nat /\ c \in Nat /\ c < INPUT_BUF
      BY <1>1, <1>2
    <3>2. QED
      BY <3>1, EntriesAppend
  <2>2. QED
    BY <1>5, <2>1 DEF Part
<1>10. Part(Replaced(buf, j, k), r, a) = Part(buf, r, a)
  <2>1. a \in 0..c
    BY <1>2
  <2>2. QED
    <3>1. Entries(Replaced(buf, Place(r, c, INPUT_BUF), k), INPUT_BUF, r, a)
            = Entries(buf, INPUT_BUF, r, a)
      <4>1. INPUT_BUF \in Nat \ {0} /\ buf \in Rings(INPUT_BUF, Chars) /\ r \in Nat /\ c \in Nat /\ c < INPUT_BUF
        BY <1>1, <1>2
      <4>2. QED
        BY <2>1, <4>1, EntriesKept
    <3>2. QED
      BY <1>5, <3>1 DEF Part, Place
<1>11. Part(buf, r, c) = Joined(Part(buf, r, a), Part(buf, w, b))
  <2> DEFINE s == r + a
  <2>1. c = a + b /\ s = r + a /\ w = Wrapped(s, WRAP)
    BY <1>2
  <2> HIDE DEF s
  <2>2. Entries(buf, INPUT_BUF, r, c)
          = Joined(Entries(buf, INPUT_BUF, r, a), Entries(buf, INPUT_BUF, Wrapped(s, WRAP), b))
    BY <1>2, <2>1, EntriesJoined
  <2>3. QED
    BY <2>1, <2>2 DEF Part
<1>12. UNCHANGED Readers
  BY DEF KeyChar, locals, Readers
<1>13. Len(Entered) + Len(Line) < INPUT_BUF
  BY <1>1, <1>2
<1>14. Len(Append(Line, k)) = b + 1
  BY <1>1, <1>2, AppendProperties
<1>15. CASE Enters(k)
  <2>1. Entered' = Part(buf', r, c + 1) /\ Line' = Part(buf', e', 0)
    BY <1>1, <1>4, <1>7, <1>15
  <2>2. Entered' = Joined(Entered, Appended(Line, k))
    BY <1>1, <1>2, <1>3, <1>9, <1>11, <2>1, JoinedAppended
  <2>3. Line' = <<>>
    BY <2>1, EntriesLen DEF Part
  <2>4. k \in {"nl", "eof"} \/ Len(Entered) + Len(Append(Line, k)) = INPUT_BUF
    BY <1>1, <1>2, <1>14, <1>15
  <2>5. QED
    BY <1>12, <1>13, <2>2, <2>3, <2>4 DEF Term!Type, Joined, Appended, k
<1>16. CASE ~Enters(k)
  <2>1. Entered' = Part(buf', r, a) /\ Line' = Part(buf', w, b + 1)
    BY <1>1, <1>4, <1>6, <1>16
  <2>2. Entered' = Entered /\ Line' = Append(Line, k)
    BY <1>1, <1>3, <1>8, <1>10, <2>1 DEF Appended
  <2>3. ~(k \in {"nl", "eof"} \/ Len(Entered) + Len(Append(Line, k)) = INPUT_BUF)
    BY <1>1, <1>2, <1>14, <1>16
  <2>4. QED
    BY <1>12, <1>13, <2>2, <2>3 DEF Term!Type, k
<1>17. QED
  BY <1>15, <1>16

\* Erasing takes the last character of the line, and control-U all of them.
LEMMA EditLine ==
    ASSUME TypeOK, RingInv, RingType', KeyErase \/ KeyKill
    PROVE  [Term!Next]_(Term!vars)
<1> USE DEF locals
<1>1. /\ WRAP \in Nat \ {0} /\ INPUT_BUF \in Nat \ {0} /\ buf \in Rings(INPUT_BUF, Chars)
      /\ w \in Nat /\ Between(w, e) \in Nat /\ Len(Line) = Between(w, e)
      /\ w \in 0..(WRAP - 1) /\ e \in 0..(WRAP - 1)
  BY RingFacts DEF RingType
<1>2. Entered = Part(buf, r, Between(r, w)) /\ Line = Part(buf, w, Between(w, e))
  BY RingFacts, EnteredIs
<1>3. Entered' = Part(buf', r', Between(r', w')) /\ Line' = Part(buf', w', Between(w', e'))
  BY EnteredIsNext
<1>4. UNCHANGED <<buf, r, w>> /\ UNCHANGED Readers
  BY DEF KeyErase, KeyKill, Readers
<1>5. Entered' = Entered /\ Line' = Part(buf, w, Between(w, e'))
  BY <1>2, <1>3, <1>4
<1>6. CASE e' = w
  <2>1. Between(w, e') = 0
    BY <1>1, <1>6, BetweenEnd
  <2>2. Line' = <<>>
    BY <1>5, <2>1, EntriesLen DEF Part
  <2>3. QED
    BY <1>4, <1>5, <2>2 DEF Term!Next, Term!Kill
<1>7. CASE e = w /\ e' = e
  BY <1>2, <1>4, <1>5, <1>7 DEF Term!vars
<1>8. CASE e # w /\ e' = Dec(e)
  <2> DEFINE b == Between(w, e)
  <2>1. b \in Nat \ {0} /\ Between(w, e') = b - 1
    BY <1>1, <1>8, BetweenEnd, BetweenMoves
  <2> HIDE DEF b
  <2>2. Part(buf, w, b - 1) = WithoutLast(Part(buf, w, b))
    BY <1>1, <2>1, EntriesFront DEF Part
  <2>3. Line' = WithoutLast(Line)
    BY <1>2, <1>5, <2>1, <2>2 DEF b
  <2>4. Line # <<>>
    BY <1>1, <2>1 DEF b
  <2>5. Term!Erase
    BY <1>4, <1>5, <2>3, <2>4 DEF Term!Erase, Term!Front, WithoutLast
  <2>6. QED
    BY <2>5 DEF Term!Next
<1>9. QED
  BY <1>6, <1>7, <1>8, KilledToW DEF KeyErase, KeyKill

\* Advancing r takes the first of the characters entered.
LEMMA TakeFirst ==
    ASSUME TypeOK, RingInv, RingType', r # w, r' = Inc(r), UNCHANGED <<buf, w, e>>
    PROVE  /\ Entered # <<>> /\ Head(Entered) = At(r)
           /\ Entered' = Tail(Entered) /\ Line' = Line
<1> DEFINE a == Between(r, w)
<1>1. /\ WRAP \in Nat \ {0} /\ INPUT_BUF \in Nat \ {0} /\ WRAP % INPUT_BUF = 0
      /\ r \in Nat /\ a \in Nat
      /\ w \in 0..(WRAP - 1) /\ r \in 0..(WRAP - 1) /\ Len(Entered) = a
  BY RingFacts DEF RingType
<1>2. Entered = Part(buf, r, a) /\ Line = Part(buf, w, Between(w, e))
  BY RingFacts, EnteredIs
<1>3. Entered' = Part(buf', r', Between(r', w')) /\ Line' = Part(buf', w', Between(w', e'))
  BY EnteredIsNext
<1>4. a \in Nat \ {0} /\ Between(Inc(r), w) = a - 1
  BY <1>1, BetweenEnd, BetweenMoves
<1>5. Entered' = Part(buf, Inc(r), a - 1) /\ Line' = Line
  BY <1>2, <1>3, <1>4
<1> HIDE DEF a
<1>6. Entries(buf, INPUT_BUF, Succ(r, WRAP), a - 1) = Dropped(Entries(buf, INPUT_BUF, r, a))
  BY <1>1, <1>4, EntriesTail
<1>7. Entered' = Tail(Entered)
  BY <1>2, <1>5, <1>6 DEF Part, Succ, Inc, Dropped
<1>8. Entered # <<>> /\ Head(Entered) = At(r)
  <2>1. Entered[1] = buf[(r + 1 - 1) % INPUT_BUF]
    BY <1>2, <1>4 DEF Part, Entries
  <2>2. r + 1 - 1 = r
    BY <1>1
  <2>3. QED
    BY <1>1, <1>4, <2>1, <2>2 DEF At
<1>9. QED
  BY <1>5, <1>7, <1>8

\* An end of file is looked at and left.
LEMMA LookFirst ==
    ASSUME TypeOK, RingInv, r # w
    PROVE  Entered # <<>> /\ Head(Entered) = At(r)
<1> DEFINE a == Between(r, w)
<1>1. r \in Nat /\ a \in Nat /\ w \in 0..(WRAP - 1) /\ r \in 0..(WRAP - 1) /\ Len(Entered) = a
  BY RingFacts DEF RingType
<1>2. Entered = Part(buf, r, a)
  BY RingFacts, EnteredIs
<1>3. a \in Nat \ {0}
  BY <1>1, BetweenEnd
<1> HIDE DEF a
<1>4. Entered[1] = buf[(r + 1 - 1) % INPUT_BUF]
  BY <1>2, <1>3 DEF Part, Entries
<1>5. r + 1 - 1 = r
  BY <1>1
<1>6. QED
  BY <1>1, <1>3, <1>4, <1>5 DEF At

\* The mapped variables change only with the ring and the calls.
LEMMA TermKept ==
    /\ UNCHANGED input => Entered' = Entered /\ Line' = Line
    /\ UNCHANGED locals => Readers' = Readers
BY DEF input, locals, Entered, Line, Readers, Segment, At

\* Every step of the console is one of the terminal, or changes nothing of it.
LEMMA StepImplements ==
    ASSUME IInv, RingType', [Next]_vars
    PROVE  [Term!Next]_(Term!vars)
<1> USE DEF Term!vars
<1>1. /\ TypeOK /\ RingInv /\ CallsInv /\ call \in [Procs -> {"none", "read", "write"}]
      /\ n \in [Procs -> Nat] /\ target \in [Procs -> Sizes \cup {0}]
      /\ \A p \in Procs : n[p] \in Nat /\ target[p] \in Nat /\ n[p] <= target[p]
      /\ Sizes \subseteq Nat \ {0}
  <2>1. Sizes \subseteq Nat \ {0} /\ 0 \in Nat
    BY ConsoleAssumption
  <2>2. TypeOK /\ RingInv /\ CallsInv
    BY DEF IInv
  <2>3. \A p \in Procs : n[p] \in Nat /\ target[p] \in Nat /\ n[p] <= target[p]
    BY <2>1, <2>2 DEF TypeOK
  <2>4. QED
    BY <2>1, <2>2, <2>3 DEF TypeOK
<1>2. ASSUME UNCHANGED <<input, locals>>
      PROVE  UNCHANGED Term!vars
  BY <1>2, TermKept
<1>3. ASSUME Handler, ~KeyChar, ~KeyErase, ~KeyKill
      PROVE  UNCHANGED Term!vars
  BY <1>2, <1>3 DEF Handler, Interrupt, HandlerXchg, HandlerDone, ProcDump, Iret, KeyDump, KeyDropped
<1>4. CASE KeyErase \/ KeyKill
  BY <1>1, <1>4, EditLine
<1>5. CASE KeyChar
  <2>1. Stored(Head(keys)) \in Chars
    BY <1>1, <1>5, TypeChar
  <2>2. QED
    BY <1>1, <1>5, <2>1, CharTypes DEF Term!Next
<1>6. ASSUME NEW p \in Procs, NEW k \in Sizes, Read(p, k)
      PROVE  Term!Next
  <2>1. pc[p] = "user" /\ UNCHANGED input
    BY <1>6 DEF Read
  <2>2. Readers[p] = "idle"
    BY <1>1, <2>1 DEF CallsInv, Readers
  <2>3. Readers' = [Readers EXCEPT ![p] = "empty"]
    BY <1>1, <1>6 DEF Read, Readers
  <2>4. QED
    BY <2>1, <2>2, <2>3, TermKept DEF Term!Next, Term!Call
<1>7. ASSUME NEW p \in Procs, Write(p)
      PROVE  UNCHANGED Term!vars
  <2>1. UNCHANGED input /\ call[p] = "none" /\ call' = [call EXCEPT ![p] = "write"] /\ UNCHANGED <<n, target>>
    BY <1>1, <1>7 DEF Write, CallsInv
  <2>2. Readers' = Readers
    BY <1>1, <2>1 DEF Readers
  <2>3. QED
    BY <2>1, <2>2, TermKept
<1>8. ASSUME NEW p \in Procs, Wake(p) \/ Spin(p) \/ ReadSleep(p) \/ KillReader(p)
      PROVE  UNCHANGED Term!vars
  BY <1>2, <1>8 DEF Wake, Spin, ReadSleep, KillReader
<1>9. ASSUME NEW p \in Procs, Leave(p)
      PROVE  Readers' = [Readers EXCEPT ![p] = "idle"]
  BY <1>1, <1>9 DEF Leave, Readers
<1>10. ASSUME NEW p \in Procs, WriteDone(p)
       PROVE  UNCHANGED Term!vars
  <2>1. Leave(p) /\ call[p] = "write" /\ UNCHANGED input
    BY <1>10 DEF WriteDone
  <2>2. Readers[p] = "idle"
    BY <2>1 DEF Readers
  <2>3. Readers' = Readers
    BY <1>9, <2>1, <2>2 DEF Readers
  <2>4. QED
    BY <2>1, <2>3, TermKept
<1>11. ASSUME NEW p \in Procs, ReadChar(p)
       PROVE  Term!Next
  <2>1. /\ call[p] = "read" /\ r # w /\ At(r) # "eof" /\ r' = Inc(r) /\ UNCHANGED <<buf, w, e>>
    BY <1>11 DEF ReadChar, InRead
  <2>2. /\ Entered # <<>> /\ Head(Entered) # "eof"
        /\ Entered' = Tail(Entered) /\ Line' = Line
    BY <1>1, <2>1, TakeFirst
  <2>3. Readers[p] # "idle"
    BY <2>1 DEF Readers
  <2>4. \E s \in {"idle", "some"} : Readers' = [Readers EXCEPT ![p] = s]
    <3>1. CASE n' = [n EXCEPT ![p] = @ - 1] /\ UNCHANGED <<pc, call, target>>
      <4>1. n[p] \in Nat /\ n[p] > 0 /\ target[p] \in Nat /\ n[p] <= target[p]
        <5>1. n[p] > 0
          BY <1>1, <2>1 DEF CallsInv
        <5>2. QED
          BY <1>1, <5>1
      <4>2. n[p] - 1 # target[p]
        BY <4>1
      <4>3. Readers' = [Readers EXCEPT ![p] = "some"]
        BY <1>1, <2>1, <3>1, <4>2 DEF Readers
      <4>4. QED
        BY <4>3
    <3>2. QED
      BY <1>9, <1>11, <3>1 DEF ReadChar
  <2>5. Term!Get(p)
    BY <2>2, <2>3, <2>4 DEF Term!Get
  <2>6. QED
    BY <2>5 DEF Term!Next
<1>12. ASSUME NEW p \in Procs, ReadEof(p)
       PROVE  Term!Next
  <2>1. /\ call[p] = "read" /\ r # w /\ At(r) = "eof" /\ UNCHANGED <<buf, w, e>>
        /\ r' = IF EofSaved(p) THEN r ELSE Inc(r)
    BY <1>12 DEF ReadEof, InRead
  <2>2. Readers' = [Readers EXCEPT ![p] = "idle"]
    BY <1>9, <1>12 DEF ReadEof
  <2>3. CASE EofSaved(p)
    <3>1. Readers[p] = "some"
      <4>1. n[p] \in Nat /\ target[p] \in Nat /\ n[p] < target[p]
        BY <1>1, <2>3 DEF EofSaved
      <4>2. QED
        BY <2>1, <4>1 DEF Readers
    <3>2. UNCHANGED input
      BY <2>1, <2>3 DEF input
    <3>3. QED
      BY <1>1, <2>1, <2>2, <3>1, <3>2, LookFirst, TermKept DEF Term!Next, Term!Return
  <2>4. CASE ~EofSaved(p)
    <3>1. Readers[p] = "empty"
      <4>1. n[p] \in Nat /\ target[p] \in Nat /\ n[p] = target[p]
        BY <1>1, <2>4 DEF EofSaved
      <4>2. QED
        BY <2>1, <4>1 DEF Readers
    <3>2. /\ Entered # <<>> /\ Head(Entered) = "eof"
          /\ Entered' = Tail(Entered) /\ Line' = Line
      BY <1>1, <2>1, <2>4, TakeFirst
    <3>3. QED
      BY <2>2, <3>1, <3>2 DEF Term!Next, Term!Eof
  <2>5. QED
    BY <2>3, <2>4
<1>13. ASSUME NEW k, Press(k)
       PROVE  UNCHANGED Term!vars
  BY <1>2, <1>13 DEF Press
<1>14. CASE UNCHANGED vars
  BY <1>2, <1>14 DEF vars, input, locals
<1>15. QED
  BY <1>3, <1>4, <1>5, <1>6, <1>7, <1>8, <1>10, <1>11, <1>12, <1>13, <1>14 DEF Next, Step

\* The ring of any size, with counters of any width that is a multiple of it,
\* implements the terminal: what is entered is read in order, each character
\* once, however the keyboard's handler and the readers interleave.
THEOREM ImplementsTerminalHolds == Spec => ImplementsTerminal
<1>1. Init => Term!Init
  <2> SUFFICES ASSUME Init
               PROVE  Term!Init
    OBVIOUS
  <2>1. TypeOK /\ RingInv
    BY InitIInv DEF IInv
  <2>2. r = 0 /\ w = 0 /\ e = 0 /\ 0 \in 0..(WRAP - 1)
    BY ConsoleAssumption DEF Init
  <2>3. Between(r, w) = 0 /\ Between(w, e) = 0
    BY <2>2, BetweenEnd
  <2>4. Entered = <<>> /\ Line = <<>>
    <3>1. Entered = Part(buf, r, 0) /\ Line = Part(buf, w, 0)
      BY <2>1, <2>3, RingFacts, EnteredIs
    <3>2. QED
      BY <3>1, EntriesLen DEF Part
  <2>5. Readers = [p \in Procs |-> "idle"]
    BY DEF Init, Readers
  <2>6. QED
    BY <2>4, <2>5 DEF Term!Init
<1>2. IInv /\ IInv' /\ [Next]_vars => [Term!Next]_(Term!vars)
  <2> SUFFICES ASSUME IInv, [Next]_vars
               PROVE  [Term!Next]_(Term!vars)
    OBVIOUS
  <2>1. RingType'
    BY RingStep DEF IInv
  <2>2. QED
    BY <2>1, StepImplements
<1>3. QED
  BY <1>1, <1>2, Invariant, PTL DEF Spec, ImplementsTerminal, Term!Spec


=============================================================================
