----------------------------- MODULE LogProofs -----------------------------
(***************************************************************************)
(* Proofs about Log, for any numbers of processes, blocks, calls and       *)
(* crashes and any size of the log.                                        *)
(***************************************************************************)
EXTENDS Log, FiniteSetTheorems, FunctionTheorems, SequenceTheorems, TLAPS

-----------------------------------------------------------------------------
(* The inductive invariant. *)

\* The blocks a header names, each of them once.
Logged(s) == {s[j] : j \in 1..Len(s)}
Once(s) == \A j, k \in 1..Len(s) : s[j] = s[k] => j = k

\* What a call has written is in the header and within its reservation.
CallsInv ==
    \A p \in Procs :
      /\ pc[p] \in {"begin", "asleep"} => wrote[p] = {}
      /\ pc[p] \in {"op", "log_write"} =>
           wrote[p] \subseteq Logged(lh) /\ Cardinality(wrote[p]) <= OPWRITES
      /\ pc[p] = "log_write" =>
           /\ blk[p] \in Blocks
           /\ blk[p] \in wrote[p] \/ Cardinality(wrote[p]) < OPWRITES

\* Calls write only while nobody commits or recovers.
StageInv ==
    /\ committing => stage \in {"write_log", "write_head", "install", "erase", "done"}
    /\ ~committing => stage \in {"none", "read_head", "install", "erase"}
    /\ Active # {} => stage = "none"

\* Most blocks the header ever names: the last call under way fills what it may
\* of its reservation, and all else of the log is taken.
Room == LOGSIZE - MAXOPBLOCKS + OPWRITES

\* The header on disk is empty outside install_trans(), and then it is log.lh.
HeaderInv ==
    /\ Once(lh) /\ Once(dhead) /\ Len(lh) <= Room /\ Len(dhead) <= Room
    /\ stage \in {"none", "write_log", "write_head", "done"} => dhead = <<>>
    /\ stage \in {"install", "erase"} => dhead = lh
    /\ stage = "done" => lh = <<>>
    /\ stage \in {"write_log", "write_head", "install"} => tail \in 1..Len(lh)
    /\ stage = "write_head" => tail = 1

\* A clean buffer is what its block is on disk; the logged blocks are dirty
\* until they are installed.
CacheInv ==
    /\ \A b \in Blocks : b \notin dirty => buf[b] = home[b]
    /\ stage \in {"none", "write_log", "write_head"} => dirty = Logged(lh)
    /\ stage = "install" => \A b \in dirty : \E j \in tail..Len(lh) : b = lh[j]
    /\ stage \in {"erase", "done", "read_head"} => dirty = {}

\* How far the copies to the log and to the home blocks have come.
CopiesInv ==
    /\ stage = "write_log" => \A j \in 1..(tail - 1) : dlog[j] = buf[lh[j]]
    /\ stage = "write_head" \/ (stage = "install" /\ committing) =>
         \A j \in 1..Len(lh) : dlog[j] = buf[lh[j]]
    /\ stage = "install" => \A j \in 1..(tail - 1) : home[lh[j]] = dlog[j]
    /\ stage = "erase" => \A j \in 1..Len(lh) : home[lh[j]] = dlog[j]

IInv == /\ TypeOK /\ CallsInv /\ StageInv /\ SpaceReserved
        /\ HeaderInv /\ CacheInv /\ CopiesInv

\* The header leaves room for one more block, in memory and on disk.
LEMMA RoomFacts == Room \in Nat /\ Room < LOGSIZE /\ Room < NLOG - 1
BY SizesAssumption, RoomAssumption DEF Room

-----------------------------------------------------------------------------
(* Counting what the calls have written. *)

\* The blocks that the processes of A have written, according to w.
Pairs(A, w) == {x \in A \X Blocks : x[2] \in w[x[1]]}

\* A set of at most m elements has its elements numbered up to m.
LEMMA Numbered ==
    ASSUME NEW S, IsFiniteSet(S), NEW m \in Nat, Cardinality(S) <= m
    PROVE  \E f \in [S -> 1..m] : \A x, y \in S : f[x] = f[y] => x = y
<1>1. ExistsBijection(1..Cardinality(S), S) /\ Cardinality(S) \in Nat
  BY FS_CardinalityType
<1>2. ExistsBijection(S, 1..Cardinality(S))
  BY <1>1, Fun_ExistsBijSymmetric
<1>3. PICK f \in [S -> 1..Cardinality(S)] : \A x, y \in S : f[x] = f[y] => x = y
  BY <1>2 DEF ExistsBijection, Bijection, Injection, IsInjective
<1>4. f \in [S -> 1..m]
  BY <1>1, <1>3
<1>5. QED
  BY <1>3, <1>4

\* If each of the processes has written at most m blocks, they have written at
\* most m times as many as they are.
LEMMA PairsBound ==
    ASSUME NEW A, IsFiniteSet(A), NEW m \in Nat, NEW w,
           \A p \in A : w[p] \subseteq Blocks /\ Cardinality(w[p]) <= m
    PROVE  /\ IsFiniteSet(Pairs(A, w)) /\ Cardinality(Pairs(A, w)) \in Nat
           /\ Cardinality(Pairs(A, w)) <= Cardinality(A) * m
<1> DEFINE num(p) == CHOOSE f \in [w[p] -> 1..m] : \A x, y \in w[p] : f[x] = f[y] => x = y
           P == Pairs(A, w)
           T == A \X (1..m)
           g == [x \in P |-> <<x[1], num(x[1])[x[2]]>>]
<1>1. \A p \in A : /\ num(p) \in [w[p] -> 1..m]
                   /\ \A x, y \in w[p] : num(p)[x] = num(p)[y] => x = y
  <2> TAKE p \in A
  <2>1. IsFiniteSet(w[p])
    BY SetsAssumption, FS_Subset
  <2>2. \E f \in [w[p] -> 1..m] : \A x, y \in w[p] : f[x] = f[y] => x = y
    BY <2>1, Numbered
  <2>3. QED
    BY <2>2
<1> HIDE DEF num
<1>2. \A x \in P : x[1] \in A /\ x[2] \in w[x[1]] /\ x = <<x[1], x[2]>>
  BY DEF Pairs
<1>3. g \in [P -> T]
  <2> SUFFICES ASSUME NEW x \in P PROVE <<x[1], num(x[1])[x[2]]>> \in T
    OBVIOUS
  <2>1. num(x[1])[x[2]] \in 1..m
    BY <1>1, <1>2
  <2>2. QED
    BY <1>2, <2>1
<1>4. ASSUME NEW x \in P, NEW y \in P, g[x] = g[y]
      PROVE  x = y
  <2>1. x[1] = y[1] /\ num(x[1])[x[2]] = num(y[1])[y[2]]
    BY <1>4
  <2>2. x[2] = y[2]
    BY <1>1, <1>2, <2>1
  <2>3. QED
    BY <1>2, <2>1, <2>2
<1>5. g \in Injection(P, T)
  BY <1>3, <1>4, Fun_IsInj
<1>6. IsFiniteSet(1..m) /\ Cardinality(1..m) = m
  BY FS_Interval
<1>7. IsFiniteSet(T) /\ Cardinality(T) = Cardinality(A) * m
  BY <1>6, FS_Product
<1> HIDE DEF T, g
<1>8. IsFiniteSet(P) /\ Cardinality(P) <= Cardinality(T)
  BY <1>5, <1>7, FS_Injection
<1>9. QED
  BY <1>7, <1>8, FS_CardinalityType

\* A process that ends takes at most m of the written blocks with it.
LEMMA PairsRemove ==
    ASSUME NEW A, IsFiniteSet(A), NEW m \in Nat, NEW w, NEW q \in A,
           \A p \in A : w[p] \subseteq Blocks /\ Cardinality(w[p]) <= m
    PROVE  Cardinality(Pairs(A, w)) <= Cardinality(Pairs(A \ {q}, w)) + m
<1>1. IsFiniteSet(A \ {q}) /\ IsFiniteSet({q}) /\ Cardinality({q}) = 1
  BY FS_RemoveElement, FS_Singleton
<1>2. IsFiniteSet(Pairs(A \ {q}, w)) /\ Cardinality(Pairs(A \ {q}, w)) \in Nat
  BY <1>1, PairsBound
<1>3. IsFiniteSet(Pairs({q}, w)) /\ Cardinality(Pairs({q}, w)) \in Nat
      /\ Cardinality(Pairs({q}, w)) <= Cardinality({q}) * m
  BY <1>1, PairsBound
<1>4. Pairs(A, w) = Pairs(A \ {q}, w) \cup Pairs({q}, w)
  BY DEF Pairs
<1> DEFINE R == Pairs(A \ {q}, w)
           Q == Pairs({q}, w)
<1> HIDE DEF R, Q
<1>5. /\ IsFiniteSet(R) /\ IsFiniteSet(Q)
      /\ Cardinality(R) \in Nat /\ Cardinality(Q) \in Nat /\ Cardinality(Q) <= m
  BY <1>1, <1>2, <1>3 DEF R, Q
<1>6. Cardinality(R \cup Q) = Cardinality(R) + Cardinality(Q) - Cardinality(R \cap Q)
  BY <1>5, FS_Union
<1>7. Cardinality(R \cap Q) \in Nat
  BY <1>5, FS_Intersection, FS_CardinalityType
<1>8. QED
  BY <1>4, <1>5, <1>6, <1>7 DEF R, Q

\* A write adds its block, if the process has not written it before.
LEMMA PairsAdd ==
    ASSUME NEW A, IsFiniteSet(A), NEW m \in Nat, NEW w, NEW w2, NEW q \in A, NEW b \in Blocks,
           \A p \in A : w[p] \subseteq Blocks /\ Cardinality(w[p]) <= m,
           w2[q] = w[q] \cup {b}, \A p \in A \ {q} : w2[p] = w[p]
    PROVE  Cardinality(Pairs(A, w2)) =
             IF b \in w[q] THEN Cardinality(Pairs(A, w)) ELSE Cardinality(Pairs(A, w)) + 1
<1> DEFINE P == Pairs(A, w)
<1>1. IsFiniteSet(P)
  BY PairsBound
<1>2. Pairs(A, w2) = P \cup {<<q, b>>} /\ (<<q, b>> \in P <=> b \in w[q])
  BY DEF Pairs
<1> HIDE DEF P
<1>3. QED
  BY <1>1, <1>2, FS_AddElement DEF P

-----------------------------------------------------------------------------
(* Every step preserves every part of the invariant. *)

\* log.outstanding counts a call that is under way, and none is during a commit.
LEMMA Counted ==
    ASSUME Reservation, NEW p \in Active
    PROVE  outstanding \in Nat \ {0} /\ ~committing
<1>1. IsFiniteSet(Active)
  BY SetsAssumption, FS_Subset DEF Active
<1>2. Cardinality(Active) \in Nat /\ Cardinality(Active) # 0
  BY <1>1, FS_CardinalityType, FS_EmptySet
<1>3. QED
  BY <1>2 DEF Reservation

\* Every step keeps the types of the variables.
LEMMA TypeStep ==
    ASSUME TypeOK, CallsInv, Reservation, HeaderInv, [Next]_vars
    PROVE  TypeOK'
<1> USE DEF TypeOK, disk, memory, header, calls
<1>1. CASE UNCHANGED vars
  BY <1>1 DEF vars
<1>2. ASSUME NEW p \in Procs, Call(p)
      PROVE  TypeOK'
  <2>1. ops + 1 \in Vals /\ ops' \in 0..MaxOps
    BY <1>2, SizesAssumption DEF Call, Vals
  <2>2. QED
    BY <1>2, <2>1 DEF Call
<1>3. ASSUME NEW p \in Procs, BeginOp(p)
      PROVE  TypeOK'
  <2>1. pc' \in [Procs -> {"idle", "begin", "asleep", "op", "log_write", "commit"}]
        /\ outstanding' \in Nat
    BY <1>3 DEF BeginOp
  <2>2. QED
    BY <1>3, <2>1 DEF BeginOp
<1>4. ASSUME NEW p \in Procs, Kill(p)
      PROVE  TypeOK'
  BY <1>4 DEF Kill
<1>5. ASSUME NEW p \in Procs, NEW b \in Blocks, LogWriteTest(p, b)
      PROVE  TypeOK'
  BY <1>5 DEF LogWriteTest
<1>6. ASSUME NEW p \in Procs, LogWrite(p)
      PROVE  TypeOK'
  <2>1. blk[p] \in Blocks /\ op[p] \in Vals
    BY <1>6 DEF LogWrite, CallsInv
  <2>2. lh' \in Seq(Blocks)
    BY <1>6, <2>1 DEF LogWrite
  <2>3. QED
    BY <1>6, <2>1, <2>2 DEF LogWrite
<1>7. ASSUME NEW p \in Procs, EndOp(p)
      PROVE  TypeOK'
  <2>1. outstanding - 1 \in Nat
    BY <1>7, Counted DEF EndOp, Active
  <2>2. pc' \in [Procs -> {"idle", "begin", "asleep", "op", "log_write", "commit"}]
    BY <1>7 DEF EndOp, Woken
  <2>3. stage' \in Stages /\ tail' \in Nat /\ committing' \in BOOLEAN
    BY <1>7 DEF EndOp, Stages
  <2>4. QED
    BY <1>7, <2>1, <2>2, <2>3 DEF EndOp
<1>8. ASSUME NEW p \in Procs, CommitDone(p)
      PROVE  TypeOK'
  BY <1>8 DEF CommitDone, Woken, Stages
<1>9. CASE WriteLog
  <2>1. tail \in 1..Len(lh) /\ lh[tail] \in Blocks
    BY <1>9 DEF WriteLog, HeaderInv
  <2>2. dlog' \in [1..(NLOG - 1) -> Vals]
    BY <1>9, <2>1 DEF WriteLog
  <2>3. stage' \in Stages /\ tail' \in Nat
    BY <1>9 DEF WriteLog, Stages
  <2>4. QED
    BY <1>9, <2>2, <2>3 DEF WriteLog
<1>10. CASE WriteHead
  BY <1>10 DEF WriteHead, Stages
<1>11. CASE Install
  <2>1. tail \in 1..(NLOG - 1) /\ dlog[tail] \in Vals
    BY <1>11, SizesAssumption, RoomFacts DEF Install, HeaderInv
  <2>2. home' \in [Blocks -> Vals] /\ buf' \in [Blocks -> Vals]
    BY <1>11, <2>1 DEF Install
  <2>3. stage' \in Stages /\ tail' \in Nat
    BY <1>11 DEF Install, Stages
  <2>4. QED
    BY <1>11, <2>2, <2>3 DEF Install
<1>12. CASE Erase
  BY <1>12 DEF Erase, Stages
<1>13. CASE ReadHead
  BY <1>13 DEF ReadHead, Stages
<1>14. CASE Crash
  <2>1. crashes' \in 0..MaxCrashes
    BY <1>14, SizesAssumption DEF Crash
  <2>2. pc' \in [Procs -> {"idle", "begin", "asleep", "op", "log_write", "commit"}]
        /\ wrote' \in [Procs -> SUBSET Blocks] /\ blk' \in [Procs -> Blocks \cup {0}]
    BY <1>14 DEF Crash
  <2>3. stage' \in Stages /\ lh' \in Seq(Blocks) /\ tail' \in Nat /\ outstanding' \in Nat
    BY <1>14 DEF Crash, Stages
  <2>4. QED
    BY <1>14, <2>1, <2>2, <2>3 DEF Crash
<1>15. ASSUME NEW b \in Blocks, Evict(b)
       PROVE  TypeOK'
  BY <1>15 DEF Evict
<1>16. QED
  BY <1>1, <1>2, <1>3, <1>4, <1>5, <1>6, <1>7, <1>8, <1>9, <1>10, <1>11, <1>12, <1>13, <1>14,
     <1>15 DEF Next, Committer

\* How each step changes the set of the calls under way.
LEMMA ActiveStep ==
    ASSUME TypeOK, NEW p \in Procs
    PROVE  /\ Call(p) \/ Kill(p) \/ LogWrite(p) \/ CommitDone(p) => Active' = Active
           /\ (\E b \in Blocks : LogWriteTest(p, b)) => Active' = Active
           /\ BeginOp(p) /\ MustWait => Active' = Active
           /\ BeginOp(p) /\ ~MustWait => p \notin Active /\ Active' = Active \cup {p}
           /\ EndOp(p) => p \in Active /\ Active' = Active \ {p}
           /\ LogWrite(p) => p \in Active
           /\ UNCHANGED pc => Active' = Active
           /\ Crash => Active' = {}
<1> USE DEF TypeOK, Active
<1>1. Call(p) \/ Kill(p) => Active' = Active
  BY DEF Call, Kill
<1>2. LogWrite(p) => p \in Active /\ Active' = Active
  BY DEF LogWrite
<1>3. CommitDone(p) => Active' = Active
  BY DEF CommitDone, Woken
<1>4. (\E b \in Blocks : LogWriteTest(p, b)) => Active' = Active
  BY DEF LogWriteTest
<1>5. BeginOp(p) /\ MustWait => Active' = Active
  BY DEF BeginOp
<1>6. BeginOp(p) /\ ~MustWait => p \notin Active /\ Active' = Active \cup {p}
  BY DEF BeginOp
<1>7. EndOp(p) => p \in Active /\ Active' = Active \ {p}
  BY DEF EndOp, Woken
<1>8. Crash => Active' = {}
  BY DEF Crash
<1>9. QED
  BY <1>1, <1>2, <1>3, <1>4, <1>5, <1>6, <1>7, <1>8

\* What log_write() does to the header: the block is in it afterwards, once.
LEMMA Absorbs ==
    ASSUME TypeOK, NEW p \in Procs, LogWrite(p), blk[p] \in Blocks
    PROVE  /\ Logged(lh') = Logged(lh) \cup {blk[p]}
           /\ Once(lh) => Once(lh')
           /\ Len(lh') = IF blk[p] \in Logged(lh) THEN Len(lh) ELSE Len(lh) + 1
<1>1. CASE blk[p] \in Logged(lh)
  BY <1>1 DEF LogWrite, Logged
<1>2. CASE blk[p] \notin Logged(lh)
  <2>1. lh' = Append(lh, blk[p]) /\ lh \in Seq(Blocks)
    BY <1>2 DEF LogWrite, Logged, TypeOK
  <2>2. /\ Len(lh') = Len(lh) + 1 /\ lh'[Len(lh) + 1] = blk[p]
        /\ \A j \in 1..Len(lh) : lh'[j] = lh[j]
    BY <2>1
  <2>3. Len(lh) \in Nat
    BY <2>1
  <2>4. Logged(lh') = Logged(lh) \cup {blk[p]}
    BY <2>2, <2>3 DEF Logged
  <2>5. Once(lh) => Once(lh')
    BY <1>2, <2>2, <2>3 DEF Once, Logged
  <2>6. QED
    BY <1>2, <2>2, <2>4, <2>5
<1>3. QED
  BY <1>1, <1>2

\* Every step keeps the calls within their reservations.
LEMMA CallsStep ==
    ASSUME TypeOK, CallsInv, StageInv, [Next]_vars
    PROVE  CallsInv'
<1> USE DEF TypeOK, CallsInv, calls
<1>1. CASE UNCHANGED vars
  BY <1>1 DEF vars
<1>2. ASSUME NEW p \in Procs, Call(p)
      PROVE  CallsInv'
  BY <1>2 DEF Call
<1>3. ASSUME NEW p \in Procs, BeginOp(p)
      PROVE  CallsInv'
  <2>1. Cardinality({}) <= OPWRITES
    BY SizesAssumption, FS_EmptySet
  <2>2. QED
    BY <1>3, <2>1 DEF BeginOp
<1>4. ASSUME NEW p \in Procs, Kill(p)
      PROVE  CallsInv'
  BY <1>4 DEF Kill
<1>5. ASSUME NEW p \in Procs, NEW b \in Blocks, LogWriteTest(p, b)
      PROVE  CallsInv'
  BY <1>5 DEF LogWriteTest
<1>6. ASSUME NEW p \in Procs, LogWrite(p)
      PROVE  CallsInv'
  <2>1. blk[p] \in Blocks /\ Logged(lh)' = Logged(lh) \cup {blk[p]}
    BY <1>6, Absorbs DEF LogWrite, Logged
  <2>2. Cardinality(wrote[p] \cup {blk[p]}) <= OPWRITES
    <3>1. IsFiniteSet(wrote[p]) /\ Cardinality(wrote[p]) \in Nat
      BY SetsAssumption, FS_Subset, FS_CardinalityType
    <3>2. blk[p] \in wrote[p] \/ Cardinality(wrote[p]) < OPWRITES
      BY <1>6 DEF LogWrite
    <3>3. Cardinality(wrote[p]) <= OPWRITES
      BY <1>6 DEF LogWrite
    <3>4. Cardinality(wrote[p] \cup {blk[p]}) =
            IF blk[p] \in wrote[p] THEN Cardinality(wrote[p]) ELSE Cardinality(wrote[p]) + 1
      BY <3>1, FS_AddElement
    <3>5. OPWRITES \in Nat
      BY SizesAssumption
    <3>6. QED
      BY <3>1, <3>2, <3>3, <3>4, <3>5
  <2>3. wrote'[p] = wrote[p] \cup {blk[p]} /\ pc'[p] = "op"
        /\ \A q \in Procs \ {p} : wrote'[q] = wrote[q] /\ pc'[q] = pc[q] /\ blk'[q] = blk[q]
    BY <1>6 DEF LogWrite
  <2>4. QED
    BY <1>6, <2>1, <2>2, <2>3 DEF LogWrite
<1>7. ASSUME NEW p \in Procs, EndOp(p) \/ CommitDone(p)
      PROVE  CallsInv'
  <2>1. UNCHANGED <<wrote, blk, lh>>
    BY <1>7 DEF EndOp, CommitDone
  <2>2. \A q \in Procs : \/ pc'[q] = pc[q] \/ pc'[q] \in {"idle", "commit"}
                         \/ pc[q] = "asleep" /\ pc'[q] = "begin"
    BY <1>7 DEF EndOp, CommitDone, Woken
  <2>3. QED
    BY <2>1, <2>2
<1>8. CASE WriteLog \/ WriteHead \/ Install \/ Erase \/ ReadHead
  <2>1. Active = {} /\ UNCHANGED <<pc, wrote, blk>>
    BY <1>8 DEF StageInv, WriteLog, WriteHead, Install, Erase, ReadHead
  <2>2. QED
    BY <2>1 DEF Active
<1>9. CASE Crash
  BY <1>9 DEF Crash
<1>10. ASSUME NEW b \in Blocks, Evict(b)
       PROVE  CallsInv'
  BY <1>10 DEF Evict
<1>11. QED
  BY <1>1, <1>2, <1>3, <1>4, <1>5, <1>6, <1>7, <1>8, <1>9, <1>10 DEF Next, Committer

\* Every step keeps the calls and the commits apart.
LEMMA StageStep ==
    ASSUME TypeOK, StageInv, Reservation, [Next]_vars
    PROVE  StageInv'
<1> USE DEF StageInv
<1>1. CASE UNCHANGED vars
  BY <1>1 DEF vars, Active
<1>2. ASSUME NEW p \in Procs, Call(p) \/ Kill(p) \/ LogWrite(p) \/ \E b \in Blocks : LogWriteTest(p, b)
      PROVE  StageInv'
  <2>1. Active' = Active
    BY <1>2, ActiveStep
  <2>2. UNCHANGED <<stage, committing>>
    BY <1>2 DEF Call, Kill, LogWrite, LogWriteTest, header
  <2>3. QED
    BY <2>1, <2>2
<1>3. ASSUME NEW p \in Procs, BeginOp(p)
      PROVE  StageInv'
  <2>1. UNCHANGED <<stage, committing>> /\ Up
    BY <1>3 DEF BeginOp
  <2>2. CASE MustWait
    BY <1>3, <2>1, <2>2, ActiveStep
  <2>3. CASE ~MustWait
    <3>1. stage = "none"
      BY <2>1, <2>3 DEF MustWait, Up
    <3>2. QED
      BY <2>1, <3>1
  <2>4. QED
    BY <2>2, <2>3
<1>4. ASSUME NEW p \in Procs, EndOp(p)
      PROVE  StageInv'
  <2>1. p \in Active /\ Active' = Active \ {p} /\ stage = "none"
    BY <1>4, ActiveStep
  <2>2. ~committing /\ outstanding = Cardinality(Active)
    BY <2>1 DEF Reservation
  <2>3. CASE outstanding = 1
    <3>1. \E q : Active = {q}
      BY <2>2, <2>3, SetsAssumption, FS_Subset, FS_Singleton DEF Active
    <3>2. Active' = {}
      BY <2>1, <3>1
    <3>3. committing' = TRUE /\ stage' \in {"done", "write_log"}
      BY <1>4, <2>3 DEF EndOp
    <3>4. QED
      BY <3>2, <3>3
  <2>4. CASE outstanding # 1
    BY <1>4, <2>1, <2>2, <2>4 DEF EndOp
  <2>5. QED
    BY <2>3, <2>4
<1>5. ASSUME NEW p \in Procs, CommitDone(p)
      PROVE  StageInv'
  BY <1>5, ActiveStep DEF CommitDone
<1>6. CASE WriteLog \/ WriteHead \/ Install \/ Erase \/ ReadHead
  <2>1. Active = {} /\ UNCHANGED <<pc, committing>>
    BY <1>6 DEF WriteLog, WriteHead, Install, Erase, ReadHead, header
  <2>2. Active' = {}
    BY <2>1 DEF Active
  <2>3. QED
    BY <1>6, <2>1, <2>2 DEF WriteLog, WriteHead, Install, Erase, ReadHead, TypeOK
<1>7. CASE Crash
  <2>1. Active' = {}
    BY <1>7 DEF Crash, Active
  <2>2. QED
    BY <1>7, <2>1 DEF Crash
<1>8. ASSUME NEW b \in Blocks, Evict(b)
      PROVE  StageInv'
  BY <1>8 DEF Evict, header, Active
<1>9. QED
  BY <1>1, <1>2, <1>3, <1>4, <1>5, <1>6, <1>7, <1>8 DEF Next, Committer

\* What the calls under way have written, and that it is at most what is
\* reserved for them.
LEMMA WrittenBound ==
    ASSUME TypeOK, CallsInv
    PROVE  /\ Written = Pairs(Active, wrote)
           /\ IsFiniteSet(Active) /\ Cardinality(Active) \in Nat
           /\ \A p \in Active : wrote[p] \subseteq Blocks /\ Cardinality(wrote[p]) <= OPWRITES
           /\ Cardinality(Written) \in Nat
           /\ Cardinality(Written) <= Cardinality(Active) * OPWRITES
<1>1. Written = Pairs(Active, wrote)
  BY DEF Written, Pairs
<1>2. IsFiniteSet(Active) /\ Cardinality(Active) \in Nat
  BY SetsAssumption, FS_Subset, FS_CardinalityType DEF Active
<1>3. \A p \in Active : wrote[p] \subseteq Blocks /\ Cardinality(wrote[p]) <= OPWRITES
  BY DEF Active, CallsInv, TypeOK
<1>4. OPWRITES \in Nat
  BY SizesAssumption
<1>5. QED
  BY <1>1, <1>2, <1>3, <1>4, PairsBound

\* The reservation keeps the header short while a call is under way.
LEMMA Fits ==
    ASSUME TypeOK, CallsInv, Reservation, Active # {}
    PROVE  Len(lh) <= Room
<1> DEFINE m == MAXOPBLOCKS
           k == OPWRITES
           n == outstanding - 1
           W == Cardinality(Written)
<1>1. /\ m \in Nat /\ k \in Nat /\ k <= m /\ LOGSIZE \in Nat /\ Len(lh) \in Nat
      /\ n \in Nat /\ outstanding = n + 1
  BY SizesAssumption, RoomAssumption, Counted DEF TypeOK
<1>2. W \in Nat /\ W <= (n + 1) * k /\ Len(lh) + (n + 1) * m <= LOGSIZE + W
  BY <1>1, WrittenBound DEF Reservation
<1>3. /\ n * k \in Nat /\ n * m \in Nat /\ n * k <= n * m
      /\ (n + 1) * k = n * k + k /\ (n + 1) * m = n * m + m
  <2>1. \A a, b, c \in Nat : /\ a * b \in Nat /\ (a + 1) * b = a * b + b
                              /\ b <= c => a * b <= a * c
    OBVIOUS
  <2> HIDE DEF m, k, n
  <2>2. QED
    BY <1>1, <2>1
<1> DEFINE a == n * k
           b == n * m
<1>4. /\ a \in Nat /\ b \in Nat /\ a <= b /\ W <= a + k
      /\ Len(lh) + (b + m) <= LOGSIZE + W
  BY <1>2, <1>3
<1> HIDE DEF a, b, n, W
<1>5. QED
  BY <1>1, <1>2, <1>4 DEF Room

\* Every step keeps room in the log for what the calls may still write.
LEMMA SpaceStep ==
    ASSUME TypeOK, CallsInv, StageInv, Reservation, HeaderInv, [Next]_vars
    PROVE  Reservation'
<1> DEFINE m == MAXOPBLOCKS
           W == Cardinality(Written)
<1>1. /\ m \in Nat /\ LOGSIZE \in Nat /\ Len(lh) \in Nat /\ W \in Nat /\ outstanding \in Nat
      /\ outstanding * m \in Nat
      /\ outstanding = Cardinality(Active) /\ Len(lh) + outstanding * m <= LOGSIZE + W
  <2>1. m \in Nat /\ LOGSIZE \in Nat /\ Len(lh) \in Nat /\ W \in Nat /\ outstanding \in Nat
    BY SizesAssumption, WrittenBound DEF TypeOK
  <2>2. outstanding = Cardinality(Active) /\ Len(lh) + outstanding * m <= LOGSIZE + W
    BY DEF Reservation
  <2>3. \A a, b \in Nat : a * b \in Nat
    OBVIOUS
  <2>4. QED
    BY <2>1, <2>2, <2>3
<1>2. ASSUME UNCHANGED <<pc, wrote, lh, outstanding, committing>>
      PROVE  Reservation'
  <2>1. Active' = Active /\ Written' = Written
    BY <1>2 DEF Active, Written
  <2>2. QED
    BY <1>2, <2>1 DEF Reservation
<1>3. ASSUME Active' = {}, outstanding' = 0, lh' \in Seq(Blocks), Len(lh') <= LOGSIZE
      PROVE  Reservation'
  <2>1. Written' = {}
    BY <1>3 DEF Written
  <2>2. Len(lh') + 0 * m <= LOGSIZE + 0
    BY <1>1, <1>3
  <2>3. QED
    BY <1>3, <2>1, <2>2, FS_EmptySet DEF Reservation
<1>4. ASSUME Active' = Active, \A p \in Active : wrote'[p] = wrote[p],
             UNCHANGED <<lh, outstanding>>, committing' => committing
      PROVE  Reservation'
  <2>1. Written' = Written
    BY <1>4 DEF Written
  <2>2. QED
    BY <1>4, <2>1 DEF Reservation
<1>5. ASSUME NEW p \in Procs, Call(p)
      PROVE  Reservation'
  <2>1. Active' = Active /\ p \notin Active
    BY <1>5, ActiveStep DEF Call, Active
  <2>2. QED
    BY <1>4, <1>5, <2>1 DEF Call, header, TypeOK, Active
<1>6. ASSUME NEW p \in Procs, Kill(p) \/ (\E b \in Blocks : LogWriteTest(p, b))
      PROVE  Reservation'
  BY <1>4, <1>6, ActiveStep DEF Kill, LogWriteTest, header, calls
<1>7. ASSUME NEW p \in Procs, BeginOp(p)
      PROVE  Reservation'
  <2>1. CASE MustWait
    BY <1>4, <1>7, <2>1, ActiveStep DEF BeginOp, calls
  <2>2. CASE ~MustWait
    <3>1. /\ p \notin Active /\ Active' = Active \cup {p} /\ wrote[p] = {}
          /\ outstanding' = outstanding + 1 /\ UNCHANGED <<wrote, lh, committing>>
      BY <1>7, <2>2, ActiveStep DEF BeginOp, calls, CallsInv
    <3>2. Written' = Written
      BY <3>1 DEF Written
    <3>3. outstanding' = Cardinality(Active)'
      BY <1>1, <3>1, WrittenBound, FS_AddElement
    <3>4. ~committing' /\ Len(lh) + (outstanding + 1) * m <= LOGSIZE
      <4> DEFINE r == (outstanding + 1) * MAXOPBLOCKS
      <4>1. ~committing /\ ~(Len(lh) + r > LOGSIZE)
        BY <2>2 DEF MustWait
      <4>2. r \in Nat
        BY <1>1
      <4> HIDE DEF r
      <4>3. Len(lh) + r <= LOGSIZE
        BY <1>1, <4>1, <4>2
      <4>4. QED
        BY <3>1, <4>1, <4>3 DEF r
    <3>5. (outstanding + 1) * m \in Nat
      BY <1>1
    <3>6. Len(lh') + outstanding' * m <= LOGSIZE + W
      <4> DEFINE r == (outstanding + 1) * m
      <4>1. r \in Nat /\ Len(lh) + r <= LOGSIZE
        BY <3>4, <3>5
      <4> HIDE DEF r, m, W
      <4>2. Len(lh) + r <= LOGSIZE + W
        BY <1>1, <4>1
      <4>3. QED
        BY <3>1, <4>2 DEF r
    <3>7. QED
      BY <3>2, <3>3, <3>4, <3>6 DEF Reservation
  <2>3. QED
    BY <2>1, <2>2
<1>8. ASSUME NEW p \in Procs, LogWrite(p)
      PROVE  Reservation'
  <2>1. /\ p \in Active /\ Active' = Active /\ blk[p] \in Blocks
        /\ wrote'[p] = wrote[p] \cup {blk[p]} /\ \A q \in Active \ {p} : wrote'[q] = wrote[q]
        /\ UNCHANGED <<outstanding, committing>>
    BY <1>8, ActiveStep DEF LogWrite, CallsInv, TypeOK, header, Active
  <2>2. Written' = Pairs(Active, wrote')
    BY <2>1 DEF Written, Pairs
  <2>3. Cardinality(Written') = IF blk[p] \in wrote[p] THEN W ELSE W + 1
    <3> DEFINE w2 == wrote'
               P2 == Pairs(Active, w2)
    <3>1. w2[p] = wrote[p] \cup {blk[p]} /\ \A q \in Active \ {p} : w2[q] = wrote[q]
      BY <2>1
    <3> HIDE DEF w2
    <3>2. Cardinality(P2) = IF blk[p] \in wrote[p] THEN Cardinality(Pairs(Active, wrote))
                            ELSE Cardinality(Pairs(Active, wrote)) + 1
      BY <2>1, <3>1, WrittenBound, SizesAssumption, PairsAdd
    <3>3. Written = Pairs(Active, wrote) /\ Written' = P2
      BY <2>2, WrittenBound DEF w2
    <3>4. QED
      BY <3>2, <3>3
  <2>4. Len(lh') = IF blk[p] \in Logged(lh) THEN Len(lh) ELSE Len(lh) + 1
    BY <1>8, <2>1, Absorbs
  <2>5. wrote[p] \subseteq Logged(lh)
    BY <2>1 DEF CallsInv, Active
  <2>6. Len(lh') + outstanding * m <= LOGSIZE + Cardinality(Written')
    <3> DEFINE r == outstanding * m
               W2 == Cardinality(Written')
               k == Len(lh')
    <3>1. /\ r \in Nat /\ LOGSIZE \in Nat /\ Len(lh) \in Nat /\ W \in Nat
          /\ Len(lh) + r <= LOGSIZE + W
      BY <1>1
    <3>2. \/ W2 = W + 1 /\ (k = Len(lh) \/ k = Len(lh) + 1)
          \/ W2 = W /\ k = Len(lh)
      BY <2>3, <2>4, <2>5
    <3> HIDE DEF r, W, W2, k
    <3>3. k + r <= LOGSIZE + W2
      BY <3>1, <3>2
    <3>4. QED
      BY <3>3 DEF r, W2, k
  <2>7. QED
    BY <2>1, <2>6 DEF Reservation
<1>9. ASSUME NEW p \in Procs, EndOp(p)
      PROVE  Reservation'
  <2>1. /\ p \in Active /\ Active' = Active \ {p} /\ outstanding' = outstanding - 1
        /\ UNCHANGED <<wrote, lh>>
    BY <1>9, ActiveStep DEF EndOp, calls
  <2>2. Written' = Pairs(Active \ {p}, wrote)
    BY <2>1 DEF Written, Pairs
  <2>3. outstanding' = Cardinality(Active)' /\ outstanding - 1 \in Nat
    <3>1. outstanding \in Nat \ {0}
      BY <2>1, Counted
    <3>2. Cardinality(Active \ {p}) = Cardinality(Active) - 1
      BY <2>1, WrittenBound, FS_RemoveElement
    <3>3. QED
      BY <1>1, <2>1, <3>1, <3>2
  <2>4. W <= Cardinality(Written') + m
    <3>1. \A q \in Active : wrote[q] \subseteq Blocks /\ Cardinality(wrote[q]) <= m
      <4> SUFFICES ASSUME NEW q \in Active PROVE Cardinality(wrote[q]) <= m
        BY WrittenBound
      <4>1. IsFiniteSet(wrote[q]) /\ Cardinality(wrote[q]) \in Nat
        BY WrittenBound, SetsAssumption, FS_Subset, FS_CardinalityType
      <4>2. QED
        BY <4>1, WrittenBound, SizesAssumption, RoomAssumption
    <3>2. QED
      BY <1>1, <2>1, <2>2, <3>1, WrittenBound, PairsRemove
  <2>5. Cardinality(Written') \in Nat
    <3>1. IsFiniteSet(Written)
      BY WrittenBound, PairsBound, SizesAssumption
    <3>2. Written' \subseteq Written
      BY <2>1 DEF Written
    <3>3. QED
      BY <3>1, <3>2, FS_Subset, FS_CardinalityType
  <2>6. Len(lh') + outstanding' * m <= LOGSIZE + Cardinality(Written')
    <3> DEFINE r == (outstanding - 1) * m
    <3>1. r \in Nat /\ outstanding * m = r + m
      <4>1. \A a, b \in Nat : a * b \in Nat /\ (a + 1) * b = a * b + b
        OBVIOUS
      <4>2. m \in Nat /\ outstanding - 1 \in Nat /\ (outstanding - 1) + 1 = outstanding
        BY <1>1, <2>3
      <4>3. QED
        BY <4>1, <4>2
    <3> HIDE DEF r, W, m
    <3>2. Len(lh) + r <= LOGSIZE + Cardinality(Written')
      BY <1>1, <2>4, <2>5, <3>1
    <3>3. QED
      BY <2>1, <3>2 DEF r
  <2>7. committing' => Active' = {}
    <3> SUFFICES ASSUME committing' PROVE Active' = {}
      OBVIOUS
    <3>1. ~committing /\ outstanding = 1
      BY <1>9, <2>1, Counted DEF EndOp
    <3>2. Cardinality(Active') = 0 /\ IsFiniteSet(Active')
      BY <1>1, <2>1, <2>3, <3>1, WrittenBound, FS_RemoveElement
    <3>3. QED
      BY <3>2, FS_EmptySet
  <2>8. QED
    BY <2>3, <2>6, <2>7 DEF Reservation
<1>10. ASSUME NEW p \in Procs, CommitDone(p)
       PROVE  Reservation'
  BY <1>4, <1>10, ActiveStep DEF CommitDone, calls
<1>11. CASE WriteLog \/ WriteHead \/ Install \/ UNCHANGED vars \/ \E b \in Blocks : Evict(b)
  BY <1>2, <1>11 DEF WriteLog, WriteHead, Install, Evict, vars, header, calls
<1>12. CASE Erase \/ ReadHead
  <2>1. Active = {} /\ UNCHANGED <<pc, outstanding>>
    BY <1>12 DEF StageInv, Erase, ReadHead, header
  <2>2. Active' = {} /\ outstanding' = 0
    BY <1>1, <2>1, FS_EmptySet DEF Active
  <2>3. lh' \in Seq(Blocks) /\ Len(lh') <= LOGSIZE
    <3>1. lh' = <<>> \/ lh' = dhead
      BY <1>12 DEF Erase, ReadHead
    <3>2. <<>> \in Seq(Blocks) /\ Len(<<>>) <= LOGSIZE
      BY <1>1
    <3>3. QED
      <4>1. dhead \in Seq(Blocks) /\ Len(dhead) \in Nat /\ Len(dhead) <= Room
        BY DEF HeaderInv, TypeOK
      <4>2. Len(dhead) <= LOGSIZE
        BY <4>1, RoomFacts, SizesAssumption
      <4>3. QED
        BY <3>1, <3>2, <4>1, <4>2
  <2>4. QED
    BY <1>3, <2>2, <2>3
<1>13. CASE Crash
  BY <1>1, <1>3, <1>13 DEF Crash, Active
<1>14. QED
  BY <1>5, <1>6, <1>7, <1>8, <1>9, <1>10, <1>11, <1>12, <1>13 DEF Next, Committer

\* The same after a step.
LEMMA FitsNext ==
    (TypeOK /\ CallsInv /\ Reservation /\ Active # {})' => (Len(lh) <= Room)'
<1>1. TypeOK /\ CallsInv /\ Reservation /\ Active # {} => Len(lh) <= Room
  BY Fits
<1>2. QED
  BY <1>1, PTL

\* No step panics: log_write() finds room and a transaction, and no call ends
\* during a commit.
LEMMA PanicStep ==
    ASSUME TypeOK, CallsInv, Reservation, ~panicked, [Next]_vars
    PROVE  ~panicked'
<1>1. ASSUME NEW p \in Procs, NEW b \in Blocks, LogWriteTest(p, b)
      PROVE  ~panicked'
  <2>1. p \in Active
    BY <1>1 DEF LogWriteTest, Active
  <2>2. Len(lh) \in Nat /\ Len(lh) <= Room /\ outstanding \in Nat \ {0}
    BY <2>1, Fits, Counted DEF TypeOK
  <2>3. ~(Len(lh) >= LOGSIZE \/ Len(lh) >= NLOG - 1 \/ outstanding < 1)
    BY <2>2, RoomFacts, SizesAssumption
  <2>4. QED
    BY <1>1, <2>3 DEF LogWriteTest
<1>2. ASSUME NEW p \in Procs, EndOp(p)
      PROVE  ~panicked'
  <2>1. p \in Active
    BY <1>2 DEF EndOp, Active
  <2>2. QED
    BY <1>2, <2>1 DEF EndOp, Reservation
<1>3. QED
  BY <1>1, <1>2 DEF Next, Committer, Call, BeginOp, Kill, CommitDone, LogWrite, WriteLog,
     WriteHead, Install, Erase, ReadHead, Crash, Evict, vars

\* Every step keeps the on-disk header empty unless a transaction is committed.
LEMMA HeaderStep ==
    ASSUME TypeOK, CallsInv, StageInv, Reservation, HeaderInv,
           TypeOK', CallsInv', Reservation', [Next]_vars
    PROVE  HeaderInv'
<1> USE DEF HeaderInv
<1>1. Active' # {} => Len(lh') <= Room
  BY FitsNext
<1>0. Len(lh) \in Nat /\ Len(<<>>) = 0 /\ Room \in Nat
  BY RoomFacts DEF TypeOK
<1>2. Once(<<>>)
  BY DEF Once
<1>3. ASSUME UNCHANGED <<lh, dhead, stage, tail>>
      PROVE  HeaderInv'
  BY <1>3
<1>4. ASSUME NEW p \in Procs, \/ Call(p) \/ BeginOp(p) \/ Kill(p)
                              \/ \E b \in Blocks : LogWriteTest(p, b)
      PROVE  HeaderInv'
  BY <1>3, <1>4 DEF Call, BeginOp, Kill, LogWriteTest, disk
<1>5. ASSUME NEW p \in Procs, LogWrite(p)
      PROVE  HeaderInv'
  <2>1. stage = "none" /\ blk[p] \in Blocks
    BY <1>5 DEF LogWrite, CallsInv, StageInv, Active
  <2>2. Once(lh')
    BY <1>5, <2>1, Absorbs
  <2>3. Active' # {}
    BY <1>5, <2>1, ActiveStep DEF LogWrite, Active
  <2>4. QED
    BY <1>1, <1>5, <2>1, <2>2, <2>3 DEF LogWrite, disk
<1>6. ASSUME NEW p \in Procs, EndOp(p)
      PROVE  HeaderInv'
  <2>1. stage = "none" /\ UNCHANGED <<lh, dhead>>
    BY <1>6 DEF EndOp, StageInv, Active, disk
  <2>2. \/ UNCHANGED <<stage, tail>>
        \/ stage' = "done" /\ lh = <<>>
        \/ stage' = "write_log" /\ tail' = 1 /\ lh # <<>>
    BY <1>6 DEF EndOp
  <2>3. lh # <<>> => 1 \in 1..Len(lh)
    BY DEF TypeOK
  <2>4. QED
    BY <2>1, <2>2, <2>3
<1>7. ASSUME NEW p \in Procs, CommitDone(p)
      PROVE  HeaderInv'
  BY <1>7 DEF CommitDone, disk
<1>8. CASE WriteLog
  BY <1>0, <1>8 DEF WriteLog, TypeOK
<1>9. CASE WriteHead
  BY <1>0, <1>9 DEF WriteHead
<1>10. CASE Install
  BY <1>0, <1>10 DEF Install, TypeOK
<1>11. CASE Erase
  <2>1. lh' = <<>> /\ dhead' = <<>> /\ stage' \in {"done", "none"}
    BY <1>11 DEF Erase
  <2>2. QED
    BY <1>0, <1>2, <2>1
<1>12. CASE ReadHead
  <2>1. dhead # <<>> => 1 \in 1..Len(dhead)
    BY DEF TypeOK
  <2>2. QED
    BY <1>0, <1>2, <1>12, <2>1 DEF ReadHead, disk
<1>13. CASE Crash
  BY <1>0, <1>2, <1>13 DEF Crash, disk
<1>14. ASSUME UNCHANGED vars \/ \E b \in Blocks : Evict(b)
       PROVE  HeaderInv'
  BY <1>3, <1>14 DEF Evict, disk, vars
<1>15. QED
  BY <1>4, <1>5, <1>6, <1>7, <1>8, <1>9, <1>10, <1>11, <1>12, <1>13, <1>14 DEF Next, Committer

\* Every step keeps a clean buffer equal to its block on disk.
LEMMA CacheStep ==
    ASSUME TypeOK, CallsInv, StageInv, HeaderInv, CacheInv, [Next]_vars
    PROVE  CacheInv'
<1> USE DEF CacheInv
<1>1. ASSUME UNCHANGED <<lh, home, buf, dirty, stage, tail>>
      PROVE  CacheInv'
  BY <1>1 DEF Logged
<1>2. ASSUME NEW p \in Procs, \/ Call(p) \/ BeginOp(p) \/ Kill(p)
                              \/ \E b \in Blocks : LogWriteTest(p, b)
      PROVE  CacheInv'
  BY <1>1, <1>2 DEF Call, BeginOp, Kill, LogWriteTest, disk, memory
<1>3. ASSUME NEW p \in Procs, LogWrite(p)
      PROVE  CacheInv'
  <2>1. stage = "none" /\ blk[p] \in Blocks /\ UNCHANGED <<stage, home>>
    BY <1>3 DEF LogWrite, CallsInv, StageInv, Active, disk
  <2>2. Logged(lh)' = Logged(lh) \cup {blk[p]} /\ dirty' = dirty \cup {blk[p]}
    BY <1>3, <2>1, Absorbs DEF LogWrite, Logged
  <2>3. \A b \in Blocks \ {blk[p]} : buf'[b] = buf[b]
    BY <1>3 DEF LogWrite, TypeOK
  <2>4. QED
    BY <2>1, <2>2, <2>3
<1>4. ASSUME NEW p \in Procs, EndOp(p)
      PROVE  CacheInv'
  <2>1. stage = "none" /\ UNCHANGED <<lh, home, buf, dirty>>
    BY <1>4 DEF EndOp, StageInv, Active, disk, memory
  <2>2. \/ UNCHANGED <<stage, tail>>
        \/ stage' = "done" /\ lh = <<>>
        \/ stage' = "write_log"
    BY <1>4 DEF EndOp
  <2>3. Logged(lh)' = Logged(lh) /\ (lh = <<>> => Logged(lh) = {})
    BY <2>1 DEF Logged
  <2>4. QED
    BY <2>1, <2>2, <2>3
<1>5. ASSUME NEW p \in Procs, CommitDone(p)
      PROVE  CacheInv'
  <2>1. stage = "done" /\ lh = <<>> /\ stage' = "none" /\ UNCHANGED <<lh, home, buf, dirty>>
    BY <1>5 DEF CommitDone, HeaderInv, disk, memory
  <2>2. Logged(lh)' = {}
    BY <2>1 DEF Logged
  <2>3. QED
    BY <2>1, <2>2
<1>6. CASE WriteLog
  <2>1. UNCHANGED <<lh, home, buf, dirty>> /\ stage' \in {"write_log", "write_head"}
    BY <1>6 DEF WriteLog, memory
  <2>2. QED
    BY <1>6, <2>1 DEF WriteLog, Logged
<1>7. CASE WriteHead
  <2>1. stage' = "install" /\ tail' = 1 /\ UNCHANGED <<lh, home, buf, dirty>>
    BY <1>7 DEF WriteHead, HeaderInv, memory
  <2>2. dirty = Logged(lh)
    BY <1>7 DEF WriteHead
  <2>3. QED
    BY <2>1, <2>2 DEF Logged
<1>8. CASE Install
  <2>1. /\ tail \in 1..Len(lh) /\ Len(lh) \in Nat /\ lh[tail] \in Blocks
        /\ dirty' = dirty \ {lh[tail]} /\ lh' = lh
    BY <1>8 DEF Install, HeaderInv, TypeOK
  <2>2. \A b \in Blocks \ {lh[tail]} : buf'[b] = buf[b] /\ home'[b] = home[b]
    BY <1>8 DEF Install, TypeOK
  <2>3. buf'[lh[tail]] = home'[lh[tail]]
    BY <1>8, <2>1 DEF Install, TypeOK
  <2>4. \A b \in dirty' : \E j \in (tail + 1)..Len(lh) : b = lh[j]
    BY <1>8, <2>1 DEF Install
  <2>5. \/ stage' = "install" /\ tail' = tail + 1
        \/ stage' = "erase" /\ tail = Len(lh)
    BY <1>8, <2>1 DEF Install
  <2>6. tail = Len(lh) => dirty' = {}
    BY <2>1, <2>4
  <2>7. QED
    BY <2>1, <2>2, <2>3, <2>4, <2>5, <2>6
<1>9. CASE Erase
  <2>1. dirty = {} /\ stage' \in {"done", "none"} /\ lh' = <<>> /\ UNCHANGED <<home, buf, dirty>>
    BY <1>9 DEF Erase, memory
  <2>2. Logged(lh)' = {}
    BY <2>1 DEF Logged
  <2>3. QED
    BY <2>1, <2>2
<1>10. CASE ReadHead
  <2>1. dirty = {} /\ stage' \in {"install", "erase"} /\ UNCHANGED <<home, buf, dirty>>
    BY <1>10 DEF ReadHead, disk, memory
  <2>2. QED
    BY <2>1
<1>11. CASE Crash
  BY <1>11 DEF Crash, disk
<1>12. ASSUME NEW b \in Blocks, Evict(b)
       PROVE  CacheInv'
  <2>1. buf' = buf
    BY <1>12 DEF Evict, TypeOK
  <2>2. QED
    BY <1>1, <1>12, <2>1 DEF Evict, disk
<1>13. CASE UNCHANGED vars
  BY <1>1, <1>13 DEF vars
<1>14. QED
  BY <1>2, <1>3, <1>4, <1>5, <1>6, <1>7, <1>8, <1>9, <1>10, <1>11, <1>12, <1>13 DEF Next, Committer

\* Every step keeps the copies already made: the blocks that are copied to the
\* log or to their homes do not change under the copying.
LEMMA CopiesStep ==
    ASSUME TypeOK, CallsInv, StageInv, HeaderInv, CacheInv, CopiesInv, [Next]_vars
    PROVE  CopiesInv'
<1> USE DEF CopiesInv
<1>1. ASSUME UNCHANGED <<lh, home, dlog, buf, stage, tail>>, committing' => committing
      PROVE  CopiesInv'
  BY <1>1
<1>2. ASSUME NEW p \in Procs, \/ Call(p) \/ BeginOp(p) \/ Kill(p)
                              \/ \E b \in Blocks : LogWriteTest(p, b)
      PROVE  CopiesInv'
  BY <1>1, <1>2 DEF Call, BeginOp, Kill, LogWriteTest, disk, memory, header
<1>3. ASSUME NEW p \in Procs, LogWrite(p)
      PROVE  CopiesInv'
  BY <1>3 DEF LogWrite, StageInv, Active
<1>4. ASSUME NEW p \in Procs, EndOp(p)
      PROVE  CopiesInv'
  <2>1. stage = "none"
    BY <1>4 DEF EndOp, StageInv, Active
  <2>2. \/ UNCHANGED stage
        \/ stage' = "done"
        \/ stage' = "write_log" /\ tail' = 1
    BY <1>4 DEF EndOp
  <2>3. QED
    BY <2>1, <2>2
<1>5. ASSUME NEW p \in Procs, CommitDone(p)
      PROVE  CopiesInv'
  BY <1>5 DEF CommitDone
<1>6. CASE WriteLog
  <2>1. /\ tail \in 1..Len(lh) /\ Len(lh) \in Nat /\ tail \in 1..(NLOG - 1)
        /\ UNCHANGED <<lh, buf, home, committing>>
    BY <1>6, SizesAssumption, RoomFacts DEF WriteLog, HeaderInv, TypeOK, memory, header
  <2>2. dlog'[tail] = buf[lh[tail]] /\ \A j \in 1..(tail - 1) : dlog'[j] = dlog[j]
    BY <1>6, <2>1 DEF WriteLog, TypeOK
  <2>3. \A j \in 1..tail : dlog'[j] = buf[lh[j]]
    BY <1>6, <2>1, <2>2 DEF WriteLog
  <2>4. \/ stage' = "write_log" /\ tail' = tail + 1
        \/ stage' = "write_head" /\ tail = Len(lh)
    BY <1>6, <2>1 DEF WriteLog
  <2>5. QED
    BY <2>1, <2>3, <2>4
<1>7. CASE WriteHead
  <2>1. stage' = "install" /\ tail' = 1 /\ UNCHANGED <<lh, home, dlog, buf, committing>>
    BY <1>7 DEF WriteHead, HeaderInv, memory, header
  <2>2. QED
    BY <1>7, <2>1 DEF WriteHead
<1>8. CASE Install
  <2>1. /\ tail \in 1..Len(lh) /\ Len(lh) \in Nat /\ lh[tail] \in Blocks /\ Once(lh)
        /\ \A j \in 1..Len(lh) : lh[j] \in Blocks
        /\ UNCHANGED <<lh, dlog, committing>>
    BY <1>8 DEF Install, HeaderInv, TypeOK, header
  <2>2. \A j \in 1..Len(lh) : j # tail => lh[j] # lh[tail]
    BY <2>1 DEF Once
  <2>3. /\ home'[lh[tail]] = dlog[tail] /\ buf'[lh[tail]] = dlog[tail]
        /\ \A j \in 1..Len(lh) : j # tail => home'[lh[j]] = home[lh[j]] /\ buf'[lh[j]] = buf[lh[j]]
    BY <1>8, <2>1, <2>2 DEF Install, TypeOK
  <2>4. \A j \in 1..tail : home'[lh[j]] = dlog[j]
    BY <1>8, <2>1, <2>3 DEF Install
  <2>5. committing => \A j \in 1..Len(lh) : dlog[j] = buf'[lh[j]]
    BY <1>8, <2>1, <2>3 DEF Install
  <2>6. \/ stage' = "install" /\ tail' = tail + 1
        \/ stage' = "erase" /\ tail = Len(lh)
    BY <1>8, <2>1 DEF Install
  <2>7. QED
    BY <2>1, <2>4, <2>5, <2>6
<1>9. CASE Erase
  BY <1>9 DEF Erase
<1>10. CASE ReadHead
  <2>1. ~committing /\ UNCHANGED <<home, dlog, committing>>
    BY <1>10 DEF ReadHead, StageInv, disk, header
  <2>2. \/ stage' = "install" /\ tail' = 1
        \/ stage' = "erase" /\ lh' = <<>>
    BY <1>10 DEF ReadHead
  <2>3. QED
    BY <2>1, <2>2
<1>11. CASE Crash
  BY <1>11 DEF Crash
<1>12. ASSUME NEW b \in Blocks, Evict(b)
       PROVE  CopiesInv'
  <2>1. buf' = buf
    BY <1>12 DEF Evict, TypeOK, CacheInv
  <2>2. QED
    BY <1>1, <1>12, <2>1 DEF Evict, disk, header
<1>13. CASE UNCHANGED vars
  BY <1>1, <1>13 DEF vars
<1>14. QED
  BY <1>2, <1>3, <1>4, <1>5, <1>6, <1>7, <1>8, <1>9, <1>10, <1>11, <1>12, <1>13 DEF Next, Committer

\* A new file system satisfies the invariant.
LEMMA InitIInv == Init => IInv
<1> SUFFICES ASSUME Init PROVE IInv
  OBVIOUS
<1> USE DEF Init
<1>1. TypeOK
  <2>1. 0 \in Vals /\ 0 \in 0..MaxOps /\ 0 \in 0..MaxCrashes
    BY SizesAssumption DEF Vals
  <2>2. home \in [Blocks -> Vals] /\ dlog \in [1..(NLOG - 1) -> Vals] /\ buf \in [Blocks -> Vals]
    BY <2>1
  <2>3. /\ pc \in [Procs -> {"idle", "begin", "asleep", "op", "log_write", "commit"}]
        /\ op \in [Procs -> Vals] /\ wrote \in [Procs -> SUBSET Blocks]
        /\ blk \in [Procs -> Blocks \cup {0}]
    BY <2>1
  <2>4. dhead \in Seq(Blocks) /\ lh \in Seq(Blocks) /\ dirty \subseteq Blocks
    OBVIOUS
  <2>5. stage \in Stages /\ outstanding \in Nat /\ tail \in Nat
    BY DEF Stages
  <2>6. ops \in 0..MaxOps /\ crashes \in 0..MaxCrashes
    BY <2>1
  <2>7. QED
    BY <2>2, <2>3, <2>4, <2>5, <2>6 DEF TypeOK
<1>2. Active = {}
  BY DEF Active
<1>3. CallsInv /\ StageInv /\ CacheInv /\ CopiesInv
  BY <1>2 DEF CallsInv, StageInv, CacheInv, CopiesInv, Logged
<1>4. HeaderInv
  BY RoomFacts DEF HeaderInv, Once
<1>5. SpaceReserved
  <2>1. Cardinality(Active) = 0 /\ Written = {} /\ Cardinality(Written) = 0
    BY <1>2, FS_EmptySet DEF Written
  <2>2. 0 + 0 * MAXOPBLOCKS <= LOGSIZE + 0
    BY SizesAssumption
  <2>3. QED
    BY <1>2, <2>1, <2>2 DEF SpaceReserved, Reservation
<1>6. QED
  BY <1>1, <1>3, <1>4, <1>5 DEF IInv

-----------------------------------------------------------------------------
(* The theorems. *)

\* The inductive invariant holds in every reachable state, also after crashes.
THEOREM Invariant == Spec => []IInv
<1>1. IInv /\ [Next]_vars => IInv'
  <2> SUFFICES ASSUME IInv, [Next]_vars PROVE IInv'
    OBVIOUS
  <2>1. TypeOK' /\ CallsInv' /\ StageInv' /\ SpaceReserved'
    BY TypeStep, CallsStep, StageStep, SpaceStep, PanicStep DEF IInv, SpaceReserved
  <2>2. HeaderInv' /\ CacheInv' /\ CopiesInv'
    BY <2>1, HeaderStep, CacheStep, CopiesStep DEF IInv, SpaceReserved
  <2>3. QED
    BY <2>1, <2>2 DEF IInv
<1>2. QED
  BY InitIInv, <1>1, PTL DEF Spec

\* The variables of the log keep their types.
THEOREM TypeCorrect == Spec => []TypeOK
<1>1. IInv => TypeOK
  BY DEF IInv
<1>2. QED
  BY <1>1, Invariant, PTL

\* begin_op()'s reservation is enough for whatever the admitted calls write, and
\* log_write() and end_op() never panic, on a disk as mkfs lays it out, although
\* log_write() tests without log.lock, before it absorbs and for one block more.
THEOREM SpaceReservedHolds == Spec => []SpaceReserved
<1>1. IInv => SpaceReserved
  BY DEF IInv
<1>2. QED
  BY <1>1, Invariant, PTL

\* The in-memory header and the one on disk never outgrow struct logheader, nor
\* the blocks that mkfs has left for the log beside its header.
THEOREM HeaderFits == Spec => [](Len(lh) <= LOGSIZE /\ Len(dhead) < NLOG)
<1>1. IInv => Len(lh) <= LOGSIZE /\ Len(dhead) < NLOG
  BY RoomFacts, SizesAssumption DEF IInv, HeaderInv, TypeOK
<1>2. QED
  BY <1>1, Invariant, PTL

-----------------------------------------------------------------------------
(* The log implements atomic transactions. *)

\* What recovery makes of the disk: the logged copy of a block in the header,
\* and any other block as it is.
LEMMA RecoveredIs ==
    ASSUME TypeOK, Once(dhead)
    PROVE  /\ \A j \in 1..Len(dhead) : Recovered[dhead[j]] = dlog[j]
           /\ \A b \in Blocks \ Logged(dhead) : Recovered[b] = home[b]
           /\ Recovered = [b \in Blocks |-> Recovered[b]]
<1>1. ASSUME NEW j \in 1..Len(dhead)
      PROVE  Recovered[dhead[j]] = dlog[j]
  <2>1. dhead[j] \in Blocks
    BY DEF TypeOK
  <2>2. (CHOOSE i \in 1..Len(dhead) : dhead[i] = dhead[j]) = j
    BY DEF Once
  <2>3. QED
    BY <2>1, <2>2 DEF Recovered
<1>2. ASSUME NEW b \in Blocks \ Logged(dhead)
      PROVE  Recovered[b] = home[b]
  BY DEF Recovered, Logged
<1>3. Recovered = [b \in Blocks |-> Recovered[b]]
  BY DEF Recovered
<1>4. QED
  BY <1>1, <1>2, <1>3

\* The same after a step.
LEMMA RecoveredIsNext ==
    (TypeOK /\ Once(dhead))' =>
      /\ \A j \in 1..Len(dhead') : Recovered'[dhead'[j]] = dlog'[j]
      /\ \A b \in Blocks \ Logged(dhead') : Recovered'[b] = home'[b]
      /\ Recovered' = [b \in Blocks |-> Recovered'[b]]
<1>1. TypeOK /\ Once(dhead) =>
        /\ \A j \in 1..Len(dhead) : Recovered[dhead[j]] = dlog[j]
        /\ \A b \in Blocks \ Logged(dhead) : Recovered[b] = home[b]
        /\ Recovered = [b \in Blocks |-> Recovered[b]]
  BY RecoveredIs
<1>2. (TypeOK /\ Once(dhead))' =>
        (/\ \A j \in 1..Len(dhead) : Recovered[dhead[j]] = dlog[j]
         /\ \A b \in Blocks \ Logged(dhead) : Recovered[b] = home[b]
         /\ Recovered = [b \in Blocks |-> Recovered[b]])'
  BY <1>1, PTL
<1>3. QED
  BY <1>2

\* With an empty header, recovery changes nothing.
LEMMA RecoveredEmpty ==
    ASSUME TypeOK, dhead = <<>>
    PROVE  Recovered = home
BY DEF Recovered, TypeOK

\* What file-system calls read.
Current == IF Recovering THEN Recovered ELSE buf

\* The log and the cache as they appear to the transactions only change with
\* the disk, the buffers, the stage and the calls.
LEMMA Seen ==
    /\ UNCHANGED <<home, dlog, dhead>> => Recovered' = Recovered
    /\ UNCHANGED <<home, dlog, dhead, buf, stage, committing>> => Current' = Current
<1>1. UNCHANGED <<home, dlog, dhead>> => Recovered' = Recovered
  BY DEF Recovered
<1>2. UNCHANGED <<stage, committing>> => Recovering' = Recovering
  BY DEF Recovering
<1>3. QED
  BY <1>1, <1>2 DEF Current

\* write_head() commits: recovery then finds exactly what the calls have written.
LEMMA HeadCommits ==
    ASSUME IInv, IInv', WriteHead
    PROVE  Trans!Commit
<1> USE DEF IInv
<1>1. /\ stage = "write_head" /\ dhead' = lh /\ stage' = "install" /\ committing
      /\ UNCHANGED <<home, dlog, buf, lh, pc, committing>>
  BY DEF WriteHead, StageInv, memory, header
<1>2. Active = {} /\ Active' = {}
  BY <1>1 DEF StageInv, Active
<1>3. \A b \in Blocks : Recovered'[b] = buf[b]
  <2> TAKE b \in Blocks
  <2>1. CASE b \in Logged(lh)
    <3>1. PICK j \in 1..Len(lh) : b = lh[j]
      BY <2>1 DEF Logged
    <3>2. Recovered'[dhead'[j]] = dlog'[j]
      BY <1>1, <3>1, RecoveredIsNext DEF HeaderInv
    <3>3. QED
      BY <1>1, <3>1, <3>2 DEF CopiesInv
  <2>2. CASE b \notin Logged(lh)
    <3>1. Recovered'[b] = home'[b]
      BY <1>1, <2>2, RecoveredIsNext DEF HeaderInv
    <3>2. QED
      BY <1>1, <2>2, <3>1 DEF CacheInv
  <2>3. QED
    BY <2>1, <2>2
<1>4. Recovered' = buf
  <2>1. Recovered' = [b \in Blocks |-> Recovered'[b]] /\ buf = [b \in Blocks |-> buf[b]]
    BY <1>1, RecoveredIsNext DEF HeaderInv, TypeOK
  <2>2. QED
    BY <1>3, <2>1
<1>5. Current = buf /\ Current' = buf
  BY <1>1 DEF Current, Recovering
<1>6. QED
  BY <1>2, <1>4, <1>5 DEF Trans!Commit, Current

\* install_trans() copies what recovery would copy.
LEMMA InstallKeeps ==
    ASSUME IInv, IInv', Install
    PROVE  Recovered' = Recovered /\ Current' = Current
<1> USE DEF IInv
<1>1. /\ stage = "install" /\ stage' \in {"install", "erase"} /\ dhead = lh
      /\ tail \in 1..Len(lh) /\ lh[tail] \in Blocks
      /\ UNCHANGED <<dlog, dhead, lh, committing>>
  BY DEF Install, HeaderInv, TypeOK, header
<1>2. \A b \in Blocks : Recovered'[b] = Recovered[b]
  <2> TAKE b \in Blocks
  <2>1. CASE b \in Logged(dhead)
    <3>1. PICK j \in 1..Len(dhead) : b = dhead[j]
      BY <2>1 DEF Logged
    <3>2. Recovered[b] = dlog[j]
      BY <3>1, RecoveredIs DEF HeaderInv
    <3>3. Recovered'[dhead'[j]] = dlog'[j]
      BY <1>1, <3>1, RecoveredIsNext DEF HeaderInv
    <3>4. QED
      BY <1>1, <3>1, <3>2, <3>3
  <2>2. CASE b \notin Logged(dhead)
    <3>1. Recovered[b] = home[b] /\ Recovered'[b] = home'[b]
      BY <1>1, <2>2, RecoveredIs, RecoveredIsNext DEF HeaderInv
    <3>2. b # lh[tail]
      BY <1>1, <2>2 DEF Logged
    <3>3. QED
      BY <1>1, <3>1, <3>2 DEF Install, TypeOK
  <2>3. QED
    BY <2>1, <2>2
<1>3. Recovered' = Recovered
  <2>1. /\ Recovered = [b \in Blocks |-> Recovered[b]]
        /\ Recovered' = [b \in Blocks |-> Recovered'[b]]
    BY <1>1, RecoveredIs, RecoveredIsNext DEF HeaderInv
  <2>2. QED
    BY <1>2, <2>1
<1>4. Recovering' = Recovering
  BY <1>1 DEF Recovering
<1>5. ~Recovering => buf' = buf
  <2> SUFFICES ASSUME ~Recovering PROVE buf' = buf
    OBVIOUS
  <2>1. committing /\ dlog[tail] = buf[lh[tail]]
    BY <1>1 DEF Recovering, CopiesInv
  <2>2. QED
    BY <1>1, <2>1 DEF Install, TypeOK
<1>6. QED
  BY <1>3, <1>4, <1>5 DEF Current

\* Erasing the transaction loses nothing: every block of it is at its home.
LEMMA EraseKeeps ==
    ASSUME IInv, IInv', Erase
    PROVE  Recovered' = Recovered /\ Current' = Current
<1> USE DEF IInv
<1>1. /\ stage = "erase" /\ dhead = lh /\ dhead' = <<>> /\ stage' \in {"done", "none"}
      /\ (stage' = "none" <=> ~committing) /\ dirty = {}
      /\ UNCHANGED <<home, dlog, buf, committing>>
  BY DEF Erase, HeaderInv, CacheInv, memory, header
<1>2. home' = Recovered'
  <2>1. Recovered' = [b \in Blocks |-> Recovered'[b]] /\ home' = [b \in Blocks |-> home'[b]]
    BY RecoveredIsNext DEF HeaderInv, TypeOK
  <2>2. \A b \in Blocks : Recovered'[b] = home'[b]
    <3>1. Logged(dhead') = {}
      BY <1>1 DEF Logged
    <3>2. QED
      BY <3>1, RecoveredIsNext DEF HeaderInv
  <2>3. QED
    BY <2>1, <2>2
<1>3. \A b \in Blocks : Recovered[b] = home[b]
  <2> TAKE b \in Blocks
  <2>1. CASE b \in Logged(dhead)
    <3>1. PICK j \in 1..Len(dhead) : b = dhead[j]
      BY <2>1 DEF Logged
    <3>2. Recovered[b] = dlog[j]
      BY <3>1, RecoveredIs DEF HeaderInv
    <3>3. QED
      BY <1>1, <3>1, <3>2 DEF CopiesInv
  <2>2. CASE b \notin Logged(dhead)
    BY <2>2, RecoveredIs DEF HeaderInv
  <2>3. QED
    BY <2>1, <2>2
<1>4. Recovered = home /\ buf = home
  <2>1. /\ Recovered = [b \in Blocks |-> Recovered[b]] /\ home = [b \in Blocks |-> home[b]]
        /\ buf = [b \in Blocks |-> buf[b]]
    BY RecoveredIs DEF HeaderInv, TypeOK
  <2>2. \A b \in Blocks : buf[b] = home[b]
    BY <1>1 DEF CacheInv
  <2>3. QED
    BY <1>3, <2>1, <2>2
<1>5. Recovered' = Recovered
  BY <1>1, <1>2, <1>4
<1>6. Current' = buf' /\ Current = buf
  BY <1>1, <1>4 DEF Current, Recovering
<1>7. QED
  BY <1>1, <1>5, <1>6

\* Every step of the log is one of the transactions, or changes nothing of them.
LEMMA StepImplements ==
    ASSUME IInv, IInv', [Next]_vars
    PROVE  [Trans!Next]_(Trans!vars)
<1> USE DEF IInv
<1>1. ASSUME UNCHANGED <<Current, Recovered, Active>>
      PROVE  [Trans!Next]_(Trans!vars)
  BY <1>1 DEF Trans!vars, Current
<1>2. ASSUME NEW p \in Procs, Call(p) \/ Kill(p) \/ \E b \in Blocks : LogWriteTest(p, b)
      PROVE  [Trans!Next]_(Trans!vars)
  <2>1. Active' = Active
    BY <1>2, ActiveStep
  <2>2. Recovered' = Recovered /\ Current' = Current
    BY <1>2, Seen DEF Call, Kill, LogWriteTest, disk, memory, header
  <2>3. QED
    BY <1>1, <2>1, <2>2
<1>3. ASSUME NEW p \in Procs, BeginOp(p)
      PROVE  [Trans!Next]_(Trans!vars)
  <2>1. Recovered' = Recovered /\ Current' = Current
    BY <1>3, Seen DEF BeginOp, disk, memory
  <2>2. CASE MustWait
    BY <1>1, <1>3, <2>1, <2>2, ActiveStep
  <2>3. CASE ~MustWait
    <3>1. p \notin Active /\ Active' = Active \cup {p}
      BY <1>3, <2>3, ActiveStep
    <3>2. Trans!Begin(p)
      BY <2>1, <3>1 DEF Trans!Begin, Current
    <3>3. QED
      BY <3>2 DEF Trans!Next
  <2>4. QED
    BY <2>2, <2>3
<1>4. ASSUME NEW p \in Procs, LogWrite(p)
      PROVE  [Trans!Next]_(Trans!vars)
  <2>1. p \in Active /\ Active' = Active /\ stage = "none" /\ blk[p] \in Blocks /\ op[p] \in Vals
    BY <1>4, ActiveStep DEF StageInv, CallsInv, LogWrite, TypeOK
  <2>2. UNCHANGED <<home, dlog, dhead, stage, committing>> /\ buf' = [buf EXCEPT ![blk[p]] = op[p]]
    BY <1>4 DEF LogWrite, disk, header
  <2>3. Recovered' = Recovered
    BY <2>2, Seen
  <2>4. Current = buf /\ Current' = buf'
    BY <2>1, <2>2 DEF Current, Recovering
  <2>5. Trans!Write(p)
    BY <2>1, <2>2, <2>3, <2>4 DEF Trans!Write, Current
  <2>6. QED
    BY <2>5 DEF Trans!Next
<1>5. ASSUME NEW p \in Procs, EndOp(p)
      PROVE  [Trans!Next]_(Trans!vars)
  <2>1. p \in Active /\ Active' = Active \ {p} /\ stage = "none"
    BY <1>5, ActiveStep DEF StageInv
  <2>2. UNCHANGED <<home, dlog, dhead, buf>> /\ stage' \in {"none", "done", "write_log"}
    BY <1>5, <2>1 DEF EndOp, disk, memory
  <2>3. Recovered' = Recovered /\ Current = buf /\ Current' = buf
    BY <2>1, <2>2, Seen DEF Current, Recovering
  <2>4. Trans!End(p)
    BY <2>1, <2>3 DEF Trans!End, Current
  <2>5. QED
    BY <2>4 DEF Trans!Next
<1>6. ASSUME NEW p \in Procs, CommitDone(p)
      PROVE  [Trans!Next]_(Trans!vars)
  <2>1. UNCHANGED <<home, dlog, dhead, buf>> /\ stage = "done" /\ stage' = "none"
    BY <1>6 DEF CommitDone, disk, memory
  <2>2. Recovered' = Recovered /\ Current' = Current /\ Active' = Active
    BY <1>6, <2>1, Seen, ActiveStep DEF Current, Recovering
  <2>3. QED
    BY <1>1, <2>2
<1>7. CASE WriteLog
  <2>1. /\ UNCHANGED <<home, dhead, buf, pc, committing>> /\ dhead = <<>> /\ stage = "write_log"
        /\ stage' \in {"write_log", "write_head"}
    BY <1>7 DEF WriteLog, HeaderInv, memory, header
  <2>2. Recovered' = Recovered
    BY <2>1 DEF Recovered
  <2>3. Current' = Current /\ Active' = Active
    BY <2>1 DEF Current, Recovering, Active
  <2>4. QED
    BY <1>1, <2>2, <2>3
<1>8. CASE WriteHead
  BY <1>8, HeadCommits DEF Trans!Next
<1>9. CASE Install \/ Erase
  <2>1. Active' = Active
    BY <1>9 DEF Install, Erase, Active
  <2>2. QED
    BY <1>1, <1>9, <2>1, InstallKeeps, EraseKeeps
<1>10. CASE ReadHead
  <2>1. /\ UNCHANGED <<home, dlog, dhead, committing, pc>> /\ ~committing
        /\ stage = "read_head" /\ stage' \in {"install", "erase"}
    BY <1>10 DEF ReadHead, StageInv, disk, header
  <2>2. Recovered' = Recovered /\ Current' = Current /\ Active' = Active
    BY <2>1, Seen DEF Current, Recovering, Active
  <2>3. QED
    BY <1>1, <2>2
<1>11. CASE Crash
  <2>1. UNCHANGED <<home, dlog, dhead>> /\ stage' = "read_head" /\ Active' = {}
    BY <1>11 DEF Crash, disk, Active
  <2>2. Recovered' = Recovered /\ Current' = Recovered
    BY <2>1, Seen DEF Current, Recovering
  <2>3. Trans!Crash
    BY <2>1, <2>2 DEF Trans!Crash, Current
  <2>4. QED
    BY <2>3 DEF Trans!Next
<1>12. ASSUME NEW b \in Blocks, Evict(b)
       PROVE  [Trans!Next]_(Trans!vars)
  <2>1. UNCHANGED <<home, dlog, dhead, stage, committing, pc>>
    BY <1>12 DEF Evict, disk, header
  <2>2. buf' = buf
    BY <1>12 DEF Evict, TypeOK, CacheInv
  <2>3. Recovered' = Recovered /\ Current' = Current /\ Active' = Active
    BY <2>1, <2>2, Seen DEF Active
  <2>4. QED
    BY <1>1, <2>3
<1>13. CASE UNCHANGED vars
  BY <1>1, <1>13, Seen DEF vars, Active
<1>14. QED
  BY <1>2, <1>3, <1>4, <1>5, <1>6, <1>7, <1>8, <1>9, <1>10, <1>11, <1>12, <1>13 DEF Next, Committer

\* The log implements atomic transactions, wherever the machine crashes and
\* however often, also during recovery, for any number of calls in a group.
THEOREM ImplementsTransactionsHolds == Spec => ImplementsTransactions
<1>1. Init => Trans!Init
  <2> SUFFICES ASSUME Init PROVE Trans!Init
    OBVIOUS
  <2>1. TypeOK
    BY InitIInv DEF IInv
  <2>2. Recovered = home /\ Active = {} /\ Current = buf /\ buf = home
    BY <2>1, RecoveredEmpty DEF Init, Active, Current, Recovering
  <2>3. QED
    BY <2>1, <2>2 DEF Trans!Init, TypeOK, Current
<1>2. IInv /\ IInv' /\ [Next]_vars => [Trans!Next]_(Trans!vars)
  BY StepImplements
<1>3. QED
  BY <1>1, <1>2, Invariant, PTL DEF Spec, ImplementsTransactions, Trans!Spec

=============================================================================
