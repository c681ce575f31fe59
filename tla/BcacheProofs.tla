---------------------------- MODULE BcacheProofs ----------------------------
(***************************************************************************)
(* Proofs about Bcache, for any number of processes, buffers and blocks,   *)
(* and for either driver.                                                  *)
(***************************************************************************)
EXTENDS Bcache, FiniteSetTheorems, WellFoundedInduction, TLAPS

-----------------------------------------------------------------------------
(* The inductive invariant. *)

\* The processes that refer to buffer b: they have it, or a call of theirs is
\* about it.
Users(b) == {p \in Procs : b \in held[p] \/ want[p] = b}

\* The buffers that p refers to.
Uses(p) == {b \in Bufs : b \in held[p] \/ want[p] = b}

\* The LRU list has every buffer, and none twice.
ListInv ==
    /\ \A b \in Bufs : \E i \in Bufs : list[i] = b
    /\ \A i, j \in Bufs : list[i] = list[j] => i = j

\* Where a call is, which buffer it is about, and who has that buffer's lock.
CallInv(p) ==
    /\ pc[p] = "run" <=> want[p] = 0
    /\ pc[p] \in {"lock", "locksleep", "test", "brelse"} => want[p] \notin held[p]
    /\ pc[p] \in {"test", "disksleep", "rwtest"} => owner[want[p]] = p
    /\ \A b \in held[p] : owner[b] = p
CallsInv == \A p \in Procs : CallInv(p)

\* A block has one buffer, and what is used or valid has a block.
BlockInv ==
    /\ \A b, c \in Bufs : blockno[b] = blockno[c] /\ blockno[b] \in Blocks => b = c
    /\ \A p \in Procs : want[p] # 0 => blockno[want[p]] \in Blocks
    /\ \A b \in valid : blockno[b] \in Blocks
    /\ \A p \in Procs : held[p] \subseteq valid
    /\ dirty \subseteq valid

\* The count of a buffer is the number of its users.
CountInv == \A b \in Bufs : refcnt[b] = Cardinality(Users(b))

\* Every request belongs to a process that waits in iderw(), and to one only.
QueueInv ==
    /\ driver = "memide" => idequeue = <<>>
    /\ \A i, j \in 1..Len(idequeue) : idequeue[i] = idequeue[j] => i = j
    /\ \A i \in 1..Len(idequeue) :
         /\ idequeue[i] \in dirty \/ idequeue[i] \notin valid
         /\ \E p \in Procs : want[p] = idequeue[i] /\ pc[p] \in {"disksleep", "rwtest"}

\* The drive works on the first request, with the data the buffer has now.
DriveInv ==
    /\ idequeue = <<>> <=> drive = IDLE
    /\ idequeue # <<>> =>
         /\ drive.blk = blockno[idequeue[1]]
         /\ drive.write <=> idequeue[1] \in dirty
         /\ drive.write => drive.data = data[idequeue[1]]
         /\ drive.write /\ drive.done => disk[drive.blk] = drive.data

\* A buffer that need not be written has what the disk has.
CleanInv ==
    ~ReadErrors => \A b \in valid : b \notin dirty => data[b] = disk[blockno[b]]

\* Whether the cache is too small for its callers, and is all in use.
TooSmall == NBUF < MaxPinned + MaxHeld * Cardinality(Procs)
Full == TooSmall /\ Bufs \subseteq Pinned \cup InUse

\* How many buffers are pinned and used; the only panic is for want of buffers.
RoomInv ==
    /\ Cardinality(Pinned) <= MaxPinned
    /\ \A p \in Procs : Cardinality(Uses(p)) <= MaxHeld
    /\ panicked => Full

IInv ==
    /\ TypeOK /\ ListInv /\ CallsInv /\ BlockInv /\ CountInv
    /\ QueueInv /\ DriveInv /\ CleanInv /\ RoomInv

-----------------------------------------------------------------------------
(* The list. *)

\* The buffers are a finite set.
LEMMA BufsFinite == Bufs \in SUBSET Nat /\ IsFiniteSet(Bufs) /\ Cardinality(Bufs) = NBUF
<1>1. NBUF \in Nat \ {0}
  BY CacheAssumption
<1>2. QED
  BY <1>1, FS_Interval DEF Bufs

\* A set of naturals that is not empty has a least element.
LEMMA Least ==
    ASSUME NEW T \in SUBSET Nat, T # {}
    PROVE  \E x \in T : \A y \in T : x <= y
<1>1. PICK x \in T : \A y \in T : ~(<<y, x>> \in OpToRel(<, Nat))
  BY WFMin, NatLessThanWellFounded
<1>2. \A y \in T : ~(y < x)
  BY <1>1 DEF OpToRel
<1>3. QED
  BY <1>2

\* A set of buffers has a first and a last element in the list.
LEMMA RecentIn ==
    ASSUME NEW S \in SUBSET Bufs, S # {}, ListInv, list \in [Bufs -> Bufs]
    PROVE  MostRecent(S) \in S /\ LeastRecent(S) \in S
<1>1. NBUF \in Nat \ {0}
  BY CacheAssumption
<1> DEFINE T == {i \in Bufs : list[i] \in S}
           U == {j \in 0..NBUF : list[NBUF - j] \in S /\ NBUF - j \in Bufs}
<1>2. T # {} /\ T \in SUBSET Nat
  <2>1. PICK c \in S : TRUE
    OBVIOUS
  <2>2. PICK i \in Bufs : list[i] = c
    BY DEF ListInv
  <2>3. QED
    BY <2>1, <2>2, BufsFinite
<1>3. PICK x \in T : \A y \in T : x <= y
  BY <1>2, Least
<1>4. \A j \in 1..(x - 1) : list[j] \notin S
  BY <1>1, <1>3 DEF Bufs
<1>5. MostRecent(S) \in S
  BY <1>3, <1>4 DEF MostRecent
<1>6. U # {} /\ U \in SUBSET Nat
  <2>1. PICK i \in Bufs : list[i] \in S
    BY <1>2
  <2>2. NBUF - i \in 0..NBUF /\ NBUF - (NBUF - i) = i
    BY <1>1 DEF Bufs
  <2>3. QED
    BY <1>1, <2>1, <2>2
<1>7. PICK u \in U : \A y \in U : u <= y
  BY <1>6, Least
<1>8. NBUF - u \in Bufs /\ list[NBUF - u] \in S
  OBVIOUS
<1>9. ASSUME NEW j \in ((NBUF - u) + 1)..NBUF
      PROVE  list[j] \notin S
  <2>1. u \in Nat /\ j \in Nat /\ NBUF - j \in 0..NBUF /\ NBUF - j < u /\ NBUF - (NBUF - j) = j /\ j \in Bufs
    BY <1>1, <1>8 DEF Bufs
  <2>2. NBUF - j \notin U
    BY <2>1, <1>7, <1>1
  <2>3. QED
    BY <2>1, <2>2
<1>10. LeastRecent(S) \in S
  BY <1>8, <1>9 DEF LeastRecent
<1>11. QED
  BY <1>5, <1>10

\* Moving a buffer to the front leaves a list of the same buffers.
LEMMA MovedList ==
    ASSUME NEW b \in Bufs, ListInv, list \in [Bufs -> Bufs], list' = MovedToFront(b)
    PROVE  ListInv' /\ list' \in [Bufs -> Bufs]
<1>1. NBUF \in Nat \ {0}
  BY CacheAssumption
<1> DEFINE at == CHOOSE i \in Bufs : list[i] = b
<1>2. at \in Bufs /\ list[at] = b
  BY DEF ListInv
<1>3. list' = [i \in Bufs |-> IF i = 1 THEN b ELSE IF i <= at THEN list[i - 1] ELSE list[i]]
  BY DEF MovedToFront
<1> HIDE DEF at
<1>4. list' \in [Bufs -> Bufs]
  <2>1. ASSUME NEW i \in Bufs
        PROVE  (IF i = 1 THEN b ELSE IF i <= at THEN list[i - 1] ELSE list[i]) \in Bufs
    <3>1. i # 1 => i - 1 \in Bufs
      BY <1>1 DEF Bufs
    <3>2. QED
      BY <3>1
  <2>2. QED
    BY <1>3, <2>1
<1>5. \A i, j \in Bufs : list'[i] = list'[j] => i = j
  <2> SUFFICES ASSUME NEW i \in Bufs, NEW j \in Bufs, list'[i] = list'[j], i < j PROVE FALSE
    BY <1>1 DEF Bufs
  <2>1. \A x, y \in Bufs : list[x] = list[y] => x = y
    BY DEF ListInv
  <2>2. i \in Nat /\ j \in Nat /\ at \in Nat /\ j # 1
    BY <1>1, <1>2 DEF Bufs
  <2>3. j - 1 \in Bufs /\ (i # 1 => i - 1 \in Bufs)
    BY <1>1 DEF Bufs
  <2>4. list'[j] = IF j <= at THEN list[j - 1] ELSE list[j]
    BY <1>3, <2>2
  <2>5. CASE i = 1
    <3>1. list'[i] = b
      BY <1>3, <2>5
    <3>2. QED
      BY <1>2, <2>1, <2>2, <2>3, <2>4, <3>1
  <2>6. CASE i # 1
    <3>1. list'[i] = IF i <= at THEN list[i - 1] ELSE list[i]
      BY <1>3, <2>6
    <3>2. QED
      BY <1>2, <2>1, <2>2, <2>3, <2>4, <2>6, <3>1
  <2>7. QED
    BY <2>5, <2>6
<1>6. ASSUME NEW c \in Bufs PROVE \E i \in Bufs : list'[i] = c
  <2>1. CASE c = b
    BY <1>1, <1>3, <2>1 DEF Bufs
  <2>2. CASE c # b
    <3>1. PICK k \in Bufs : list[k] = c
      BY DEF ListInv
    <3>2. k # at
      BY <3>1, <2>2, <1>2
    <3>3. CASE k < at
      <4>1. k + 1 \in Bufs /\ k + 1 # 1 /\ k + 1 <= at /\ (k + 1) - 1 = k
        BY <1>1, <1>2, <3>3 DEF Bufs
      <4>2. QED
        BY <1>3, <3>1, <4>1
    <3>4. CASE k > at
      <4>1. k # 1 /\ ~(k <= at)
        BY <1>1, <1>2, <3>4 DEF Bufs
      <4>2. QED
        BY <1>3, <3>1, <4>1
    <3>5. QED
      BY <3>2, <3>3, <3>4, <1>1, <1>2 DEF Bufs
  <2>3. QED
    BY <2>1, <2>2
<1>7. QED
  BY <1>4, <1>5, <1>6 DEF ListInv
-----------------------------------------------------------------------------
(* Types. *)

\* What the proofs use of the constants.
LEMMA Constants ==
    /\ NBUF \in Nat /\ NBUF > 0 /\ 0 \notin Bufs /\ 0 \notin Blocks /\ NOBODY \notin Procs
    /\ ZERO \in Data /\ IsFiniteSet(Procs)
<1>1. 0 \notin Bufs
  BY CacheAssumption DEF Bufs
<1>2. QED
  BY <1>1, CacheAssumption DEF NOBODY, ZERO

\* What idestart() gives the drive is a request.
LEMMA StartedType ==
    ASSUME TypeOK, NEW b \in Bufs, blockno[b] \in Blocks, NEW w \in BOOLEAN, NEW v \in Data
    PROVE  /\ Started(b, w, v) \in Requests
           /\ Started(b, w, v) # IDLE
           /\ Started(b, w, v).blk = blockno[b] /\ Started(b, w, v).data = v
           /\ Started(b, w, v).write = w /\ Started(b, w, v).done = FALSE
<1>1. Started(b, w, v).blk = blockno[b] /\ IDLE.blk = NOBLOCK
  BY DEF Started, IDLE
<1>2. Started(b, w, v) # IDLE
  BY <1>1, Constants DEF NOBLOCK
<1>3. QED
  BY <1>1, <1>2 DEF Started, Requests

\* The buffer that bget() finds has the block it looks for.
LEMMA HitBuffer ==
    ASSUME TypeOK, ListInv, NEW k, Cached(k) # {}
    PROVE  MostRecent(Cached(k)) \in Bufs /\ blockno[MostRecent(Cached(k))] = k
<1>1. Cached(k) \in SUBSET Bufs
  BY DEF Cached
<1>2. MostRecent(Cached(k)) \in Cached(k)
  BY <1>1, RecentIn DEF TypeOK
<1>3. QED
  BY <1>2 DEF Cached

\* The buffer that bget() takes has no users and is not pinned.
LEMMA RecycledBuffer ==
    ASSUME TypeOK, ListInv, Recyclable # {}
    PROVE  /\ LeastRecent(Recyclable) \in Bufs /\ refcnt[LeastRecent(Recyclable)] = 0
           /\ LeastRecent(Recyclable) \notin dirty
<1>1. Recyclable \in SUBSET Bufs
  BY DEF Recyclable
<1>2. LeastRecent(Recyclable) \in Recyclable
  BY <1>1, RecentIn DEF TypeOK
<1>3. QED
  BY <1>2 DEF Recyclable

\* The buffer of a call is a buffer with a block.
LEMMA WantedBuffer ==
    ASSUME TypeOK, CallsInv, BlockInv, NEW p \in Procs, pc[p] # "run"
    PROVE  want[p] \in Bufs /\ blockno[want[p]] \in Blocks
<1>1. want[p] # 0 /\ want[p] \in Bufs \cup {0}
  BY DEF TypeOK, CallsInv, CallInv
<1>2. QED
  BY <1>1 DEF BlockInv

\* A buffer that somebody has is valid and has a block.
LEMMA HeldBuffer ==
    ASSUME TypeOK, CallsInv, BlockInv, NEW p \in Procs, NEW b \in held[p]
    PROVE  b \in Bufs /\ b \in valid /\ blockno[b] \in Blocks /\ owner[b] = p
BY DEF TypeOK, CallsInv, CallInv, BlockInv

\* The parts of a state that iderw() changes keep their types.
LEMMA RwType ==
    ASSUME TypeOK, NEW p \in Procs, NEW b \in Bufs, blockno[b] \in Blocks,
           NEW w \in BOOLEAN, NEW v \in Data,
           IdeRw(p, b, w, v) \/ MemRw(p, b, w, v)
    PROVE  /\ driver' \in Drivers /\ idequeue' \in Seq(Bufs)
           /\ drive' \in Requests \cup {IDLE}
           /\ disk' \in [Blocks -> Data] /\ valid' \subseteq Bufs
           /\ pc' \in [Procs -> Places]
           /\ want' \in [Procs -> Bufs \cup {0}] /\ held' \in [Procs -> SUBSET Bufs]
<1>1. CASE IdeRw(p, b, w, v)
  <2>1. UNCHANGED <<driver, disk, valid, held>> /\ idequeue' = Append(idequeue, b)
    BY <1>1 DEF IdeRw
  <2>2. drive' = drive \/ drive' = Started(b, w, v)
    BY <1>1 DEF IdeRw
  <2>3. drive' \in Requests \cup {IDLE}
    <3>1. Started(b, w, v) \in Requests
      BY StartedType
    <3>2. drive \in Requests \cup {IDLE}
      BY DEF TypeOK
    <3>3. QED
      BY <2>2, <3>1, <3>2
  <2>4. pc' = [pc EXCEPT ![p] = "disksleep"] /\ want' = [want EXCEPT ![p] = b]
    BY <1>1 DEF IdeRw, Goto
  <2>5. QED
    BY <2>1, <2>3, <2>4 DEF TypeOK, Places
<1>2. CASE MemRw(p, b, w, v)
  <2>1. UNCHANGED <<driver, idequeue, drive>> /\ valid' = valid \cup {b}
    BY <1>2 DEF MemRw
  <2>2. disk' = disk \/ disk' = [disk EXCEPT ![blockno[b]] = v]
    BY <1>2 DEF MemRw
  <2>3. pc' = [pc EXCEPT ![p] = "run"] /\ want' = [want EXCEPT ![p] = 0]
    BY <1>2 DEF MemRw, Goto, Return
  <2>4. held' = [held EXCEPT ![p] = @ \cup {b}]
    BY <1>2 DEF MemRw
  <2>5. disk' \in [Blocks -> Data]
    BY <2>2 DEF TypeOK
  <2>6. pc' \in [Procs -> Places] /\ want' \in [Procs -> Bufs \cup {0}]
    BY <2>3 DEF TypeOK, Places
  <2>7. held' \in [Procs -> SUBSET Bufs]
    BY <2>4 DEF TypeOK
  <2>8. QED
    BY <2>1, <2>5, <2>6, <2>7 DEF TypeOK
<1>3. QED
  BY <1>1, <1>2

\* Every step keeps the types, and the list a list of all buffers.
LEMMA TypeStep ==
    ASSUME TypeOK, ListInv, CallsInv, BlockInv, CountInv, QueueInv, DriveInv, Running
    PROVE  TypeOK' /\ ListInv'
<1>1. \A p \in Procs : pc[p] # "run" => want[p] \in Bufs /\ blockno[want[p]] \in Blocks
  BY WantedBuffer
<1>2. \A p \in Procs : \A b \in held[p] : b \in Bufs /\ blockno[b] \in Blocks
  BY HeldBuffer
<1>3. ASSUME UNCHANGED list PROVE ListInv'
  BY <1>3 DEF ListInv
<1>4. ASSUME NEW p \in Procs, NEW k \in Blocks, BgetHit(p, k)
      PROVE  TypeOK' /\ ListInv'
  <2> DEFINE b == MostRecent(Cached(k))
  <2>1. b \in Bufs
    BY <1>4, HitBuffer DEF BgetHit
  <2>2. /\ refcnt' = [refcnt EXCEPT ![b] = @ + 1] /\ want' = [want EXCEPT ![p] = b]
        /\ pc' = [pc EXCEPT ![p] = "lock"]
        /\ UNCHANGED <<blockno, list, data, valid, dirty, owner, device, held, panicked>>
    BY <1>4 DEF BgetHit, Goto
  <2> HIDE DEF b
  <2>3. QED
    BY <2>1, <2>2, <1>3 DEF TypeOK, device, Places
<1>5. ASSUME NEW p \in Procs, NEW k \in Blocks, BgetRecycle(p, k)
      PROVE  TypeOK' /\ ListInv'
  <2>1. CASE Recyclable = {}
    BY <1>5, <1>3, <2>1 DEF BgetRecycle, Panic, TypeOK, cache, device
  <2>2. CASE Recyclable # {}
    <3> DEFINE b == LeastRecent(Recyclable)
    <3>1. b \in Bufs
      BY <2>2, RecycledBuffer
    <3>2. /\ blockno' = [blockno EXCEPT ![b] = k] /\ refcnt' = [refcnt EXCEPT ![b] = 1]
          /\ valid' = valid \ {b} /\ dirty' = dirty \ {b} /\ want' = [want EXCEPT ![p] = b]
          /\ pc' = [pc EXCEPT ![p] = "lock"]
          /\ UNCHANGED <<list, data, owner, device, held, panicked>>
      BY <1>5, <2>2 DEF BgetRecycle, Goto
    <3> HIDE DEF b
    <3>3. QED
      BY <3>1, <3>2, <1>3 DEF TypeOK, device, Places
  <2>3. QED
    BY <2>1, <2>2
<1>6. ASSUME NEW p \in Procs, AcquireSleep(p)
      PROVE  TypeOK' /\ ListInv'
  <2>1. want[p] \in Bufs
    BY <1>1, <1>6 DEF AcquireSleep
  <2>2. /\ owner' = [owner EXCEPT ![want[p]] = p] \/ owner' = owner
        /\ pc' = [pc EXCEPT ![p] = "test"] \/ pc' = [pc EXCEPT ![p] = "locksleep"]
        /\ UNCHANGED <<cache, data, valid, dirty, device, want, held, panicked>>
    BY <1>6 DEF AcquireSleep, Goto
  <2>3. owner' \in [Bufs -> Procs \cup {NOBODY}] /\ pc' \in [Procs -> Places]
    <3>1. [owner EXCEPT ![want[p]] = p] \in [Bufs -> Procs \cup {NOBODY}]
      BY <2>1 DEF TypeOK
    <3>2. /\ [pc EXCEPT ![p] = "test"] \in [Procs -> Places]
          /\ [pc EXCEPT ![p] = "locksleep"] \in [Procs -> Places]
      BY DEF TypeOK, Places
    <3>3. owner \in [Bufs -> Procs \cup {NOBODY}]
      BY DEF TypeOK
    <3>4. QED
      BY <2>2, <3>1, <3>2, <3>3
  <2>4. QED
    BY <1>3, <2>2, <2>3 DEF TypeOK, cache, device
<1>7. ASSUME NEW p \in Procs, NEW b \in Bufs, Brelse(p, b)
      PROVE  TypeOK' /\ ListInv'
  <2>1. Woken(b, "locksleep", "lock") \in [Procs -> Places]
    BY DEF Woken, TypeOK, Places
  <2>2. QED
    BY <1>3, <1>7, <2>1 DEF Brelse, TypeOK, cache, device, NotHeld, Places
<1>8. ASSUME NEW p \in Procs, BrelseRef(p)
      PROVE  TypeOK' /\ ListInv'
  <2> DEFINE b == want[p]
  <2>1. b \in Bufs
    BY <1>1, <1>8 DEF BrelseRef
  <2>2. refcnt[b] \in Nat /\ refcnt[b] > 0
    <3>1. p \in Users(b) /\ Users(b) \in SUBSET Procs
      BY DEF Users
    <3>2. IsFiniteSet(Users(b)) /\ Cardinality(Users(b)) \in Nat
      BY <3>1, Constants, FS_Subset, FS_CardinalityType
    <3>3. Cardinality(Users(b)) # 0
      BY <3>1, <3>2, FS_EmptySet
    <3>4. QED
      BY <2>1, <3>2, <3>3 DEF CountInv
  <2>3. /\ refcnt' = [refcnt EXCEPT ![b] = @ - 1]
        /\ list' = MovedToFront(b) \/ list' = list
        /\ pc' = [pc EXCEPT ![p] = "run"] /\ want' = [want EXCEPT ![p] = 0]
        /\ UNCHANGED <<blockno, data, valid, dirty, owner, device, held, panicked>>
    BY <1>8 DEF BrelseRef, Unreferenced, Return, Goto
  <2> HIDE DEF b
  <2>4. ListInv' /\ list' \in [Bufs -> Bufs]
    BY <1>3, <2>1, <2>3, MovedList DEF TypeOK
  <2>5. refcnt' \in [Bufs -> Nat]
    BY <2>1, <2>2, <2>3 DEF TypeOK
  <2>6. QED
    BY <2>1, <2>3, <2>4, <2>5 DEF TypeOK, device, Places
<1>9. ASSUME NEW p \in Procs, BreadCached(p)
      PROVE  TypeOK' /\ ListInv'
  BY <1>1, <1>3, <1>9 DEF BreadCached, Return, Goto, TypeOK, cache, device, Places
<1>10. ASSUME NEW p \in Procs, BreadDisk(p)
       PROVE  TypeOK' /\ ListInv'
  <2>1. want[p] \in Bufs /\ blockno[want[p]] \in Blocks
    BY <1>1, <1>10 DEF BreadDisk
  <2>2. data' \in [Bufs -> Data] /\ UNCHANGED <<blockno, refcnt, list, dirty, owner>> /\ panicked' \in BOOLEAN
    BY <1>10, <2>1 DEF BreadDisk, TypeOK, cache, NotHeld
  <2>3. \E v \in Data : IdeRw(p, want[p], FALSE, v) \/ MemRw(p, want[p], FALSE, v)
    BY <1>10, <2>1, <2>2 DEF BreadDisk, TypeOK
  <2>4. QED
    BY <1>3, <2>1, <2>2, <2>3, RwType DEF TypeOK
<1>11. ASSUME NEW p \in Procs, NEW b \in Bufs, NEW v \in Data, Bwrite(p, b, v)
       PROVE  TypeOK' /\ ListInv'
  <2>1. blockno[b] \in Blocks
    BY <1>2, <1>11 DEF Bwrite
  <2>2. /\ data' \in [Bufs -> Data] /\ UNCHANGED <<blockno, refcnt, list, owner>>
        /\ panicked' \in BOOLEAN /\ dirty' \subseteq Bufs
    BY <1>11, <2>1 DEF Bwrite, TypeOK, cache, NotHeld
  <2>3. IdeRw(p, b, TRUE, v) \/ MemRw(p, b, TRUE, v)
    BY <1>11 DEF Bwrite
  <2>4. QED
    BY <1>3, <2>1, <2>2, <2>3, RwType DEF TypeOK
<1>12. ASSUME NEW p \in Procs, NEW b \in Bufs, NEW v \in Data, LogWrite(p, b, v)
       PROVE  TypeOK' /\ ListInv'
  BY <1>3, <1>12 DEF LogWrite, TypeOK, cache, device
<1>13. ASSUME NEW p \in Procs, RwTest(p)
       PROVE  TypeOK' /\ ListInv'
  <2>1. want[p] \in Bufs
    BY <1>1, <1>13 DEF RwTest
  <2>2. /\ pc' = [pc EXCEPT ![p] = "run"] \/ pc' = [pc EXCEPT ![p] = "disksleep"]
        /\ want' = [want EXCEPT ![p] = 0] \/ want' = want
        /\ held' = [held EXCEPT ![p] = @ \cup {want[p]}] \/ held' = held
        /\ UNCHANGED <<cache, data, valid, dirty, owner, device, panicked>>
    BY <1>13 DEF RwTest, Return, Goto
  <2>3. pc' \in [Procs -> Places] /\ want' \in [Procs -> Bufs \cup {0}]
    BY <2>2 DEF TypeOK, Places
  <2>4. held' \in [Procs -> SUBSET Bufs]
    <3>1. [held EXCEPT ![p] = @ \cup {want[p]}] \in [Procs -> SUBSET Bufs]
      BY <2>1 DEF TypeOK
    <3>2. held \in [Procs -> SUBSET Bufs]
      BY DEF TypeOK
    <3>3. QED
      BY <2>2, <3>1, <3>2
  <2>5. QED
    BY <1>3, <2>2, <2>3, <2>4 DEF TypeOK, cache, device
<1>14. CASE DriveDone
  <2>1. drive \in Requests
    BY <1>14 DEF DriveDone, TypeOK
  <2>2. drive' \in Requests
    BY <1>14, <2>1 DEF DriveDone, Requests
  <2>3. disk' \in [Blocks -> Data]
    BY <1>14, <2>1 DEF DriveDone, TypeOK, Requests
  <2>4. QED
    BY <1>3, <1>14, <2>2, <2>3 DEF DriveDone, TypeOK, cache
<1>15. CASE IdeIntr
  <2> DEFINE b == Head(idequeue)
  <2>1. idequeue # <<>> /\ b \in Bufs /\ drive \in Requests /\ drive.blk \in Blocks
    BY <1>15 DEF IdeIntr, DriveInv, TypeOK, Requests
  <2>2. idequeue' \in Seq(Bufs)
    BY <1>15, <2>1 DEF IdeIntr, TypeOK
  <2>3. data' \in [Bufs -> Data] /\ valid' \subseteq Bufs /\ dirty' \subseteq Bufs
    <3>1. data' = [data EXCEPT ![b] = disk[drive.blk]] \/ data' = data
      BY <1>15 DEF IdeIntr
    <3>2. [data EXCEPT ![b] = disk[drive.blk]] \in [Bufs -> Data] /\ data \in [Bufs -> Data]
      BY <2>1 DEF TypeOK
    <3>3. valid' = valid \cup {b} /\ dirty' = dirty \ {b}
      BY <1>15 DEF IdeIntr
    <3>4. QED
      BY <2>1, <3>1, <3>2, <3>3 DEF TypeOK
  <2>4. pc' \in [Procs -> Places]
    BY <1>15 DEF IdeIntr, Woken, TypeOK, Places
  <2>5. drive' \in Requests \cup {IDLE}
    <3> DEFINE q == Tail(idequeue)
    <3>1. CASE q = <<>>
      BY <1>15, <3>1 DEF IdeIntr, NextRequest
    <3>2. CASE q # <<>>
      <4>1. Head(q) = idequeue[2] /\ 2 \in 1..Len(idequeue) /\ Head(q) \in Bufs
        BY <2>1, <3>2 DEF TypeOK
      <4>2. PICK p \in Procs : want[p] = Head(q) /\ pc[p] \in {"disksleep", "rwtest"}
        BY <4>1 DEF QueueInv
      <4>3. blockno[Head(q)] \in Blocks
        BY <1>1, <4>2
      <4>4. Started(Head(q), Head(q) \in dirty, data[Head(q)]) \in Requests
        <5>1. data[Head(q)] \in Data
          BY <4>1 DEF TypeOK
        <5> DEFINE w == Head(q) \in dirty
                   v == data[Head(q)]
                   h == Head(q)
        <5>2. w \in BOOLEAN
          OBVIOUS
        <5> SUFFICES Started(h, w, v) \in Requests
          OBVIOUS
        <5>3. h \in Bufs /\ blockno[h] \in Blocks /\ v \in Data
          BY <4>1, <4>3, <5>1
        <5> HIDE DEF w, v, h, q
        <5>4. QED
          BY <5>2, <5>3, StartedType
      <4>5. QED
        BY <1>15, <3>2, <4>4 DEF IdeIntr, NextRequest
    <3>3. QED
      BY <3>1, <3>2
  <2>6. UNCHANGED <<cache, owner, driver, disk, want, held, panicked>>
    BY <1>15 DEF IdeIntr
  <2>7. QED
    BY <1>3, <2>2, <2>3, <2>4, <2>5, <2>6 DEF TypeOK, cache
<1>16. ASSUME NEW p \in Procs, Kill(p)
       PROVE  TypeOK' /\ ListInv'
  BY <1>3, <1>16 DEF Kill, Goto, TypeOK, cache, device, Places
<1>17. QED
  BY <1>4, <1>5, <1>6, <1>7, <1>8, <1>9, <1>10, <1>11, <1>12, <1>13, <1>14, <1>15, <1>16
     DEF Running, Call, Step

-----------------------------------------------------------------------------
(* Users and calls. *)

\* The users of a buffer are counted.
LEMMA UsersFinite ==
    ASSUME NEW b
    PROVE  /\ IsFiniteSet(Users(b)) /\ Cardinality(Users(b)) \in Nat
           /\ Cardinality(Users(b)) = 0 <=> Users(b) = {}
<1>1. Users(b) \in SUBSET Procs
  BY DEF Users
<1>2. IsFiniteSet(Users(b))
  BY <1>1, Constants, FS_Subset
<1>3. QED
  BY <1>2, FS_CardinalityType, FS_EmptySet

\* Nobody refers to the buffer that bget() takes.
LEMMA RecycledUnused ==
    ASSUME TypeOK, ListInv, CountInv, Recyclable # {}, NEW p \in Procs
    PROVE  LeastRecent(Recyclable) \notin held[p] /\ want[p] # LeastRecent(Recyclable)
<1> DEFINE b == LeastRecent(Recyclable)
<1>1. b \in Bufs /\ refcnt[b] = 0
  BY RecycledBuffer
<1>2. Users(b) = {}
  BY <1>1, UsersFinite DEF CountInv
<1>3. QED
  BY <1>2 DEF Users

\* bget() is not asked for a block that the caller has.
LEMMA HitUnused ==
    ASSUME TypeOK, ListInv, CallsInv, NEW p \in Procs, NEW k \in Blocks, MayAsk(p, k), Cached(k) # {}
    PROVE  MostRecent(Cached(k)) \notin held[p] /\ want[p] = 0
<1>1. blockno[MostRecent(Cached(k))] = k /\ k \in Nat
  BY HitBuffer, CacheAssumption
<1>2. \A b \in held[p] : blockno[b] < k
  BY DEF MayAsk
<1>3. want[p] = 0
  BY DEF MayAsk, CallsInv, CallInv
<1>4. QED
  BY <1>1, <1>2, <1>3

\* What a call does to its process: bget() begins one, brelse() and the reads
\* and writes end one.
LEMMA CallsStep ==
    ASSUME TypeOK, ListInv, CallsInv, BlockInv, CountInv, QueueInv, DriveInv, Running
    PROVE  CallsInv'
<1> SUFFICES ASSUME NEW q \in Procs PROVE CallInv(q)'
  BY DEF CallsInv
<1>1. CallInv(q) /\ \A p \in Procs : CallInv(p)
  BY DEF CallsInv
<1>2. \A p \in Procs : pc[p] # "run" => want[p] \in Bufs
  BY WantedBuffer
<1>3. pc \in [Procs -> Places] /\ want \in [Procs -> Bufs \cup {0}] /\ held \in [Procs -> SUBSET Bufs]
      /\ owner \in [Bufs -> Procs \cup {NOBODY}] /\ 0 \notin Bufs /\ NOBODY \notin Procs
  BY Constants DEF TypeOK
<1>4. ASSUME UNCHANGED <<pc, want, held, owner>> PROVE CallInv(q)'
  BY <1>1, <1>4 DEF CallInv
<1>5. ASSUME NEW p \in Procs, NEW k \in Blocks, BgetHit(p, k)
      PROVE  CallInv(q)'
  <2> DEFINE b == MostRecent(Cached(k))
  <2>1. b \in Bufs /\ b \notin held[p] /\ want[p] = 0
    BY <1>5, HitBuffer, HitUnused DEF BgetHit
  <2>2. /\ want' = [want EXCEPT ![p] = b] /\ pc' = [pc EXCEPT ![p] = "lock"]
        /\ UNCHANGED <<owner, held>>
    BY <1>5 DEF BgetHit, Goto
  <2> HIDE DEF b
  <2>3. QED
    BY <1>1, <1>3, <2>1, <2>2 DEF CallInv
<1>6. ASSUME NEW p \in Procs, NEW k \in Blocks, BgetRecycle(p, k)
      PROVE  CallInv(q)'
  <2>1. CASE Recyclable = {}
    BY <1>6, <1>4, <2>1 DEF BgetRecycle, Panic
  <2>2. CASE Recyclable # {}
    <3> DEFINE b == LeastRecent(Recyclable)
    <3>1. b \in Bufs /\ b \notin held[p]
      BY <2>2, RecycledBuffer, RecycledUnused
    <3>2. /\ want' = [want EXCEPT ![p] = b] /\ pc' = [pc EXCEPT ![p] = "lock"]
          /\ UNCHANGED <<owner, held>>
      BY <1>6, <2>2 DEF BgetRecycle, Goto
    <3> HIDE DEF b
    <3>3. QED
      BY <1>1, <1>3, <3>1, <3>2 DEF CallInv
  <2>3. QED
    BY <2>1, <2>2
<1>7. ASSUME NEW p \in Procs, AcquireSleep(p)
      PROVE  CallInv(q)'
  <2>1. want[p] \in Bufs /\ pc[p] = "lock" /\ UNCHANGED <<want, held>>
    BY <1>2, <1>7 DEF AcquireSleep
  <2>2. CASE owner[want[p]] = NOBODY
    <3>1. owner' = [owner EXCEPT ![want[p]] = p] /\ pc' = [pc EXCEPT ![p] = "test"]
      BY <1>7, <2>2 DEF AcquireSleep, Goto
    <3>2. QED
      BY <1>1, <1>2, <1>3, <2>1, <2>2, <3>1 DEF CallInv
  <2>3. CASE owner[want[p]] # NOBODY
    <3>1. owner' = owner /\ pc' = [pc EXCEPT ![p] = "locksleep"]
      BY <1>7, <2>3 DEF AcquireSleep, Goto
    <3>2. QED
      BY <1>1, <1>3, <2>1, <3>1 DEF CallInv
  <2>4. QED
    BY <2>2, <2>3
<1>8. ASSUME NEW p \in Procs, NEW b \in Bufs, Brelse(p, b)
      PROVE  CallInv(q)'
  <2>1. pc[p] = "run" /\ b \in held[p] /\ owner[b] = p
    BY <1>1, <1>8 DEF Brelse, CallInv
  <2>2. /\ owner' = [owner EXCEPT ![b] = NOBODY]
        /\ want' = [want EXCEPT ![p] = b] /\ held' = [held EXCEPT ![p] = @ \ {b}]
    BY <1>8 DEF Brelse
  <2>3. pc'[p] = "brelse"
    BY <1>8 DEF Brelse, Woken
  <2>4. q # p => pc'[q] = pc[q] \/ (pc[q] = "locksleep" /\ pc'[q] = "lock")
    BY <1>8 DEF Brelse, Woken
  <2>5. CASE q = p
    BY <1>1, <1>3, <2>1, <2>2, <2>3, <2>5 DEF CallInv
  <2>6. CASE q # p
    <3>1. want'[q] = want[q] /\ held'[q] = held[q]
      BY <1>3, <2>2, <2>6
    <3>2. \A c \in Bufs : owner[c] = q => owner'[c] = q
      BY <1>3, <2>1, <2>2, <2>6
    <3>3. QED
      BY <1>1, <1>2, <1>3, <2>4, <2>6, <3>1, <3>2 DEF CallInv
  <2>7. QED
    BY <2>5, <2>6
<1>9. ASSUME NEW p \in Procs, BrelseRef(p)
      PROVE  CallInv(q)'
  <2>1. pc' = [pc EXCEPT ![p] = "run"] /\ want' = [want EXCEPT ![p] = 0] /\ UNCHANGED <<owner, held>>
    BY <1>9 DEF BrelseRef, Return, Goto
  <2>2. QED
    BY <1>1, <1>3, <2>1 DEF CallInv
<1>10. ASSUME NEW p \in Procs, pc[p] \in {"test", "rwtest"},
             pc' = [pc EXCEPT ![p] = "run"], want' = [want EXCEPT ![p] = 0],
             held' = [held EXCEPT ![p] = @ \cup {want[p]}], UNCHANGED owner
      PROVE  CallInv(q)'
  BY <1>1, <1>2, <1>3, <1>10 DEF CallInv
<1>11. ASSUME NEW p \in Procs, BreadCached(p)
       PROVE  CallInv(q)'
  BY <1>10, <1>11 DEF BreadCached, Return, Goto
<1>12. ASSUME NEW p \in Procs, BreadDisk(p)
       PROVE  CallInv(q)'
  <2>1. pc[p] = "test" /\ UNCHANGED owner
    BY <1>12 DEF BreadDisk
  <2>2. CASE driver = "memide"
    BY <1>10, <1>12, <2>1, <2>2 DEF BreadDisk, MemRw, IdeRw, Return, Goto
  <2>3. CASE driver # "memide"
    <3>1. pc' = [pc EXCEPT ![p] = "disksleep"] /\ want' = [want EXCEPT ![p] = want[p]] /\ UNCHANGED held
      BY <1>12, <2>3 DEF BreadDisk, MemRw, IdeRw, Goto
    <3>2. QED
      BY <1>1, <1>2, <1>3, <2>1, <3>1 DEF CallInv
  <2>4. QED
    BY <2>2, <2>3
<1>13. ASSUME NEW p \in Procs, NEW b \in Bufs, NEW v \in Data, Bwrite(p, b, v)
       PROVE  CallInv(q)'
  <2>1. pc[p] = "run" /\ b \in held[p] /\ owner[b] = p /\ UNCHANGED owner
    BY <1>1, <1>13 DEF Bwrite, CallInv
  <2>2. CASE driver = "memide"
    <3>1. /\ pc' = [pc EXCEPT ![p] = "run"] /\ want' = [want EXCEPT ![p] = 0]
          /\ held' = [held EXCEPT ![p] = @ \cup {b}]
      BY <1>13, <2>2 DEF Bwrite, MemRw, IdeRw, Return, Goto
    <3>2. QED
      BY <1>1, <1>3, <2>1, <3>1 DEF CallInv
  <2>3. CASE driver # "memide"
    <3>1. pc' = [pc EXCEPT ![p] = "disksleep"] /\ want' = [want EXCEPT ![p] = b] /\ UNCHANGED held
      BY <1>13, <2>3 DEF Bwrite, MemRw, IdeRw, Goto
    <3>2. QED
      BY <1>1, <1>3, <2>1, <3>1 DEF CallInv
  <2>4. QED
    BY <2>2, <2>3
<1>14. ASSUME NEW p \in Procs, NEW b \in Bufs, NEW v \in Data, LogWrite(p, b, v)
       PROVE  CallInv(q)'
  BY <1>4, <1>14 DEF LogWrite
<1>15. ASSUME NEW p \in Procs, RwTest(p)
       PROVE  CallInv(q)'
  <2>1. CASE want[p] \in valid \ dirty
    BY <1>10, <1>15, <2>1 DEF RwTest, Return, Goto
  <2>2. CASE want[p] \notin valid \ dirty
    <3>1. pc[p] = "rwtest" /\ pc' = [pc EXCEPT ![p] = "disksleep"] /\ UNCHANGED <<want, held, owner>>
      BY <1>15, <2>2 DEF RwTest, Goto
    <3>2. QED
      BY <1>1, <1>3, <3>1 DEF CallInv
  <2>3. QED
    BY <2>1, <2>2
<1>16. CASE DriveDone
  BY <1>4, <1>16 DEF DriveDone
<1>17. CASE IdeIntr
  <2>1. UNCHANGED <<want, held, owner>> /\ (pc'[q] = pc[q] \/ (pc[q] = "disksleep" /\ pc'[q] = "rwtest"))
    BY <1>17 DEF IdeIntr, Woken
  <2>2. QED
    BY <1>1, <2>1 DEF CallInv
<1>18. ASSUME NEW p \in Procs, Kill(p)
       PROVE  CallInv(q)'
  <2>1. /\ UNCHANGED <<want, held, owner>>
        /\ \/ pc[p] = "locksleep" /\ pc' = [pc EXCEPT ![p] = "lock"]
           \/ pc[p] = "disksleep" /\ pc' = [pc EXCEPT ![p] = "rwtest"]
    BY <1>18 DEF Kill, Goto
  <2>2. QED
    BY <1>1, <1>3, <2>1 DEF CallInv
<1>19. QED
  BY <1>5, <1>6, <1>7, <1>8, <1>9, <1>11, <1>12, <1>13, <1>14, <1>15, <1>16, <1>17, <1>18
     DEF Running, Call, Step

\* A user that bget() adds is counted.
LEMMA CountAdd ==
    ASSUME NEW b \in Bufs, NEW p \in Procs, p \notin Users(b),
           \A q \in Procs \ {p} : (b \in held'[q] \/ want'[q] = b) <=> (b \in held[q] \/ want[q] = b),
           want'[p] = b
    PROVE  Cardinality(Users(b)') = Cardinality(Users(b)) + 1
<1>1. Users(b)' = Users(b) \cup {p}
  BY DEF Users
<1>2. QED
  BY <1>1, UsersFinite, FS_AddElement

\* A user that gives the buffer up is counted no more.
LEMMA CountRemove ==
    ASSUME NEW b \in Bufs, NEW p \in Procs, p \in Users(b),
           \A q \in Procs \ {p} : (b \in held'[q] \/ want'[q] = b) <=> (b \in held[q] \/ want[q] = b),
           ~(b \in held'[p] \/ want'[p] = b)
    PROVE  Cardinality(Users(b)') = Cardinality(Users(b)) - 1
<1>1. Users(b)' = Users(b) \ {p}
  BY DEF Users
<1>2. QED
  BY <1>1, UsersFinite, FS_RemoveElement

\* refcnt is raised and lowered with the users of the buffer: a process counts
\* once from bget() to the end of brelse(), whatever it does with the buffer.
LEMMA CountStep ==
    ASSUME TypeOK, ListInv, CallsInv, BlockInv, CountInv, QueueInv, DriveInv, Running
    PROVE  CountInv'
<1>1. \A p \in Procs : CallInv(p)
  BY DEF CallsInv
<1>2. \A p \in Procs : pc[p] # "run" => want[p] \in Bufs
  BY WantedBuffer
<1>3. /\ want \in [Procs -> Bufs \cup {0}] /\ held \in [Procs -> SUBSET Bufs]
      /\ refcnt \in [Bufs -> Nat] /\ 0 \notin Bufs
  BY Constants DEF TypeOK
<1>4. ASSUME UNCHANGED refcnt,
             \A c \in Bufs, q \in Procs : (c \in held'[q] \/ want'[q] = c) <=> (c \in held[q] \/ want[q] = c)
      PROVE  CountInv'
  <2>1. \A c \in Bufs : Users(c)' = Users(c)
    BY <1>4 DEF Users
  <2>2. QED
    BY <1>4, <2>1 DEF CountInv
<1>5. ASSUME UNCHANGED <<refcnt, want, held>> PROVE CountInv'
  BY <1>4, <1>5
<1>6. ASSUME NEW p \in Procs, NEW b \in Bufs, want[p] = 0, b \notin held[p],
             want' = [want EXCEPT ![p] = b], UNCHANGED held,
             refcnt' = [refcnt EXCEPT ![b] = refcnt[b] + 1]
      PROVE  CountInv'
  <2>1. p \notin Users(b)
    BY <1>3, <1>6 DEF Users
  <2>2. Cardinality(Users(b)') = Cardinality(Users(b)) + 1
    BY <1>3, <1>6, <2>1, CountAdd
  <2>3. ASSUME NEW c \in Bufs, c # b PROVE Users(c)' = Users(c)
    BY <1>3, <1>6, <2>3 DEF Users
  <2>4. QED
    BY <1>3, <1>6, <2>2, <2>3 DEF CountInv
<1>7. ASSUME NEW p \in Procs, NEW k \in Blocks, BgetHit(p, k)
      PROVE  CountInv'
  <2>1. /\ MostRecent(Cached(k)) \in Bufs /\ MostRecent(Cached(k)) \notin held[p] /\ want[p] = 0
    BY <1>7, HitBuffer, HitUnused DEF BgetHit
  <2>2. QED
    BY <1>6, <1>7, <2>1 DEF BgetHit
<1>8. ASSUME NEW p \in Procs, NEW k \in Blocks, BgetRecycle(p, k)
      PROVE  CountInv'
  <2>1. CASE Recyclable = {}
    BY <1>5, <1>8, <2>1 DEF BgetRecycle, Panic, cache
  <2>2. CASE Recyclable # {}
    <3> DEFINE b == LeastRecent(Recyclable)
    <3>1. b \in Bufs /\ b \notin held[p] /\ refcnt[b] = 0
      BY <2>2, RecycledBuffer, RecycledUnused
    <3>2. /\ want' = [want EXCEPT ![p] = b] /\ refcnt' = [refcnt EXCEPT ![b] = 1] /\ UNCHANGED held
      BY <1>8, <2>2 DEF BgetRecycle
    <3>3. want[p] = 0
      BY <1>1, <1>8 DEF BgetRecycle, MayAsk, CallInv
    <3> HIDE DEF b
    <3>4. refcnt[b] + 1 = 1
      BY <3>1
    <3>5. QED
      BY <1>6, <3>1, <3>2, <3>3, <3>4
  <2>3. QED
    BY <2>1, <2>2
<1>9. ASSUME NEW p \in Procs, AcquireSleep(p)
      PROVE  CountInv'
  BY <1>5, <1>9 DEF AcquireSleep, cache
<1>10. ASSUME NEW p \in Procs, NEW b \in Bufs, Brelse(p, b)
      PROVE  CountInv'
  <2>1. want[p] = 0 /\ b \in held[p]
    BY <1>1, <1>10 DEF Brelse, CallInv
  <2>2. want' = [want EXCEPT ![p] = b] /\ held' = [held EXCEPT ![p] = @ \ {b}] /\ UNCHANGED refcnt
    BY <1>10 DEF Brelse, cache
  <2>3. QED
    BY <1>3, <1>4, <2>1, <2>2
<1>11. ASSUME NEW p \in Procs, BrelseRef(p)
       PROVE  CountInv'
  <2>1. PICK b \in Bufs : b = want[p]
    BY <1>2, <1>11 DEF BrelseRef
  <2>2. b \in Bufs /\ b \notin held[p]
    BY <1>1, <1>11, <2>1 DEF BrelseRef, CallInv
  <2>3. want' = [want EXCEPT ![p] = 0] /\ refcnt' = [refcnt EXCEPT ![b] = refcnt[b] - 1] /\ UNCHANGED held
    BY <1>11, <2>1 DEF BrelseRef, Return, Unreferenced
  <2>4. p \in Users(b)
    BY <2>1 DEF Users
  <2>5. Cardinality(Users(b)') = Cardinality(Users(b)) - 1
    BY <1>3, <2>2, <2>3, <2>4, CountRemove
  <2>6. ASSUME NEW c \in Bufs, c # b PROVE Users(c)' = Users(c)
    BY <1>3, <2>1, <2>3, <2>6 DEF Users
  <2>7. QED
    BY <1>3, <2>2, <2>3, <2>5, <2>6 DEF CountInv
<1>12. ASSUME NEW p \in Procs, want[p] \in Bufs, want' = [want EXCEPT ![p] = 0],
              held' = [held EXCEPT ![p] = @ \cup {want[p]}], UNCHANGED refcnt
       PROVE  CountInv'
  BY <1>3, <1>4, <1>12
<1>13. ASSUME NEW p \in Procs, BreadCached(p)
       PROVE  CountInv'
  BY <1>2, <1>12, <1>13 DEF BreadCached, Return, cache
<1>14. ASSUME NEW p \in Procs, BreadDisk(p)
       PROVE  CountInv'
  <2>1. want[p] \in Bufs /\ UNCHANGED refcnt
    BY <1>2, <1>14 DEF BreadDisk, cache
  <2>2. CASE driver = "memide"
    BY <1>12, <1>14, <2>1, <2>2 DEF BreadDisk, MemRw, IdeRw, Return
  <2>3. CASE driver # "memide"
    <3>1. want' = [want EXCEPT ![p] = want[p]] /\ UNCHANGED held
      BY <1>14, <2>3 DEF BreadDisk, MemRw, IdeRw
    <3>2. QED
      BY <1>3, <1>4, <2>1, <3>1
  <2>4. QED
    BY <2>2, <2>3
<1>15. ASSUME NEW p \in Procs, NEW b \in Bufs, NEW v \in Data, Bwrite(p, b, v)
       PROVE  CountInv'
  <2>1. want[p] = 0 /\ b \in held[p] /\ UNCHANGED refcnt
    BY <1>1, <1>15 DEF Bwrite, CallInv, cache
  <2>2. \/ want' = [want EXCEPT ![p] = 0] /\ held' = [held EXCEPT ![p] = @ \cup {b}]
        \/ want' = [want EXCEPT ![p] = b] /\ UNCHANGED held
    BY <1>15 DEF Bwrite, MemRw, IdeRw, Return
  <2>3. QED
    BY <1>3, <1>4, <2>1, <2>2
<1>16. ASSUME NEW p \in Procs, NEW b \in Bufs, NEW v \in Data, LogWrite(p, b, v)
       PROVE  CountInv'
  BY <1>5, <1>16 DEF LogWrite, cache
<1>17. ASSUME NEW p \in Procs, RwTest(p)
       PROVE  CountInv'
  <2>1. UNCHANGED refcnt /\ want[p] \in Bufs
    BY <1>2, <1>17 DEF RwTest, cache
  <2>2. QED
    BY <1>5, <1>12, <1>17, <2>1 DEF RwTest, Return
<1>18. CASE DriveDone \/ IdeIntr
  BY <1>5, <1>18 DEF DriveDone, IdeIntr, cache
<1>19. ASSUME NEW p \in Procs, Kill(p)
       PROVE  CountInv'
  BY <1>5, <1>19 DEF Kill, cache
<1>20. QED
  BY <1>7, <1>8, <1>9, <1>10, <1>11, <1>13, <1>14, <1>15, <1>16, <1>17, <1>18, <1>19
     DEF Running, Call, Step

\* The buffers in idequeue have users, and so blocks.
LEMMA QueuedBuffer ==
    ASSUME TypeOK, CallsInv, BlockInv, QueueInv, NEW i \in 1..Len(idequeue)
    PROVE  /\ idequeue[i] \in Bufs /\ blockno[idequeue[i]] \in Blocks
           /\ \E p \in Procs : owner[idequeue[i]] = p /\ want[p] = idequeue[i] /\ pc[p] \in {"disksleep", "rwtest"}
<1>1. PICK p \in Procs : want[p] = idequeue[i] /\ pc[p] \in {"disksleep", "rwtest"}
  BY DEF QueueInv
<1>2. pc[p] # "run"
  BY <1>1
<1>3. owner[want[p]] = p
  BY <1>1 DEF CallsInv, CallInv
<1>4. QED
  BY <1>1, <1>2, <1>3, WantedBuffer

\* A buffer that its holder may write or release is not in idequeue.
LEMMA HeldNotQueued ==
    ASSUME TypeOK, CallsInv, BlockInv, QueueInv, NEW p \in Procs, pc[p] \in {"run", "test"},
           NEW b, owner[b] = p, NEW i \in 1..Len(idequeue)
    PROVE  idequeue[i] # b
<1>1. PICK q \in Procs : owner[idequeue[i]] = q /\ pc[q] \in {"disksleep", "rwtest"}
  BY QueuedBuffer
<1>2. QED
  BY <1>1

\* A block never gets two buffers, and nothing is used or valid without a block.
LEMMA BlockStep ==
    ASSUME TypeOK, ListInv, CallsInv, BlockInv, CountInv, QueueInv, DriveInv, Running
    PROVE  BlockInv'
<1>1. \A p \in Procs : CallInv(p)
  BY DEF CallsInv
<1>2. \A p \in Procs : pc[p] # "run" => want[p] \in Bufs /\ blockno[want[p]] \in Blocks
  BY WantedBuffer
<1>3. /\ blockno \in [Bufs -> Blocks \cup {NOBLOCK}] /\ want \in [Procs -> Bufs \cup {0}]
      /\ held \in [Procs -> SUBSET Bufs] /\ 0 \notin Bufs /\ NOBLOCK \notin Blocks
      /\ valid \subseteq Bufs /\ dirty \subseteq Bufs
  BY Constants DEF TypeOK, NOBLOCK
<1>4. ASSUME UNCHANGED <<blockno, want, held, valid, dirty>> PROVE BlockInv'
  BY <1>4 DEF BlockInv
<1>5. ASSUME NEW p \in Procs, NEW k \in Blocks, BgetHit(p, k)
      PROVE  BlockInv'
  <2> DEFINE b == MostRecent(Cached(k))
  <2>1. b \in Bufs /\ blockno[b] \in Blocks
    BY <1>5, HitBuffer DEF BgetHit
  <2>2. want' = [want EXCEPT ![p] = b] /\ UNCHANGED <<blockno, held, valid, dirty>>
    BY <1>5 DEF BgetHit
  <2> HIDE DEF b
  <2>3. QED
    BY <1>3, <2>1, <2>2 DEF BlockInv
<1>6. ASSUME NEW p \in Procs, NEW k \in Blocks, BgetRecycle(p, k)
      PROVE  BlockInv'
  <2>1. CASE Recyclable = {}
    BY <1>4, <1>6, <2>1 DEF BgetRecycle, Panic, cache
  <2>2. CASE Recyclable # {}
    <3> DEFINE b == LeastRecent(Recyclable)
    <3>1. b \in Bufs /\ \A q \in Procs : b \notin held[q] /\ want[q] # b
      BY <2>2, RecycledBuffer, RecycledUnused
    <3>2. /\ blockno' = [blockno EXCEPT ![b] = k] /\ want' = [want EXCEPT ![p] = b] /\ UNCHANGED held
          /\ valid' = valid \ {b} /\ dirty' = dirty \ {b}
      BY <1>6, <2>2 DEF BgetRecycle
    <3>3. \A c \in Bufs : blockno[c] # k
      BY <1>6 DEF BgetRecycle, Cached
    <3> HIDE DEF b
    <3>4. \A c, d \in Bufs : blockno'[c] = blockno'[d] /\ blockno'[c] \in Blocks => c = d
      BY <1>3, <3>1, <3>2, <3>3 DEF BlockInv
    <3>5. \A q \in Procs : want'[q] # 0 => blockno'[want'[q]] \in Blocks
      BY <1>3, <3>1, <3>2 DEF BlockInv
    <3>6. \A c \in valid' : blockno'[c] \in Blocks
      BY <1>3, <3>1, <3>2 DEF BlockInv
    <3>7. \A q \in Procs : held'[q] \subseteq valid'
      BY <3>1, <3>2 DEF BlockInv
    <3>8. QED
      BY <3>2, <3>4, <3>5, <3>6, <3>7 DEF BlockInv
  <2>3. QED
    BY <2>1, <2>2
<1>7. ASSUME NEW p \in Procs, AcquireSleep(p)
      PROVE  BlockInv'
  BY <1>4, <1>7 DEF AcquireSleep, cache
<1>8. ASSUME NEW p \in Procs, NEW b \in Bufs, Brelse(p, b)
      PROVE  BlockInv'
  <2>1. b \in held[p] /\ blockno[b] \in Blocks
    BY <1>8, HeldBuffer DEF Brelse
  <2>2. /\ want' = [want EXCEPT ![p] = b] /\ held' = [held EXCEPT ![p] = @ \ {b}]
        /\ UNCHANGED <<blockno, valid, dirty>>
    BY <1>8 DEF Brelse, cache
  <2>3. QED
    BY <1>3, <2>1, <2>2 DEF BlockInv
<1>9. ASSUME NEW p \in Procs, BrelseRef(p)
      PROVE  BlockInv'
  <2>1. want' = [want EXCEPT ![p] = 0] /\ UNCHANGED <<blockno, held, valid, dirty>>
    BY <1>9 DEF BrelseRef, Return
  <2>2. QED
    BY <1>3, <2>1 DEF BlockInv
<1>10. ASSUME NEW p \in Procs, NEW b \in Bufs, blockno[b] \in Blocks,
             valid' = valid \cup {b}, want' = [want EXCEPT ![p] = 0], dirty' \subseteq dirty,
             held' = [held EXCEPT ![p] = @ \cup {b}], UNCHANGED blockno
      PROVE  BlockInv'
  BY <1>3, <1>10 DEF BlockInv
<1>11. ASSUME NEW p \in Procs, BreadCached(p)
       PROVE  BlockInv'
  <2>1. want[p] \in valid /\ want[p] \in Bufs /\ blockno[want[p]] \in Blocks
    BY <1>2, <1>11 DEF BreadCached
  <2>2. /\ valid' = valid /\ valid' = valid \cup {want[p]} /\ want' = [want EXCEPT ![p] = 0] /\ dirty' = dirty
        /\ held' = [held EXCEPT ![p] = @ \cup {want[p]}] /\ UNCHANGED blockno
    BY <1>11, <2>1 DEF BreadCached, Return, cache
  <2>3. QED
    BY <1>10, <2>1, <2>2
<1>12. ASSUME NEW p \in Procs, BreadDisk(p)
       PROVE  BlockInv'
  <2>1. want[p] \in Bufs /\ blockno[want[p]] \in Blocks /\ UNCHANGED <<blockno, dirty>>
    BY <1>2, <1>12 DEF BreadDisk, cache
  <2>2. CASE driver = "memide"
    BY <1>10, <1>12, <2>1, <2>2 DEF BreadDisk, MemRw, IdeRw, Return
  <2>3. CASE driver # "memide"
    <3>1. want' = [want EXCEPT ![p] = want[p]] /\ UNCHANGED <<held, valid>>
      BY <1>12, <2>3 DEF BreadDisk, MemRw, IdeRw
    <3>2. want' = want
      BY <1>3, <3>1
    <3>3. QED
      BY <1>4, <2>1, <3>1, <3>2
  <2>4. QED
    BY <2>2, <2>3
<1>13. ASSUME NEW p \in Procs, NEW b \in Bufs, NEW v \in Data, Bwrite(p, b, v)
       PROVE  BlockInv'
  <2>1. b \in held[p] /\ b \in valid /\ blockno[b] \in Blocks /\ UNCHANGED blockno
    BY <1>13, HeldBuffer DEF Bwrite, cache
  <2>2. CASE driver = "memide"
    <3>1. /\ valid' = valid \cup {b} /\ want' = [want EXCEPT ![p] = 0] /\ dirty' = dirty \ {b}
          /\ held' = [held EXCEPT ![p] = @ \cup {b}]
      BY <1>13, <2>2 DEF Bwrite, MemRw, IdeRw, Return
    <3>2. QED
      BY <1>10, <2>1, <3>1
  <2>3. CASE driver # "memide"
    <3>1. want' = [want EXCEPT ![p] = b] /\ dirty' = dirty \cup {b} /\ UNCHANGED <<held, valid>>
      BY <1>13, <2>3 DEF Bwrite, MemRw, IdeRw
    <3>2. QED
      BY <1>3, <2>1, <3>1 DEF BlockInv
  <2>4. QED
    BY <2>2, <2>3
<1>14. ASSUME NEW p \in Procs, NEW b \in Bufs, NEW v \in Data, LogWrite(p, b, v)
       PROVE  BlockInv'
  <2>1. b \in valid
    BY <1>14, HeldBuffer DEF LogWrite
  <2>2. dirty' = dirty \cup {b} /\ UNCHANGED <<blockno, want, held, valid>>
    BY <1>14 DEF LogWrite, cache
  <2>3. QED
    BY <2>1, <2>2 DEF BlockInv
<1>15. ASSUME NEW p \in Procs, RwTest(p)
       PROVE  BlockInv'
  <2>1. want[p] \in Bufs /\ blockno[want[p]] \in Blocks /\ UNCHANGED <<blockno, valid, dirty>>
    BY <1>2, <1>15 DEF RwTest, cache
  <2>2. CASE want[p] \in valid \ dirty
    <3>1. want' = [want EXCEPT ![p] = 0] /\ held' = [held EXCEPT ![p] = @ \cup {want[p]}]
      BY <1>15, <2>2 DEF RwTest, Return
    <3>2. QED
      BY <1>3, <2>1, <2>2, <3>1 DEF BlockInv
  <2>3. CASE want[p] \notin valid \ dirty
    BY <1>4, <1>15, <2>1, <2>3 DEF RwTest
  <2>4. QED
    BY <2>2, <2>3
<1>16. CASE DriveDone
  BY <1>4, <1>16 DEF DriveDone, cache
<1>17. CASE IdeIntr
  <2> DEFINE b == Head(idequeue)
  <2>1. idequeue # <<>>
    BY <1>17 DEF IdeIntr, DriveInv
  <2>2. b = idequeue[1] /\ 1 \in 1..Len(idequeue)
    BY <2>1 DEF TypeOK
  <2>3. b \in Bufs /\ blockno[b] \in Blocks
    BY <2>2, QueuedBuffer
  <2>4. valid' = valid \cup {b} /\ dirty' = dirty \ {b} /\ UNCHANGED <<blockno, want, held>>
    BY <1>17 DEF IdeIntr, cache
  <2> HIDE DEF b
  <2>5. QED
    BY <2>3, <2>4 DEF BlockInv
<1>18. ASSUME NEW p \in Procs, Kill(p)
       PROVE  BlockInv'
  BY <1>4, <1>18 DEF Kill, cache
<1>19. QED
  BY <1>5, <1>6, <1>7, <1>8, <1>9, <1>11, <1>12, <1>13, <1>14, <1>15, <1>16, <1>17, <1>18
     DEF Running, Call, Step

-----------------------------------------------------------------------------
(* The request queue, the drive and the disk. *)

\* Requests are queued at the end and taken from the front.
LEMMA QueueFacts ==
    ASSUME idequeue \in Seq(Bufs)
    PROVE  /\ Len(idequeue) \in Nat /\ (idequeue = <<>> <=> Len(idequeue) = 0)
           /\ idequeue # <<>> => Head(idequeue) = idequeue[1] /\ 1 \in 1..Len(idequeue)
           /\ \A b \in Bufs : /\ Len(Append(idequeue, b)) = Len(idequeue) + 1
                              /\ Append(idequeue, b)[Len(idequeue) + 1] = b
                              /\ \A i \in 1..Len(idequeue) : Append(idequeue, b)[i] = idequeue[i]
           /\ idequeue # <<>> => /\ Len(Tail(idequeue)) = Len(idequeue) - 1
                                 /\ \A i \in 1..(Len(idequeue) - 1) : Tail(idequeue)[i] = idequeue[i + 1]
OBVIOUS

\* A process that waits in iderw() for buffer b.
Waits(p, b) == want[p] = b /\ pc[p] \in {"disksleep", "rwtest"}

\* A step that leaves the queue alone, and everything about its buffers.
LEMMA QueueFrame ==
    ASSUME QueueInv, UNCHANGED <<driver, idequeue>>,
           \A i \in 1..Len(idequeue) : idequeue[i] \in dirty' \/ idequeue[i] \notin valid',
           \A i \in 1..Len(idequeue), p \in Procs : Waits(p, idequeue[i]) => Waits(p, idequeue[i])'
    PROVE  QueueInv'
BY DEF QueueInv, Waits

\* The same for the drive, which works on the first buffer of the queue.
LEMMA DriveFrame ==
    ASSUME DriveInv, idequeue \in Seq(Bufs), UNCHANGED <<idequeue, drive, disk>>,
           \A i \in 1..Len(idequeue) :
             LET b == idequeue[i] IN
             /\ blockno'[b] = blockno[b] /\ data'[b] = data[b] /\ (b \in dirty' <=> b \in dirty)
    PROVE  DriveInv'
<1>1. ASSUME idequeue # <<>> PROVE 1 \in 1..Len(idequeue)
  BY <1>1, QueueFacts
<1>2. QED
  BY <1>1 DEF DriveInv

\* A process queues a request: the buffer was not in the queue, and the drive is
\* started with it if there was nothing else to do.
LEMMA QueuedRequest ==
    ASSUME TypeOK, CallsInv, BlockInv, QueueInv, DriveInv,
           NEW p \in Procs, NEW b \in Bufs, NEW w \in BOOLEAN, NEW v \in Data,
           pc[p] \in {"run", "test"}, owner[b] = p, blockno[b] \in Blocks,
           IdeRw(p, b, w, v), UNCHANGED blockno,
           w = (b \in dirty'), b \in dirty' \/ b \notin valid, data'[b] = v,
           \A c \in Bufs \ {b} : data'[c] = data[c] /\ (c \in dirty' <=> c \in dirty)
    PROVE  QueueInv' /\ DriveInv'
<1>1. \A i \in 1..Len(idequeue) : idequeue[i] # b /\ idequeue[i] \in Bufs
  BY HeldNotQueued, QueuedBuffer
<1>2. idequeue \in Seq(Bufs) /\ pc \in [Procs -> Places] /\ want \in [Procs -> Bufs \cup {0}]
  BY DEF TypeOK
<1>3. /\ idequeue' = Append(idequeue, b) /\ pc' = [pc EXCEPT ![p] = "disksleep"]
      /\ want' = [want EXCEPT ![p] = b] /\ UNCHANGED <<driver, disk, valid, held>>
      /\ drive' = IF idequeue = <<>> THEN Started(b, w, v) ELSE drive
      /\ driver # "memide"
  BY DEF IdeRw, Goto
<1> DEFINE n == Len(idequeue)
<1>4. /\ n \in Nat /\ Len(idequeue') = n + 1 /\ idequeue'[n + 1] = b
      /\ \A i \in 1..n : idequeue'[i] = idequeue[i]
  BY <1>2, <1>3, QueueFacts
<1>5. \A i \in 1..n : \E q \in Procs : want'[q] = idequeue[i] /\ pc'[q] \in {"disksleep", "rwtest"}
  <2> SUFFICES ASSUME NEW i \in 1..n
               PROVE  \E q \in Procs : want'[q] = idequeue[i] /\ pc'[q] \in {"disksleep", "rwtest"}
    OBVIOUS
  <2>1. PICK q \in Procs : want[q] = idequeue[i] /\ pc[q] \in {"disksleep", "rwtest"}
    BY DEF QueueInv
  <2>2. q # p
    BY <2>1
  <2>3. QED
    BY <1>2, <1>3, <2>1, <2>2
<1>6. want'[p] = b /\ pc'[p] = "disksleep"
  BY <1>2, <1>3
<1> HIDE DEF n
<1>7. \A i \in 1..(n + 1) : i \in 1..n \/ i = n + 1
  BY <1>4
<1>8. \A i, j \in 1..(n + 1) : idequeue'[i] = idequeue'[j] => i = j
  <2>1. \A i, j \in 1..n : idequeue[i] = idequeue[j] => i = j
    BY DEF QueueInv, n
  <2>2. \A i \in 1..n : idequeue[i] # b
    BY <1>1 DEF n
  <2>3. QED
    BY <1>4, <1>7, <2>1, <2>2
<1>9. ASSUME NEW i \in 1..(n + 1)
      PROVE  /\ idequeue'[i] \in dirty' \/ idequeue'[i] \notin valid'
             /\ \E q \in Procs : want'[q] = idequeue'[i] /\ pc'[q] \in {"disksleep", "rwtest"}
  <2>1. CASE i = n + 1
    BY <1>3, <1>4, <1>6, <2>1
  <2>2. CASE i \in 1..n
    <3>1. idequeue[i] \in dirty \/ idequeue[i] \notin valid
      BY <2>2 DEF QueueInv, n
    <3>2. idequeue[i] \in Bufs \ {b}
      BY <1>1, <2>2 DEF n
    <3>3. QED
      BY <1>3, <1>4, <1>5, <2>2, <3>1, <3>2 DEF n
  <2>3. QED
    BY <1>7, <2>1, <2>2
<1>10. QueueInv'
  BY <1>3, <1>4, <1>8, <1>9 DEF QueueInv
<1>11. DriveInv'
  <2>1. idequeue' # <<>> /\ idequeue' \in Seq(Bufs)
    BY <1>2, <1>3
  <2>2. CASE idequeue = <<>>
    <3>1. n = 0
      BY <2>2, <1>2, QueueFacts DEF n
    <3>2. idequeue'[1] = b
      BY <1>4, <3>1
    <3>3. drive' = Started(b, w, v)
      BY <1>3, <2>2
    <3>4. /\ drive' # IDLE /\ drive'.blk = blockno[b] /\ drive'.data = v /\ drive'.write = w
          /\ drive'.done = FALSE
      <4> DEFINE r == Started(b, w, v)
      <4>1. r.blk = blockno[b] /\ r.data = v /\ r.write = w /\ r.done = FALSE
        BY DEF Started
      <4>2. r # IDLE
        BY <4>1, Constants DEF IDLE, NOBLOCK
      <4> HIDE DEF r
      <4>3. drive' = r
        BY <3>3 DEF r
      <4>4. QED
        BY <4>1, <4>3, <4>2
    <3>5. QED
      BY <2>1, <3>2, <3>4 DEF DriveInv
  <2>3. CASE idequeue # <<>>
    <3>1. idequeue'[1] = idequeue[1] /\ 1 \in 1..Len(idequeue)
      BY <1>2, <1>4, <2>3, QueueFacts DEF n
    <3>2. idequeue[1] \in Bufs \ {b}
      BY <1>1, <3>1
    <3>3. drive' = drive /\ drive # IDLE
      BY <1>3, <2>3 DEF DriveInv
    <3>4. QED
      BY <1>3, <2>1, <2>3, <3>1, <3>2, <3>3 DEF DriveInv
  <2>4. QED
    BY <2>2, <2>3
<1>12. QED
  BY <1>10, <1>11

\* ideintr() takes the first request, whose data is now on the disk or in the
\* buffer, and starts the next one.
LEMMA IntrStep ==
    ASSUME TypeOK, CallsInv, BlockInv, QueueInv, DriveInv, CleanInv, IdeIntr
    PROVE  QueueInv' /\ DriveInv' /\ CleanInv'
<1>1. idequeue # <<>> /\ idequeue \in Seq(Bufs) /\ drive.done
  BY DEF IdeIntr, DriveInv, TypeOK
<1>2. PICK b \in Bufs : b = idequeue[1] /\ b = Head(idequeue) /\ 1 \in 1..Len(idequeue)
  BY <1>1, QueueFacts, QueuedBuffer
<1>3. PICK n \in Nat : n = Len(idequeue) /\ n > 0
  <2>1. Len(idequeue) \in Nat /\ Len(idequeue) # 0
    BY <1>1, QueueFacts
  <2>2. QED
    BY <2>1
<1>4. /\ Len(idequeue') = n - 1 /\ \A i \in 1..(n - 1) : idequeue'[i] = idequeue[i + 1]
      /\ idequeue' \in Seq(Bufs)
  BY <1>1, <1>3, QueueFacts DEF IdeIntr
<1>5. /\ valid' = valid \cup {b} /\ dirty' = dirty \ {b}
      /\ pc' = Woken(b, "disksleep", "rwtest")
      /\ UNCHANGED <<blockno, owner, driver, disk, want, held>>
      /\ \/ b \notin dirty /\ data' = [data EXCEPT ![b] = disk[drive.blk]]
         \/ (b \in dirty \/ ReadErrors) /\ UNCHANGED data
  BY <1>2 DEF IdeIntr, cache
<1>6. \A i, j \in 1..n : idequeue[i] = idequeue[j] => i = j
  BY <1>3 DEF QueueInv
<1>7. \A i \in 1..(n - 1) : i + 1 \in 1..n /\ i + 1 # 1
  BY <1>3
<1>8. \A i \in 1..(n - 1) : idequeue'[i] # b /\ idequeue'[i] \in Bufs
  <2> SUFFICES ASSUME NEW i \in 1..(n - 1) PROVE idequeue'[i] # b /\ idequeue'[i] \in Bufs
    OBVIOUS
  <2>1. idequeue'[i] = idequeue[i + 1] /\ i + 1 \in 1..n /\ i + 1 # 1
    BY <1>4, <1>7
  <2>2. idequeue[i + 1] \in Bufs
    BY <1>3, <2>1, QueuedBuffer
  <2>3. QED
    BY <1>2, <1>3, <1>6, <2>1, <2>2
<1>9. QueueInv'
  <2>1. driver' # "memide"
    BY <1>1, <1>5 DEF QueueInv
  <2>2. ASSUME NEW i \in 1..(n - 1), NEW j \in 1..(n - 1), idequeue'[i] = idequeue'[j]
        PROVE  i = j
    <3>1. idequeue[i + 1] = idequeue[j + 1]
      BY <1>4, <2>2
    <3>2. i + 1 = j + 1
      BY <1>6, <1>7, <3>1
    <3>3. QED
      BY <3>2
  <2>3. ASSUME NEW i \in 1..(n - 1)
        PROVE  /\ idequeue'[i] \in dirty' \/ idequeue'[i] \notin valid'
               /\ \E q \in Procs : want'[q] = idequeue'[i] /\ pc'[q] \in {"disksleep", "rwtest"}
    <3>1. idequeue'[i] = idequeue[i + 1] /\ i + 1 \in 1..Len(idequeue) /\ idequeue'[i] # b
      BY <1>3, <1>4, <1>7, <1>8
    <3>2. idequeue[i + 1] \in dirty \/ idequeue[i + 1] \notin valid
      BY <3>1 DEF QueueInv
    <3>3. PICK q \in Procs : want[q] = idequeue[i + 1] /\ pc[q] \in {"disksleep", "rwtest"}
      BY <3>1 DEF QueueInv
    <3>4. want'[q] = want[q] /\ pc'[q] = pc[q]
      BY <1>5, <3>1, <3>3 DEF Woken
    <3>5. QED
      BY <1>5, <3>1, <3>2, <3>3, <3>4
  <2>4. QED
    BY <1>4, <2>1, <2>2, <2>3 DEF QueueInv
<1>10. DriveInv'
  <2>1. drive' = NextRequest(idequeue')
    BY DEF IdeIntr, NextRequest
  <2>2. CASE n = 1
    <3>1. idequeue' = <<>>
      BY <1>4, <2>2
    <3>2. QED
      BY <2>1, <3>1 DEF NextRequest, DriveInv
  <2>3. CASE n # 1
    <3>1. idequeue' # <<>> /\ Head(idequeue') = idequeue'[1] /\ 1 \in 1..(n - 1)
      BY <1>3, <1>4, <2>3
    <3>2. PICK h \in Bufs : h = idequeue'[1] /\ h # b
      BY <1>8, <3>1
    <3>3. drive' = Started(h, h \in dirty, data[h])
      BY <2>1, <3>1, <3>2 DEF NextRequest
    <3>4. blockno[h] \in Blocks
      <4>1. h = idequeue[2] /\ 2 \in 1..Len(idequeue)
        BY <1>3, <1>4, <2>3, <3>1, <3>2
      <4>2. QED
        BY <4>1, QueuedBuffer
    <3>5. /\ drive'.blk = blockno[h] /\ drive'.data = data[h] /\ (drive'.write <=> h \in dirty)
          /\ drive'.done = FALSE
      BY <3>3 DEF Started
    <3>6. drive' # IDLE
      BY <3>4, <3>5, Constants DEF IDLE, NOBLOCK
    <3>7. data'[h] = data[h] /\ (h \in dirty' <=> h \in dirty) /\ blockno'[h] = blockno[h]
      BY <1>5, <3>2 DEF TypeOK
    <3>8. QED
      BY <3>1, <3>2, <3>5, <3>6, <3>7 DEF DriveInv
  <2>4. QED
    BY <2>2, <2>3
<1>11. CleanInv'
  <2> SUFFICES ASSUME ~ReadErrors, NEW c \in valid', c \notin dirty'
               PROVE  data'[c] = disk'[blockno'[c]]
    BY DEF CleanInv
  <2>1. drive.blk = blockno[b] /\ (drive.write <=> b \in dirty)
        /\ (b \in dirty => disk[blockno[b]] = data[b])
    BY <1>1, <1>2 DEF DriveInv
  <2>2. CASE c = b
    BY <1>5, <2>1, <2>2 DEF TypeOK
  <2>3. CASE c # b
    <3>1. c \in valid /\ c \notin dirty /\ data'[c] = data[c]
      BY <1>5, <2>3 DEF TypeOK
    <3>2. QED
      BY <1>5, <3>1 DEF CleanInv
  <2>4. QED
    BY <2>2, <2>3
<1>12. QED
  BY <1>9, <1>10, <1>11

\* The other steps: whoever changes a buffer has it, so that no request of
\* another process is about it.
LEMMA DiskStep ==
    ASSUME TypeOK, ListInv, CallsInv, BlockInv, CountInv, QueueInv, DriveInv, CleanInv, Running
    PROVE  QueueInv' /\ DriveInv' /\ CleanInv'
<1>1. \A p \in Procs : CallInv(p)
  BY DEF CallsInv
<1>2. \A i \in 1..Len(idequeue) : idequeue[i] \in Bufs /\ blockno[idequeue[i]] \in Blocks
  BY QueuedBuffer
<1>3. /\ pc \in [Procs -> Places] /\ want \in [Procs -> Bufs \cup {0}] /\ idequeue \in Seq(Bufs)
      /\ data \in [Bufs -> Data] /\ disk \in [Blocks -> Data] /\ valid \subseteq Bufs
      /\ blockno \in [Bufs -> Blocks \cup {NOBLOCK}]
  BY DEF TypeOK
<1>4. ASSUME UNCHANGED <<driver, idequeue, drive, disk, blockno, data, valid, dirty>>,
             \A p \in Procs, b \in Bufs : Waits(p, b) => Waits(p, b)'
      PROVE  QueueInv' /\ DriveInv' /\ CleanInv'
  <2>1. QueueInv'
    <3>1. \A i \in 1..Len(idequeue) : idequeue[i] \in dirty' \/ idequeue[i] \notin valid'
      BY <1>4 DEF QueueInv
    <3>2. QED
      BY <1>2, <1>4, <3>1, QueueFrame
  <2>2. DriveInv'
    BY <1>3, <1>4, DriveFrame
  <2>3. CleanInv'
    BY <1>4 DEF CleanInv
  <2>4. QED
    BY <2>1, <2>2, <2>3
<1>5. ASSUME NEW p \in Procs, NEW k \in Blocks, BgetHit(p, k)
      PROVE  QueueInv' /\ DriveInv' /\ CleanInv'
  <2>1. pc[p] = "run" /\ \A q \in Procs \ {p} : pc'[q] = pc[q] /\ want'[q] = want[q]
    BY <1>3, <1>5 DEF BgetHit, MayAsk, Goto
  <2>2. QED
    BY <1>4, <1>5, <2>1 DEF BgetHit, device, Waits
<1>6. ASSUME NEW p \in Procs, NEW k \in Blocks, BgetRecycle(p, k)
      PROVE  QueueInv' /\ DriveInv' /\ CleanInv'
  <2>1. CASE Recyclable = {}
    BY <1>4, <1>6, <2>1 DEF BgetRecycle, Panic, cache, device, Waits
  <2>2. CASE Recyclable # {}
    <3>1. PICK b \in Bufs : b = LeastRecent(Recyclable) /\ \A q \in Procs : want[q] # b
      BY <2>2, RecycledBuffer, RecycledUnused
    <3>2. /\ blockno' = [blockno EXCEPT ![b] = k] /\ valid' = valid \ {b} /\ dirty' = dirty \ {b}
          /\ UNCHANGED <<data, driver, idequeue, drive, disk>>
      BY <1>6, <2>2, <3>1 DEF BgetRecycle, device
    <3>3. pc[p] = "run" /\ \A q \in Procs \ {p} : pc'[q] = pc[q] /\ want'[q] = want[q]
      BY <1>3, <1>6, <2>2 DEF BgetRecycle, MayAsk, Goto
    <3>4. \A i \in 1..Len(idequeue) : idequeue[i] # b
      BY <3>1, QueuedBuffer
    <3>5. QueueInv'
      <4>1. \A i \in 1..Len(idequeue) : idequeue[i] \in dirty' \/ idequeue[i] \notin valid'
        BY <3>2, <3>4 DEF QueueInv
      <4>2. \A i \in 1..Len(idequeue), q \in Procs : Waits(q, idequeue[i]) => Waits(q, idequeue[i])'
        BY <3>2, <3>3 DEF Waits
      <4>3. QED
        BY <3>2, <4>1, <4>2, QueueFrame
    <3>6. DriveInv'
      BY <1>2, <1>3, <3>2, <3>4, DriveFrame
    <3>7. CleanInv'
      BY <1>3, <3>1, <3>2 DEF CleanInv
    <3>8. QED
      BY <3>5, <3>6, <3>7
  <2>3. QED
    BY <2>1, <2>2
<1>7. ASSUME NEW p \in Procs, AcquireSleep(p)
      PROVE  QueueInv' /\ DriveInv' /\ CleanInv'
  <2>1. pc[p] = "lock" /\ \A q \in Procs \ {p} : pc'[q] = pc[q] /\ want'[q] = want[q]
    BY <1>3, <1>7 DEF AcquireSleep, Goto
  <2>2. QED
    BY <1>4, <1>7, <2>1 DEF AcquireSleep, cache, device, Waits
<1>8. ASSUME NEW p \in Procs, NEW b \in Bufs, Brelse(p, b)
      PROVE  QueueInv' /\ DriveInv' /\ CleanInv'
  <2>1. /\ pc[p] = "run"
        /\ \A q \in Procs \ {p} : (pc'[q] = pc[q] \/ pc[q] = "locksleep") /\ want'[q] = want[q]
    BY <1>3, <1>8 DEF Brelse, Woken
  <2>2. QED
    BY <1>4, <1>8, <2>1 DEF Brelse, cache, device, Waits
<1>9. ASSUME NEW p \in Procs, BrelseRef(p)
      PROVE  QueueInv' /\ DriveInv' /\ CleanInv'
  <2>1. pc[p] = "brelse" /\ \A q \in Procs \ {p} : pc'[q] = pc[q] /\ want'[q] = want[q]
    BY <1>3, <1>9 DEF BrelseRef, Return, Goto
  <2>2. QED
    BY <1>4, <1>9, <2>1 DEF BrelseRef, cache, device, Waits
<1>10. ASSUME NEW p \in Procs, BreadCached(p)
      PROVE  QueueInv' /\ DriveInv' /\ CleanInv'
  <2>1. pc[p] = "test" /\ \A q \in Procs \ {p} : pc'[q] = pc[q] /\ want'[q] = want[q]
    BY <1>3, <1>10 DEF BreadCached, Return, Goto
  <2>2. QED
    BY <1>4, <1>10, <2>1 DEF BreadCached, cache, device, Waits
<1>11. ASSUME NEW p \in Procs, BreadDisk(p)
       PROVE  QueueInv' /\ DriveInv' /\ CleanInv'
  <2>1. PICK b \in Bufs : b = want[p] /\ blockno[b] \in Blocks /\ owner[b] = p
    BY <1>1, <1>11, WantedBuffer DEF BreadDisk, CallInv
  <2>2. b \notin valid /\ b \notin dirty /\ pc[p] = "test" /\ UNCHANGED <<blockno, dirty>>
    BY <1>11, <2>1 DEF BreadDisk, BlockInv, cache
  <2>3. CASE driver = "memide"
    <3>1. /\ data' = [data EXCEPT ![b] = disk[blockno[b]]] /\ disk' = disk /\ valid' = valid \cup {b}
          /\ UNCHANGED <<driver, idequeue, drive>>
      BY <1>11, <2>1, <2>3 DEF BreadDisk, MemRw, IdeRw
    <3>2. idequeue = <<>>
      BY <2>3 DEF QueueInv
    <3>3. QueueInv' /\ DriveInv'
      BY <3>1, <3>2, QueueFacts, <1>3 DEF QueueInv, DriveInv
    <3>4. CleanInv'
      BY <1>3, <2>1, <2>2, <3>1 DEF CleanInv
    <3>5. QED
      BY <3>3, <3>4
  <2>4. CASE driver # "memide"
    <3>1. IdeRw(p, b, FALSE, data[b]) /\ UNCHANGED data
      BY <1>11, <2>1, <2>4 DEF BreadDisk, MemRw
    <3>2. data[b] \in Data /\ FALSE = (b \in dirty')
      BY <1>3, <2>2
    <3>3. QueueInv' /\ DriveInv'
      BY <2>1, <2>2, <3>1, <3>2, QueuedRequest
    <3>4. CleanInv'
      BY <2>2, <3>1 DEF CleanInv, IdeRw
    <3>5. QED
      BY <3>3, <3>4
  <2>5. QED
    BY <2>3, <2>4
<1>12. ASSUME NEW p \in Procs, NEW b \in Bufs, NEW v \in Data, Bwrite(p, b, v)
       PROVE  QueueInv' /\ DriveInv' /\ CleanInv'
  <2>1. b \in valid /\ blockno[b] \in Blocks /\ owner[b] = p /\ pc[p] = "run"
    BY <1>12, HeldBuffer DEF Bwrite
  <2>2. data' = [data EXCEPT ![b] = v] /\ UNCHANGED blockno
    BY <1>12 DEF Bwrite, cache
  <2>3. CASE driver = "memide"
    <3>1. /\ disk' = [disk EXCEPT ![blockno[b]] = v] /\ valid' = valid \cup {b} /\ dirty' = dirty \ {b}
          /\ UNCHANGED <<driver, idequeue, drive>>
      BY <1>12, <2>3 DEF Bwrite, MemRw, IdeRw
    <3>2. idequeue = <<>>
      BY <2>3 DEF QueueInv
    <3>3. QueueInv' /\ DriveInv'
      BY <3>1, <3>2, QueueFacts, <1>3 DEF QueueInv, DriveInv
    <3>4. CleanInv'
      <4> SUFFICES ASSUME ~ReadErrors, NEW c \in valid', c \notin dirty'
                   PROVE  data'[c] = disk'[blockno'[c]]
        BY DEF CleanInv
      <4>1. CASE c = b
        BY <1>3, <2>1, <2>2, <3>1, <4>1
      <4>2. CASE c # b
        <5>1. c \in valid /\ c \notin dirty /\ blockno[c] \in Blocks /\ c \in Bufs
          BY <1>3, <3>1, <4>2 DEF BlockInv
        <5>2. blockno[c] # blockno[b]
          BY <4>2, <5>1 DEF BlockInv
        <5>3. QED
          BY <1>3, <2>1, <2>2, <3>1, <4>2, <5>1, <5>2 DEF CleanInv
      <4>3. QED
        BY <4>1, <4>2
    <3>5. QED
      BY <3>3, <3>4
  <2>4. CASE driver # "memide"
    <3>1. IdeRw(p, b, TRUE, v) /\ dirty' = dirty \cup {b}
      BY <1>12, <2>4 DEF Bwrite, MemRw
    <3>2. data'[b] = v /\ TRUE = (b \in dirty')
      BY <1>3, <2>2, <3>1
    <3>3. \A c \in Bufs \ {b} : data'[c] = data[c] /\ (c \in dirty' <=> c \in dirty)
      BY <1>3, <2>2, <3>1
    <3>4. QueueInv' /\ DriveInv'
      BY <2>1, <2>2, <3>1, <3>2, <3>3, QueuedRequest
    <3>5. CleanInv'
      BY <1>3, <2>2, <3>1 DEF CleanInv, IdeRw
    <3>6. QED
      BY <3>4, <3>5
  <2>5. QED
    BY <2>3, <2>4
<1>13. ASSUME NEW p \in Procs, NEW b \in Bufs, NEW v \in Data, LogWrite(p, b, v)
       PROVE  QueueInv' /\ DriveInv' /\ CleanInv'
  <2>1. b \in valid /\ blockno[b] \in Blocks /\ owner[b] = p /\ pc[p] = "run"
    BY <1>13, HeldBuffer DEF LogWrite
  <2>2. /\ data' = [data EXCEPT ![b] = v] /\ dirty' = dirty \cup {b}
        /\ UNCHANGED <<blockno, valid, driver, idequeue, drive, disk, pc, want>>
    BY <1>13 DEF LogWrite, cache, device
  <2>3. \A i \in 1..Len(idequeue) : idequeue[i] # b
    BY <2>1, HeldNotQueued
  <2>4. QueueInv'
    <3>1. \A i \in 1..Len(idequeue) : idequeue[i] \in dirty' \/ idequeue[i] \notin valid'
      BY <2>2 DEF QueueInv
    <3>2. QED
      BY <2>2, <3>1, QueueFrame DEF Waits
  <2>5. DriveInv'
    BY <1>2, <1>3, <2>2, <2>3, DriveFrame
  <2>6. CleanInv'
    BY <1>3, <2>2 DEF CleanInv
  <2>7. QED
    BY <2>4, <2>5, <2>6
<1>14. ASSUME NEW p \in Procs, RwTest(p)
       PROVE  QueueInv' /\ DriveInv' /\ CleanInv'
  <2>1. UNCHANGED <<driver, idequeue, drive, disk, blockno, data, valid, dirty>>
    BY <1>14 DEF RwTest, cache, device
  <2>2. CASE want[p] \in valid \ dirty
    <3>1. \A q \in Procs \ {p} : pc'[q] = pc[q] /\ want'[q] = want[q]
      BY <1>3, <1>14, <2>2 DEF RwTest, Return, Goto
    <3>2. \A i \in 1..Len(idequeue) : idequeue[i] # want[p]
      BY <2>2 DEF QueueInv
    <3>3. \A i \in 1..Len(idequeue), q \in Procs : Waits(q, idequeue[i]) => Waits(q, idequeue[i])'
      BY <2>1, <3>1, <3>2 DEF Waits
    <3>4. \A i \in 1..Len(idequeue) : idequeue[i] \in dirty' \/ idequeue[i] \notin valid'
      BY <2>1 DEF QueueInv
    <3>5. QueueInv'
      BY <2>1, <3>3, <3>4, QueueFrame
    <3>6. DriveInv' /\ CleanInv'
      BY <1>3, <2>1, DriveFrame DEF CleanInv
    <3>7. QED
      BY <3>5, <3>6
  <2>3. CASE want[p] \notin valid \ dirty
    <3>1. pc[p] = "rwtest" /\ pc' = [pc EXCEPT ![p] = "disksleep"] /\ UNCHANGED want
      BY <1>14, <2>3 DEF RwTest, Goto
    <3>2. \A q \in Procs, b \in Bufs : Waits(q, b) => Waits(q, b)'
      BY <1>3, <3>1 DEF Waits
    <3>3. QED
      BY <1>4, <2>1, <3>2
  <2>4. QED
    BY <2>2, <2>3
<1>15. CASE DriveDone
  <2>1. idequeue # <<>> /\ drive \in Requests /\ drive.blk = blockno[idequeue[1]] /\ 1 \in 1..Len(idequeue)
    BY <1>3, <1>15, QueueFacts DEF DriveDone, DriveInv, TypeOK
  <2>2. PICK b \in Bufs : b = idequeue[1] /\ blockno[b] \in Blocks
    BY <1>2, <2>1
  <2>3. /\ drive' = [drive EXCEPT !.done = TRUE]
        /\ disk' = IF drive.write THEN [disk EXCEPT ![drive.blk] = drive.data] ELSE disk
        /\ UNCHANGED <<blockno, data, valid, dirty, driver, idequeue, pc, want>>
    BY <1>15 DEF DriveDone, cache
  <2>4. QueueInv'
    BY <2>3 DEF QueueInv
  <2>5. drive'.blk = drive.blk /\ drive'.data = drive.data /\ (drive'.write <=> drive.write) /\ drive' # IDLE
    <3>1. drive'.blk = drive.blk /\ drive'.data = drive.data /\ drive'.write = drive.write
      BY <2>1, <2>3 DEF Requests
    <3>2. drive' # IDLE
      BY <3>1, <2>1, <2>2, Constants DEF IDLE, NOBLOCK
    <3>3. QED
      BY <3>1, <3>2
  <2>6. drive.write => disk'[drive.blk] = drive.data
    BY <1>3, <2>1, <2>2, <2>3
  <2>7. DriveInv'
    BY <2>1, <2>3, <2>5, <2>6 DEF DriveInv
  <2>8. CleanInv'
    <3> SUFFICES ASSUME ~ReadErrors, NEW c \in valid, c \notin dirty
                 PROVE  data[c] = disk'[blockno[c]]
      BY <2>3 DEF CleanInv
    <3>1. CASE ~drive.write
      BY <2>3, <3>1 DEF CleanInv
    <3>2. CASE drive.write
      <4>1. b \in dirty /\ c # b
        BY <2>1, <2>2, <3>2 DEF DriveInv
      <4>2. blockno[c] # blockno[b] /\ blockno[c] \in Blocks
        BY <1>3, <2>2, <4>1 DEF BlockInv
      <4>3. QED
        BY <1>3, <2>1, <2>2, <2>3, <4>2 DEF CleanInv
    <3>3. QED
      BY <3>1, <3>2
  <2>9. QED
    BY <2>4, <2>7, <2>8
<1>16. CASE IdeIntr
  BY <1>16, IntrStep
<1>17. ASSUME NEW p \in Procs, Kill(p)
       PROVE  QueueInv' /\ DriveInv' /\ CleanInv'
  <2>1. /\ \A q \in Procs \ {p} : pc'[q] = pc[q] /\ want'[q] = want[q]
        /\ want'[p] = want[p] /\ (pc[p] = "disksleep" => pc'[p] = "rwtest") /\ pc[p] # "rwtest"
    BY <1>3, <1>17 DEF Kill, Goto
  <2>2. QED
    BY <1>4, <1>17, <2>1 DEF Kill, cache, device, Waits
<1>18. QED
  BY <1>5, <1>6, <1>7, <1>8, <1>9, <1>10, <1>11, <1>12, <1>13, <1>14, <1>15, <1>16, <1>17
     DEF Running, Call, Step

-----------------------------------------------------------------------------
(* Room in the cache. *)

\* Sets of buffers are finite.
LEMMA BufSets ==
    ASSUME NEW S \in SUBSET Bufs
    PROVE  IsFiniteSet(S) /\ Cardinality(S) \in Nat
BY BufsFinite, FS_Subset, FS_CardinalityType

\* An enumeration of the buffers of a process.
Numbered(q) == CHOOSE g \in [1..Cardinality(Uses(q)) -> Uses(q)] :
                 \A b \in Uses(q) : \E i \in 1..Cardinality(Uses(q)) : g[i] = b

\* It has all of them.
LEMMA NumberedAll ==
    ASSUME NEW q \in Procs
    PROVE  /\ Numbered(q) \in [1..Cardinality(Uses(q)) -> Uses(q)]
           /\ \A b \in Uses(q) : \E i \in 1..Cardinality(Uses(q)) : Numbered(q)[i] = b
<1>1. Uses(q) \in SUBSET Bufs
  BY DEF Uses
<1>2. ExistsBijection(1..Cardinality(Uses(q)), Uses(q))
  BY <1>1, BufSets, FS_CardinalityType
<1>3. \E g \in [1..Cardinality(Uses(q)) -> Uses(q)] :
        \A b \in Uses(q) : \E i \in 1..Cardinality(Uses(q)) : g[i] = b
  BY <1>2 DEF ExistsBijection, Bijection, Surjection
<1>4. QED
  BY <1>3 DEF Numbered

\* There are not more buffers in use than the processes may use together, and one
\* less while one of the processes may ask for another.
LEMMA UsedBound ==
    ASSUME NEW p \in Procs, \A q \in Procs : Cardinality(Uses(q)) <= MaxHeld,
           Cardinality(Uses(p)) < MaxHeld
    PROVE  Cardinality(InUse) < MaxHeld * Cardinality(Procs)
<1>1. MaxHeld \in Nat /\ MaxHeld > 0 /\ IsFiniteSet(Procs) /\ Cardinality(Procs) \in Nat
  BY CacheAssumption, FS_CardinalityType
<1>2. \A q \in Procs : Cardinality(Uses(q)) \in Nat
  <2>1. \A q \in Procs : Uses(q) \in SUBSET Bufs
    BY DEF Uses
  <2>2. QED
    BY <2>1, BufSets
<1> DEFINE All == Procs \X (1..MaxHeld)
           T == {t \in All : t[2] <= Cardinality(Uses(t[1]))}
           last == <<p, MaxHeld>>
           h == [t \in T |-> Numbered(t[1])[t[2]]]
<1>3. IsFiniteSet(All) /\ Cardinality(All) = Cardinality(Procs) * MaxHeld
  <2>1. IsFiniteSet(1..MaxHeld) /\ Cardinality(1..MaxHeld) = MaxHeld
    BY <1>1, FS_Interval
  <2>2. QED
    BY <1>1, <2>1, FS_Product
<1>4. last \in All /\ last \notin T
  BY <1>1, <1>2
<1>5. IsFiniteSet(T) /\ Cardinality(T) < Cardinality(All)
  <2>1. T \in SUBSET (All \ {last})
    BY <1>4
  <2>2. IsFiniteSet(All \ {last}) /\ Cardinality(All \ {last}) = Cardinality(All) - 1
    BY <1>3, <1>4, FS_RemoveElement
  <2>3. IsFiniteSet(T) /\ Cardinality(T) <= Cardinality(All \ {last})
    BY <2>1, <2>2, FS_Subset
  <2>4. Cardinality(All) \in Nat /\ Cardinality(T) \in Nat
    BY <1>3, <2>3, FS_CardinalityType
  <2> HIDE DEF T, All
  <2>5. QED
    BY <2>2, <2>3, <2>4
<1>6. h \in Surjection(T, InUse)
  <2>1. ASSUME NEW t \in T PROVE Numbered(t[1])[t[2]] \in InUse
    <3>1. t[1] \in Procs /\ t[2] \in 1..Cardinality(Uses(t[1]))
      BY <1>1, <1>2
    <3>2. Numbered(t[1])[t[2]] \in Uses(t[1])
      BY <3>1, NumberedAll
    <3>3. QED
      BY <3>1, <3>2 DEF InUse, Uses
  <2>2. ASSUME NEW b \in InUse PROVE \E t \in T : h[t] = b
    <3>1. PICK q \in Procs : b \in Uses(q)
      BY DEF InUse, Uses
    <3>2. PICK i \in 1..Cardinality(Uses(q)) : Numbered(q)[i] = b
      BY <3>1, NumberedAll
    <3>3. <<q, i>> \in T
      BY <1>1, <1>2
    <3>4. h[<<q, i>>] = b
      BY <3>2, <3>3
    <3>5. QED
      BY <3>3, <3>4
  <2>3. QED
    BY <2>1, <2>2 DEF Surjection
<1>7. Cardinality(InUse) <= Cardinality(T)
  BY <1>5, <1>6, FS_Surjection
<1>8. Cardinality(InUse) \in Nat /\ Cardinality(T) \in Nat /\ Cardinality(All) \in Nat
  <2>1. InUse \in SUBSET Bufs
    BY DEF InUse
  <2>2. QED
    BY <1>3, <1>5, <2>1, BufSets, FS_CardinalityType
<1> HIDE DEF T, All
<1>9. Cardinality(Procs) * MaxHeld = MaxHeld * Cardinality(Procs)
  BY <1>1
<1>10. QED
  BY <1>3, <1>5, <1>7, <1>8, <1>9

\* bget() finds no buffer only in a cache that is too small for its callers.
LEMMA NoRoom ==
    ASSUME TypeOK, CallsInv, BlockInv, CountInv, QueueInv, RoomInv,
           NEW p \in Procs, NEW k \in Blocks, MayAsk(p, k), Recyclable = {}
    PROVE  Full
<1>1. Cardinality(Uses(p)) < MaxHeld
  <2>1. want[p] = 0 /\ held[p] \subseteq Bufs /\ 0 \notin Bufs
    BY Constants DEF MayAsk, CallsInv, CallInv, TypeOK
  <2>2. Uses(p) = held[p]
    BY <2>1 DEF Uses
  <2>3. QED
    BY <2>2 DEF MayAsk
<1>2. Cardinality(InUse) < MaxHeld * Cardinality(Procs)
  BY <1>1, UsedBound DEF RoomInv
<1>3. \A b \in Bufs : Users(b) # {} => b \in InUse
  BY DEF Users, InUse, Uses
<1>4. ASSUME NEW b \in Bufs PROVE b \in InUse \cup Pinned
  <2>1. CASE refcnt[b] # 0
    BY <1>3, <2>1, UsersFinite DEF CountInv
  <2>2. CASE refcnt[b] = 0
    <3>1. b \in dirty
      BY <2>2 DEF Recyclable
    <3>2. CASE b \in ToSet(idequeue)
      <4>1. PICK i \in 1..Len(idequeue) : idequeue[i] = b
        BY <3>2 DEF ToSet, TypeOK
      <4>2. Users(b) # {}
        BY <4>1, QueuedBuffer DEF Users
      <4>3. QED
        BY <1>3, <4>2
    <3>3. QED
      BY <3>1, <3>2 DEF Pinned
  <2>3. QED
    BY <2>1, <2>2
<1>5. InUse \in SUBSET Bufs /\ Pinned \in SUBSET Bufs
  BY DEF InUse, Pinned, TypeOK
<1>6. InUse \cup Pinned = Bufs
  BY <1>4, <1>5
<1>7. NBUF <= Cardinality(InUse) + Cardinality(Pinned)
  <2>1. Cardinality(InUse \cup Pinned) = Cardinality(InUse) + Cardinality(Pinned) - Cardinality(InUse \cap Pinned)
    BY <1>5, BufSets, FS_Union
  <2>2. Cardinality(InUse \cap Pinned) \in Nat
    BY <1>5, BufSets
  <2>3. Cardinality(InUse) \in Nat /\ Cardinality(Pinned) \in Nat
    BY <1>5, BufSets
  <2>4. Cardinality(InUse \cup Pinned) = NBUF
    BY <1>6, BufsFinite
  <2>5. QED
    BY <2>1, <2>2, <2>3, <2>4
<1>8. QED
  <2> DEFINE m == MaxHeld * Cardinality(Procs)
             u == Cardinality(InUse)
             d == Cardinality(Pinned)
  <2>1. u \in Nat /\ d \in Nat /\ d <= MaxPinned /\ u < m /\ NBUF <= u + d
    BY <1>2, <1>5, <1>7, BufSets DEF RoomInv
  <2>2. m \in Nat /\ MaxPinned \in Nat /\ NBUF \in Nat
    BY CacheAssumption, FS_CardinalityType
  <2> HIDE DEF m, u, d
  <2>3. NBUF < MaxPinned + m
    BY <2>1, <2>2
  <2>4. QED
    BY <1>6, <2>3 DEF m, Full, TooSmall

\* No step uses or pins more than its process and the log may, and the panics
\* of brelse(), bwrite() and iderw() are never reached.
LEMMA RoomStep ==
    ASSUME TypeOK, ListInv, CallsInv, BlockInv, CountInv, QueueInv, DriveInv, RoomInv, Running
    PROVE  RoomInv'
<1>1. \A p \in Procs : CallInv(p)
  BY DEF CallsInv
<1>2. \A p \in Procs : pc[p] # "run" => want[p] \in Bufs /\ blockno[want[p]] \in Blocks
  BY WantedBuffer
<1>3. /\ want \in [Procs -> Bufs \cup {0}] /\ held \in [Procs -> SUBSET Bufs] /\ 0 \notin Bufs
      /\ idequeue \in Seq(Bufs) /\ dirty \subseteq Bufs /\ ~panicked
      /\ MaxHeld \in Nat /\ MaxPinned \in Nat
  BY Constants, CacheAssumption DEF TypeOK, Running
<1>4. /\ Pinned \in SUBSET Bufs /\ Cardinality(Pinned) <= MaxPinned
      /\ \A q \in Procs : Uses(q) \in SUBSET Bufs /\ Cardinality(Uses(q)) <= MaxHeld
  BY <1>3 DEF RoomInv, Pinned, Uses
<1>5. ASSUME NEW S \in SUBSET Bufs, NEW T \in SUBSET S, NEW m \in Nat, Cardinality(S) <= m
      PROVE  Cardinality(T) <= m
  <2>1. IsFiniteSet(S) /\ Cardinality(S) \in Nat /\ Cardinality(T) \in Nat
    BY BufSets
  <2>2. Cardinality(T) <= Cardinality(S)
    BY <2>1, FS_Subset
  <2>3. QED
    BY <1>5, <2>1, <2>2
<1>6. ASSUME Pinned' \subseteq Pinned PROVE Cardinality(Pinned') <= MaxPinned
  BY <1>3, <1>4, <1>5, <1>6
<1>7. ASSUME NEW q \in Procs, Uses(q)' \subseteq Uses(q) PROVE Cardinality(Uses(q)') <= MaxHeld
  BY <1>3, <1>4, <1>5, <1>7
<1>8. ASSUME UNCHANGED <<dirty, idequeue, want, held>>, ~panicked' PROVE RoomInv'
  BY <1>6, <1>7, <1>8 DEF RoomInv, Pinned, Uses
<1>9. ASSUME NEW p \in Procs, NEW b \in Bufs, NEW k \in Blocks, MayAsk(p, k),
             want' = [want EXCEPT ![p] = b], UNCHANGED <<held, idequeue>>, dirty' \subseteq dirty, ~panicked'
      PROVE  RoomInv'
  <2>1. want[p] = 0 /\ Cardinality(held[p]) < MaxHeld /\ held[p] \in SUBSET Bufs
    BY <1>1, <1>3, <1>9 DEF MayAsk, CallInv
  <2>2. Uses(p)' = held[p] \cup {b}
    BY <1>3, <1>9 DEF Uses
  <2>3. Cardinality(held[p] \cup {b}) <= MaxHeld
    <3>1. IsFiniteSet(held[p]) /\ Cardinality(held[p]) \in Nat
      BY <2>1, BufSets
    <3>2. \/ Cardinality(held[p] \cup {b}) = Cardinality(held[p])
          \/ Cardinality(held[p] \cup {b}) = Cardinality(held[p]) + 1
      BY <3>1, FS_AddElement
    <3>3. QED
      BY <1>3, <2>1, <3>1, <3>2
  <2>4. ASSUME NEW q \in Procs \ {p} PROVE Uses(q)' \subseteq Uses(q)
    BY <1>3, <1>9 DEF Uses
  <2>5. Pinned' \subseteq Pinned
    BY <1>9 DEF Pinned
  <2>6. QED
    BY <1>6, <1>7, <1>9, <2>2, <2>3, <2>4, <2>5 DEF RoomInv
<1>10. ASSUME NEW p \in Procs, NEW k \in Blocks, BgetHit(p, k)
      PROVE  RoomInv'
  <2>1. MostRecent(Cached(k)) \in Bufs
    BY <1>10, HitBuffer DEF BgetHit
  <2>2. QED
    BY <1>3, <1>9, <1>10, <2>1 DEF BgetHit, device
<1>11. ASSUME NEW p \in Procs, NEW k \in Blocks, BgetRecycle(p, k)
       PROVE  RoomInv'
  <2>1. CASE Recyclable = {}
    <3>1. UNCHANGED <<dirty, idequeue, want, held>>
      BY <1>11, <2>1 DEF BgetRecycle, Panic, device
    <3>2. Full'
      BY <1>11, <2>1, <3>1, NoRoom DEF BgetRecycle, Full, TooSmall, Pinned, InUse
    <3>3. Cardinality(Pinned') <= MaxPinned /\ \A q \in Procs : Cardinality(Uses(q)') <= MaxHeld
      BY <1>6, <1>7, <3>1 DEF Pinned, Uses
    <3>4. QED
      BY <3>2, <3>3 DEF RoomInv
  <2>2. CASE Recyclable # {}
    <3>1. LeastRecent(Recyclable) \in Bufs
      BY <2>2, RecycledBuffer
    <3>2. QED
      BY <1>3, <1>9, <1>11, <2>2, <3>1 DEF BgetRecycle, device
  <2>3. QED
    BY <2>1, <2>2
<1>12. ASSUME NEW p \in Procs, AcquireSleep(p)
       PROVE  RoomInv'
  BY <1>3, <1>8, <1>12 DEF AcquireSleep, device
<1>13. ASSUME NEW p \in Procs, ~panicked', Pinned' \subseteq Pinned, Uses(p)' \subseteq Uses(p),
              \A q \in Procs \ {p} : want'[q] = want[q] /\ held'[q] = held[q]
       PROVE  RoomInv'
  <2>1. \A q \in Procs : Uses(q)' \subseteq Uses(q)
    BY <1>13 DEF Uses
  <2>2. QED
    BY <1>6, <1>7, <1>13, <2>1 DEF RoomInv
<1>14. ASSUME NEW p \in Procs, NEW b \in Bufs, Brelse(p, b)
       PROVE  RoomInv'
  <2>1. ~panicked' /\ b \in held[p]
    BY <1>1, <1>14 DEF Brelse, NotHeld, CallInv
  <2>2. /\ want' = [want EXCEPT ![p] = b] /\ held' = [held EXCEPT ![p] = @ \ {b}]
        /\ UNCHANGED <<dirty, idequeue>>
    BY <1>14 DEF Brelse, device
  <2>3. Pinned' \subseteq Pinned
    BY <2>2 DEF Pinned
  <2>4. Uses(p)' \subseteq Uses(p)
    BY <1>3, <2>1, <2>2 DEF Uses
  <2>5. \A q \in Procs \ {p} : want'[q] = want[q] /\ held'[q] = held[q]
    BY <1>3, <2>2
  <2>6. QED
    BY <1>13, <2>1, <2>3, <2>4, <2>5
<1>15. ASSUME NEW p \in Procs, BrelseRef(p)
       PROVE  RoomInv'
  <2>1. want' = [want EXCEPT ![p] = 0] /\ UNCHANGED <<held, dirty, idequeue, panicked>>
    BY <1>15 DEF BrelseRef, Return, device
  <2>2. Pinned' \subseteq Pinned
    BY <2>1 DEF Pinned
  <2>3. Uses(p)' \subseteq Uses(p)
    BY <1>3, <2>1 DEF Uses
  <2>4. QED
    BY <1>3, <1>13, <2>1, <2>2, <2>3
<1>16. ASSUME NEW p \in Procs, NEW b \in Uses(p), ~panicked', Pinned' \subseteq Pinned,
              want' = [want EXCEPT ![p] = 0], held' = [held EXCEPT ![p] = @ \cup {b}]
       PROVE  RoomInv'
  <2>1. Uses(p)' \subseteq Uses(p)
    BY <1>3, <1>16 DEF Uses
  <2>2. QED
    BY <1>3, <1>13, <1>16, <2>1
<1>17. ASSUME NEW p \in Procs, BreadCached(p)
       PROVE  RoomInv'
  <2>1. want[p] \in Uses(p)
    BY <1>2, <1>17 DEF BreadCached, Uses
  <2>2. Pinned' \subseteq Pinned /\ ~panicked'
    BY <1>3, <1>17 DEF BreadCached, Pinned, device
  <2>3. QED
    BY <1>16, <1>17, <2>1, <2>2 DEF BreadCached, Return
<1>18. ASSUME NEW p \in Procs, BreadDisk(p)
       PROVE  RoomInv'
  <2>1. want[p] \in Bufs /\ want[p] \in Uses(p) /\ owner[want[p]] = p
    BY <1>1, <1>2, <1>18 DEF BreadDisk, Uses, CallInv
  <2>2. ~panicked' /\ UNCHANGED dirty
    BY <1>18, <2>1 DEF BreadDisk, NotHeld
  <2>3. CASE driver = "memide"
    <3>1. want' = [want EXCEPT ![p] = 0] /\ held' = [held EXCEPT ![p] = @ \cup {want[p]}] /\ UNCHANGED idequeue
      BY <1>18, <2>3 DEF BreadDisk, IdeRw, MemRw, Return
    <3>2. Pinned' \subseteq Pinned
      BY <2>2, <3>1 DEF Pinned
    <3>3. QED
      BY <1>16, <2>1, <2>2, <3>1, <3>2
  <2>4. CASE driver # "memide"
    <3>1. want' = [want EXCEPT ![p] = want[p]] /\ UNCHANGED held /\ idequeue' = Append(idequeue, want[p])
      BY <1>18, <2>4 DEF BreadDisk, IdeRw, MemRw
    <3>2. Pinned' \subseteq Pinned
      <4>1. ToSet(idequeue) \subseteq ToSet(idequeue')
        BY <1>3, <2>1, <3>1 DEF ToSet
      <4>2. QED
        BY <2>2, <4>1 DEF Pinned
    <3>3. Uses(p)' \subseteq Uses(p)
      BY <1>3, <3>1 DEF Uses
    <3>4. QED
      BY <1>3, <1>13, <2>2, <3>1, <3>2, <3>3
  <2>5. QED
    BY <2>3, <2>4
<1>19. ASSUME NEW p \in Procs, NEW b \in Bufs, NEW v \in Data, Bwrite(p, b, v)
       PROVE  RoomInv'
  <2>1. b \in held[p] /\ owner[b] = p /\ b \in Uses(p)
    BY <1>1, <1>19 DEF Bwrite, Uses, CallInv
  <2>2. ~panicked'
    BY <1>19, <2>1 DEF Bwrite, NotHeld
  <2>3. CASE driver = "memide"
    <3>1. /\ want' = [want EXCEPT ![p] = 0] /\ held' = [held EXCEPT ![p] = @ \cup {b}] /\ UNCHANGED idequeue
          /\ dirty' = dirty \ {b}
      BY <1>19, <2>3 DEF Bwrite, IdeRw, MemRw, Return
    <3>2. Pinned' \subseteq Pinned
      BY <3>1 DEF Pinned
    <3>3. QED
      BY <1>16, <2>1, <2>2, <3>1, <3>2
  <2>4. CASE driver # "memide"
    <3>1. /\ want' = [want EXCEPT ![p] = b] /\ UNCHANGED held /\ idequeue' = Append(idequeue, b)
          /\ dirty' = dirty \cup {b}
      BY <1>19, <2>4 DEF Bwrite, IdeRw, MemRw
    <3>2. Pinned' \subseteq Pinned
      <4>1. ToSet(idequeue) \subseteq ToSet(idequeue')
        BY <1>3, <3>1 DEF ToSet
      <4>2. b \in ToSet(idequeue')
        BY <1>3, <3>1 DEF ToSet
      <4>3. QED
        BY <3>1, <4>1, <4>2 DEF Pinned
    <3>3. Uses(p)' \subseteq Uses(p)
      BY <1>3, <2>1, <3>1 DEF Uses
    <3>4. QED
      BY <1>3, <1>13, <2>2, <3>1, <3>2, <3>3
  <2>5. QED
    BY <2>3, <2>4
<1>20. ASSUME NEW p \in Procs, NEW b \in Bufs, NEW v \in Data, LogWrite(p, b, v)
       PROVE  RoomInv'
  <2>1. /\ dirty' = dirty \cup {b} /\ UNCHANGED <<idequeue, want, held, panicked>>
        /\ b \in Pinned \/ Cardinality(Pinned) < MaxPinned
    BY <1>20 DEF LogWrite, device
  <2>2. Pinned' \subseteq Pinned \cup {b}
    BY <2>1 DEF Pinned
  <2>3. Cardinality(Pinned') <= MaxPinned
    <3>1. CASE b \in Pinned
      BY <1>6, <2>2, <3>1
    <3>2. CASE b \notin Pinned
      <4>1. IsFiniteSet(Pinned) /\ Cardinality(Pinned) \in Nat
        BY <1>4, BufSets
      <4>2. Cardinality(Pinned \cup {b}) = Cardinality(Pinned) + 1
        BY <3>2, <4>1, FS_AddElement
      <4>3. Cardinality(Pinned \cup {b}) <= MaxPinned
        BY <1>3, <2>1, <3>2, <4>1, <4>2
      <4>4. Pinned \cup {b} \in SUBSET Bufs
        BY <1>4
      <4>5. QED
        BY <1>3, <1>5, <2>2, <4>3, <4>4
    <3>3. QED
      BY <3>1, <3>2
  <2>4. \A q \in Procs : Uses(q)' \subseteq Uses(q)
    BY <2>1 DEF Uses
  <2>5. QED
    BY <1>3, <1>7, <2>1, <2>3, <2>4 DEF RoomInv
<1>21. ASSUME NEW p \in Procs, RwTest(p)
       PROVE  RoomInv'
  <2>1. want[p] \in Uses(p) /\ ~panicked' /\ UNCHANGED <<dirty, idequeue>>
    BY <1>2, <1>3, <1>21 DEF RwTest, Uses, device
  <2>2. Pinned' \subseteq Pinned
    BY <2>1 DEF Pinned
  <2>3. QED
    BY <1>8, <1>16, <1>21, <2>1, <2>2 DEF RwTest, Return
<1>22. CASE DriveDone
  BY <1>3, <1>8, <1>22 DEF DriveDone
<1>23. CASE IdeIntr
  <2>1. idequeue # <<>>
    BY <1>23 DEF IdeIntr, DriveInv
  <2>2. /\ dirty' = dirty \ {Head(idequeue)} /\ idequeue' = Tail(idequeue)
        /\ UNCHANGED <<want, held, panicked>>
    BY <1>23 DEF IdeIntr
  <2>3. ASSUME NEW c \in ToSet(idequeue), c # Head(idequeue) PROVE c \in ToSet(idequeue')
    <3>1. PICK i \in 1..Len(idequeue) : idequeue[i] = c
      BY <1>3, <2>3 DEF ToSet
    <3>2. i # 1 /\ i - 1 \in 1..Len(Tail(idequeue)) /\ Tail(idequeue)[i - 1] = c
      BY <1>3, <2>1, <2>3, <3>1
    <3>3. i - 1 \in DOMAIN idequeue' /\ idequeue'[i - 1] = c
      BY <1>3, <2>1, <2>2, <3>2
    <3>4. QED
      BY <3>3 DEF ToSet
  <2>4. Pinned' \subseteq Pinned
    BY <2>2, <2>3 DEF Pinned
  <2>5. \A q \in Procs : Uses(q)' \subseteq Uses(q)
    BY <2>2 DEF Uses
  <2>6. QED
    BY <1>3, <1>6, <1>7, <2>2, <2>4, <2>5 DEF RoomInv
<1>24. ASSUME NEW p \in Procs, Kill(p)
       PROVE  RoomInv'
  BY <1>3, <1>8, <1>24 DEF Kill, device
<1>25. QED
  BY <1>10, <1>11, <1>12, <1>14, <1>15, <1>17, <1>18, <1>19, <1>20, <1>21, <1>22, <1>23, <1>24
     DEF Running, Call, Step

-----------------------------------------------------------------------------
(* The theorems. *)

\* After binit() and ideinit() nothing is used, valid or queued.
LEMMA InitIInv == Init => IInv
<1> SUFFICES ASSUME Init PROVE IInv
  OBVIOUS
<1>1. NBUF \in Nat /\ NBUF > 0
  BY Constants
<1>2. list \in [Bufs -> Bufs] /\ ListInv
  <2>1. list = [i \in Bufs |-> NBUF - i + 1]
    BY DEF Init
  <2>2. \A i \in Bufs : i \in Nat /\ NBUF - i + 1 \in Bufs /\ NBUF - (NBUF - i + 1) + 1 = i
    BY <1>1 DEF Bufs
  <2>3. \A b \in Bufs : list[NBUF - b + 1] = b
    BY <2>1, <2>2
  <2>4. \A i, j \in Bufs : list[i] = list[j] => i = j
    BY <1>1, <2>1, <2>2
  <2>5. QED
    BY <2>1, <2>2, <2>3, <2>4 DEF ListInv
<1>3. TypeOK
  <2>1. blockno \in [Bufs -> Blocks \cup {NOBLOCK}] /\ refcnt \in [Bufs -> Nat] /\ data \in [Bufs -> Data]
    BY Constants DEF Init
  <2>2. owner \in [Bufs -> Procs \cup {NOBODY}] /\ disk \in [Blocks -> Data]
    BY Constants DEF Init
  <2>3. pc \in [Procs -> Places] /\ want \in [Procs -> Bufs \cup {0}] /\ held \in [Procs -> SUBSET Bufs]
    BY DEF Init, Places
  <2>4. /\ valid \subseteq Bufs /\ dirty \subseteq Bufs /\ driver \in Drivers /\ idequeue \in Seq(Bufs)
    BY DEF Init
  <2>5. drive \in Requests \cup {IDLE}
    BY DEF Init
  <2>6. panicked \in BOOLEAN
    BY DEF Init
  <2>7. QED
    BY <1>2, <2>1, <2>2, <2>3, <2>4, <2>5, <2>6 DEF TypeOK
<1>4. CallsInv
  BY DEF Init, CallsInv, CallInv
<1>5. BlockInv
  BY Constants DEF Init, BlockInv, NOBLOCK
<1>6. CountInv
  <2>1. \A b \in Bufs : Users(b) = {}
    BY Constants DEF Init, Users
  <2>2. QED
    BY <2>1, FS_EmptySet DEF Init, CountInv
<1>7. QueueInv /\ DriveInv /\ CleanInv
  BY DEF Init, QueueInv, DriveInv, CleanInv
<1>8. RoomInv
  <2>1. Pinned = {} /\ \A p \in Procs : Uses(p) = {}
    BY Constants DEF Init, Pinned, Uses
  <2>2. QED
    <3>1. Cardinality({}) = 0 /\ MaxPinned \in Nat /\ MaxHeld \in Nat
      BY FS_EmptySet, CacheAssumption
    <3>2. ~panicked
      BY DEF Init
    <3>3. QED
      BY <2>1, <3>1, <3>2 DEF RoomInv
<1>9. QED
  BY <1>2, <1>3, <1>4, <1>5, <1>6, <1>7, <1>8 DEF IInv

\* A step that changes nothing.
LEMMA StutterIInv == IInv /\ UNCHANGED vars => IInv'
<1> SUFFICES ASSUME IInv, UNCHANGED vars PROVE IInv'
  OBVIOUS
<1>1. TypeOK' /\ ListInv' /\ CallsInv' /\ BlockInv'
  BY DEF IInv, vars, TypeOK, ListInv, CallsInv, CallInv, BlockInv
<1>2. CountInv' /\ RoomInv'
  BY DEF IInv, vars, CountInv, Users, RoomInv, Pinned, Uses, Full, TooSmall, InUse
<1>3. QueueInv' /\ DriveInv' /\ CleanInv'
  BY DEF IInv, vars, QueueInv, DriveInv, CleanInv
<1>4. QED
  BY <1>1, <1>2, <1>3 DEF IInv

\* The inductive invariant: one buffer per block, counts that equal the users,
\* locks with their owners, requests of processes that wait for them, and clean
\* buffers that have what the disk has.
THEOREM Invariant == Spec => []IInv
<1>1. IInv /\ Running => IInv'
  BY TypeStep, CallsStep, BlockStep, CountStep, DiskStep, RoomStep DEF IInv
<1>2. Halted => UNCHANGED vars
  BY DEF Halted
<1>3. QED
  BY InitIInv, StutterIInv, <1>1, <1>2, PTL DEF Spec, Next

\* Every variable has its type.
THEOREM TypeCorrect == Spec => []TypeOK
<1>1. IInv => TypeOK
  BY DEF IInv
<1>2. QED
  BY <1>1, Invariant, PTL

\* bget() panics only when every buffer is pinned or in use, so that brelse()
\* and the waits in bread() and bwrite() lose none; and a process that has a
\* buffer has its lock, whatever other processes and interrupts do meanwhile.
THEOREM NoBufferLostHolds == Spec => []NoBufferLost
<1>1. IInv => NoBufferLost
  BY DEF IInv, RoomInv, Full, CallsInv, CallInv, NoBufferLost
<1>2. QED
  BY <1>1, Invariant, PTL

\* bget() finds a buffer in any cache of MaxPinned + MaxHeld * |Procs| buffers:
\* what NBUF would have to be for the kernel never to panic for want of one.
THEOREM EnoughBuffers == Spec => [](~TooSmall => ~panicked)
<1>1. IInv => (~TooSmall => ~panicked)
  BY DEF IInv, RoomInv, Full
<1>2. QED
  BY <1>1, Invariant, PTL

-----------------------------------------------------------------------------
(* The cache and the disk implement an array of blocks. *)

\* A valid buffer has the contents of its block; without one the disk has them.
LEMMA ContentsHere ==
    ASSUME BlockInv, valid \subseteq Bufs, NEW k \in Blocks
    PROVE  /\ \A b \in valid : blockno[b] = k => Contents(k) = data[b]
           /\ (\A b \in valid : blockno[b] # k) => Contents(k) = disk[k]
<1> DEFINE copies == {b \in valid : blockno[b] = k}
<1>1. ASSUME NEW b \in valid, blockno[b] = k PROVE Contents(k) = data[b]
  <2>1. copies = {b}
    BY <1>1 DEF BlockInv
  <2>2. copies # {} /\ (CHOOSE c \in copies : TRUE) = b
    BY <2>1
  <2>3. QED
    BY <2>2 DEF Contents
<1>2. ASSUME \A b \in valid : blockno[b] # k PROVE Contents(k) = disk[k]
  BY <1>2 DEF Contents
<1>3. QED
  BY <1>1, <1>2

\* The same in the next state.
LEMMA ContentsNext ==
    ASSUME BlockInv', valid' \subseteq Bufs, NEW k \in Blocks
    PROVE  /\ \A b \in valid' : blockno'[b] = k => Contents(k)' = data'[b]
           /\ (\A b \in valid' : blockno'[b] # k) => Contents(k)' = disk'[k]
<1> DEFINE copies == {b \in valid' : blockno'[b] = k}
<1>1. ASSUME NEW b \in valid', blockno'[b] = k PROVE Contents(k)' = data'[b]
  <2>1. copies = {b}
    BY <1>1 DEF BlockInv
  <2>2. copies # {} /\ (CHOOSE c \in copies : TRUE) = b
    BY <2>1
  <2>3. QED
    BY <2>2 DEF Contents
<1>2. ASSUME \A b \in valid' : blockno'[b] # k PROVE Contents(k)' = disk'[k]
  BY <1>2 DEF Contents
<1>3. QED
  BY <1>1, <1>2

\* The blocks keep their contents if every valid buffer does, and the disk has
\* the contents of what leaves the cache and gives those of what enters it.
LEMMA ContentKept ==
    ASSUME TypeOK, TypeOK', BlockInv, BlockInv',
           \A b \in valid \cap valid' : blockno'[b] = blockno[b] /\ data'[b] = data[b],
           \A b \in valid \ valid' : data[b] = disk[blockno[b]],
           \A b \in valid' \ valid : blockno'[b] = blockno[b] /\ data'[b] = disk[blockno[b]],
           \A k \in Blocks : disk'[k] # disk[k] => \E b \in valid \cap valid' : blockno[b] = k
    PROVE  Content' = Content
<1> SUFFICES ASSUME NEW k \in Blocks PROVE Contents(k)' = Contents(k)
  BY DEF Content
<1>1. valid \subseteq Bufs /\ valid' \subseteq Bufs
  BY DEF TypeOK
<1>2. CASE \E b \in valid \cap valid' : blockno[b] = k
  <2>1. PICK b \in valid \cap valid' : blockno[b] = k
    BY <1>2
  <2>2. Contents(k) = data[b] /\ Contents(k)' = data'[b]
    BY <1>1, <2>1, ContentsHere, ContentsNext
  <2>3. QED
    BY <2>1, <2>2
<1>3. CASE ~\E b \in valid \cap valid' : blockno[b] = k
  <2>1. disk'[k] = disk[k]
    BY <1>3
  <2>2. Contents(k) = disk[k]
    <3>1. CASE \E b \in valid : blockno[b] = k
      <4>1. PICK b \in valid : blockno[b] = k
        BY <3>1
      <4>2. b \in valid \ valid'
        BY <1>3, <4>1
      <4>3. QED
        BY <1>1, <4>1, <4>2, ContentsHere
    <3>2. QED
      BY <1>1, <3>1, ContentsHere
  <2>3. Contents(k)' = disk[k]
    <3>1. CASE \E b \in valid' : blockno'[b] = k
      <4>1. PICK b \in valid' : blockno'[b] = k
        BY <3>1
      <4>2. b \in valid' \ valid
        BY <1>3, <4>1
      <4>3. QED
        BY <1>1, <4>1, <4>2, ContentsNext
    <3>2. QED
      BY <1>1, <2>1, <3>1, ContentsNext
  <2>4. QED
    BY <2>2, <2>3
<1>4. QED
  BY <1>2, <1>3

\* Who has a block has its buffer, and is alone.
LEMMA HolderAlone ==
    ASSUME TypeOK, CallsInv, BlockInv, NEW b \in Bufs, NEW p \in Procs, blockno[b] \in Blocks,
           owner[b] = p
    PROVE  Holders[blockno[b]] = IF b \in held[p] THEN {p} ELSE {}
<1>1. ASSUME NEW q \in Procs, NEW c \in held[q], blockno[c] = blockno[b]
      PROVE  c = b /\ q = p
  <2>1. c \in Bufs /\ owner[c] = q
    BY HeldBuffer
  <2>2. c = b
    BY <1>1, <2>1 DEF BlockInv
  <2>3. QED
    BY <2>1, <2>2
<1>2. Holders[blockno[b]] = {q \in Procs : \E c \in held[q] : blockno[c] = blockno[b]}
  BY DEF Holders
<1>3. QED
  BY <1>1, <1>2

\* The end of bread(): Take, unless it is the end of bwrite().
LEMMA TakeStep ==
    ASSUME TypeOK, CallsInv, BlockInv, NEW b \in Bufs, NEW p \in Procs, blockno[b] \in Blocks,
           owner[b] = p, held' = [held EXCEPT ![p] = @ \cup {b}], UNCHANGED blockno,
           Content' = Content
    PROVE  [Store!Next]_(Store!vars)
<1>1. held \in [Procs -> SUBSET Bufs]
  BY DEF TypeOK
<1>2. CASE b \in held[p]
  <2>1. held' = held
    BY <1>1, <1>2
  <2>2. Holders' = Holders
    BY <2>1 DEF Holders
  <2>3. QED
    BY <2>2 DEF Store!vars
<1>3. CASE b \notin held[p]
  <2>1. PICK k \in Blocks : k = blockno[b]
    OBVIOUS
  <2>2. Holders[k] = {}
    BY <1>3, <2>1, HolderAlone
  <2>3. Holders' = [Holders EXCEPT ![k] = {p}]
    <3>1. ASSUME NEW j \in Blocks PROVE Holders'[j] = IF j = k THEN {p} ELSE Holders[j]
      <4>1. /\ Holders[j] = {q \in Procs : \E c \in held[q] : blockno[c] = j}
            /\ Holders'[j] = {q \in Procs : \E c \in held'[q] : blockno[c] = j}
        BY DEF Holders
      <4>2. \A q \in Procs : (\E c \in held'[q] : blockno[c] = j)
                               <=> ((\E c \in held[q] : blockno[c] = j) \/ (q = p /\ j = k))
        BY <1>1, <2>1
      <4>3. Holders'[j] = Holders[j] \cup (IF j = k THEN {p} ELSE {})
        BY <4>1, <4>2
      <4>4. QED
        BY <2>2, <4>3
    <3>2. QED
      BY <3>1 DEF Holders
  <2>4. Store!Take(p, k)
    BY <2>2, <2>3 DEF Store!Take
  <2>5. QED
    BY <2>4 DEF Store!Next
<1>4. QED
  BY <1>2, <1>3

\* A change of a buffer by its holder: Write.
LEMMA WriteStep ==
    ASSUME TypeOK, TypeOK', CallsInv, BlockInv, BlockInv', NEW p \in Procs, NEW b \in held[p], NEW v \in Data,
           data' = [data EXCEPT ![b] = v], UNCHANGED <<blockno, valid, held>>,
           \A j \in Blocks : j # blockno[b] => disk'[j] = disk[j]
    PROVE  [Store!Next]_(Store!vars)
<1>1. b \in Bufs /\ b \in valid /\ blockno[b] \in Blocks /\ owner[b] = p
  BY HeldBuffer
<1>2. PICK k \in Blocks : k = blockno[b]
  BY <1>1
<1>3. Holders[k] = {p}
  BY <1>1, <1>2, HolderAlone
<1>4. Holders' = Holders
  BY DEF Holders
<1>5. Content' = [Content EXCEPT ![k] = v]
  <2>1. valid \subseteq Bufs /\ valid' \subseteq Bufs /\ data \in [Bufs -> Data]
    BY DEF TypeOK
  <2>2. ASSUME NEW j \in Blocks PROVE Contents(j)' = IF j = k THEN v ELSE Contents(j)
    <3>1. CASE j = k
      <4>1. Contents(j)' = data'[b]
        BY <1>1, <1>2, <2>1, <3>1, ContentsNext
      <4>2. QED
        BY <2>1, <1>1, <3>1, <4>1
    <3>2. CASE j # k
      <4>1. CASE \E c \in valid : blockno[c] = j
        <5>1. PICK c \in valid : blockno[c] = j
          BY <4>1
        <5>2. Contents(j) = data[c] /\ Contents(j)' = data'[c]
          BY <2>1, <5>1, ContentsHere, ContentsNext
        <5>3. c # b /\ data'[c] = data[c]
          BY <1>2, <2>1, <3>2, <5>1
        <5>4. QED
          BY <3>2, <5>2, <5>3
      <4>2. CASE ~\E c \in valid : blockno[c] = j
        <5>1. Contents(j) = disk[j] /\ Contents(j)' = disk'[j]
          BY <2>1, <4>2, ContentsHere, ContentsNext
        <5>2. QED
          BY <1>2, <3>2, <5>1
      <4>3. QED
        BY <4>1, <4>2
    <3>3. QED
      BY <3>1, <3>2
  <2>3. QED
    BY <2>2 DEF Content
<1>6. Store!Write(p, k, v)
  BY <1>3, <1>4, <1>5 DEF Store!Write
<1>7. QED
  BY <1>6 DEF Store!Next

\* Every step of the cache and of the driver is a step of BlockStore or none.
LEMMA StepImplements ==
    ASSUME ReadErrors = FALSE, IInv, IInv', Running
    PROVE  [Store!Next]_(Store!vars)
<1>1. /\ TypeOK /\ TypeOK' /\ ListInv /\ CallsInv /\ BlockInv /\ BlockInv' /\ CountInv
      /\ QueueInv /\ DriveInv /\ CleanInv
  BY DEF IInv
<1>2. /\ \A p \in Procs : CallInv(p)
      /\ \A p \in Procs : pc[p] # "run" => want[p] \in Bufs /\ blockno[want[p]] \in Blocks
  BY <1>1, WantedBuffer DEF CallsInv
<1>3. /\ data \in [Bufs -> Data] /\ blockno \in [Bufs -> Blocks \cup {NOBLOCK}]
      /\ held \in [Procs -> SUBSET Bufs] /\ disk \in [Blocks -> Data] /\ valid \subseteq Bufs
  BY <1>1 DEF TypeOK
<1>4. ASSUME Content' = Content, UNCHANGED <<blockno, held>>
      PROVE  [Store!Next]_(Store!vars)
  <2>1. Holders' = Holders
    BY <1>4 DEF Holders
  <2>2. QED
    BY <1>4, <2>1 DEF Store!vars
<1>5. ASSUME UNCHANGED <<blockno, valid, data, disk>> PROVE Content' = Content
  BY <1>5 DEF Content, Contents
<1>6. ASSUME NEW p \in Procs, NEW k \in Blocks, BgetHit(p, k)
      PROVE  [Store!Next]_(Store!vars)
  BY <1>4, <1>5, <1>6 DEF BgetHit, device
<1>7. ASSUME NEW p \in Procs, NEW k \in Blocks, BgetRecycle(p, k)
      PROVE  [Store!Next]_(Store!vars)
  <2>1. CASE Recyclable = {}
    BY <1>4, <1>5, <1>7, <2>1 DEF BgetRecycle, Panic, cache, device
  <2>2. CASE Recyclable # {}
    <3>1. PICK b \in Bufs : /\ b = LeastRecent(Recyclable) /\ b \notin dirty
                            /\ \A q \in Procs : b \notin held[q]
      BY <1>1, <2>2, RecycledBuffer, RecycledUnused
    <3>2. /\ blockno' = [blockno EXCEPT ![b] = k] /\ valid' = valid \ {b}
          /\ UNCHANGED <<data, disk, held>>
      BY <1>7, <2>2, <3>1 DEF BgetRecycle, device
    <3>3. \A c \in Bufs : c # b => blockno'[c] = blockno[c]
      BY <1>3, <3>2
    <3>4. Content' = Content
      <4>1. \A c \in valid \cap valid' : blockno'[c] = blockno[c] /\ data'[c] = data[c]
        BY <1>3, <3>2, <3>3
      <4>2. \A c \in valid \ valid' : data[c] = disk[blockno[c]]
        BY <1>1, <3>1, <3>2 DEF CleanInv
      <4>3. valid' \ valid = {} /\ disk' = disk
        BY <3>2
      <4>4. QED
        BY <1>1, <4>1, <4>2, <4>3, ContentKept
    <3>5. Holders' = Holders
      <4>1. \A j \in Blocks, q \in Procs :
              (\E c \in held'[q] : blockno'[c] = j) <=> (\E c \in held[q] : blockno[c] = j)
        BY <1>3, <3>1, <3>2, <3>3
      <4>2. QED
        BY <4>1 DEF Holders
    <3>6. QED
      BY <3>4, <3>5 DEF Store!vars
  <2>3. QED
    BY <2>1, <2>2
<1>8. ASSUME NEW p \in Procs, AcquireSleep(p)
      PROVE  [Store!Next]_(Store!vars)
  BY <1>4, <1>5, <1>8 DEF AcquireSleep, cache, device
<1>9. ASSUME NEW p \in Procs, NEW b \in Bufs, Brelse(p, b)
      PROVE  [Store!Next]_(Store!vars)
  <2>1. b \in held[p] /\ owner[b] = p /\ blockno[b] \in Blocks
    BY <1>1, <1>9, HeldBuffer DEF Brelse
  <2>2. PICK k \in Blocks : k = blockno[b]
    BY <2>1
  <2>3. Holders[k] = {p}
    BY <1>1, <2>1, <2>2, HolderAlone
  <2>4. held' = [held EXCEPT ![p] = @ \ {b}] /\ UNCHANGED <<blockno, valid, data, disk>>
    BY <1>9 DEF Brelse, cache, device
  <2>5. Holders' = [Holders EXCEPT ![k] = {}]
    <3>1. ASSUME NEW j \in Blocks PROVE Holders'[j] = IF j = k THEN {} ELSE Holders[j]
      <4>1. /\ Holders[j] = {q \in Procs : \E c \in held[q] : blockno[c] = j}
            /\ Holders'[j] = {q \in Procs : \E c \in held'[q] : blockno[c] = j}
        BY <2>4 DEF Holders
      <4>2. CASE j = k
        <5>1. \A q \in Procs : q # p => held'[q] = held[q] /\ q \notin Holders[j]
          BY <1>3, <2>3, <2>4, <4>2
        <5>2. \A c \in held'[p] : c \in Bufs /\ c # b /\ blockno[c] # k
          BY <1>1, <1>3, <2>1, <2>2, <2>4 DEF BlockInv
        <5>3. QED
          BY <4>1, <4>2, <5>1, <5>2
      <4>3. CASE j # k
        <5>1. \A q \in Procs : (\E c \in held'[q] : blockno[c] = j) <=> (\E c \in held[q] : blockno[c] = j)
          BY <1>3, <2>2, <2>4, <4>3
        <5>2. QED
          BY <4>1, <4>3, <5>1
      <4>4. QED
        BY <4>2, <4>3
    <3>2. QED
      BY <3>1 DEF Holders
  <2>6. Store!Give(p, k)
    BY <1>5, <2>3, <2>4, <2>5 DEF Store!Give
  <2>7. QED
    BY <2>6 DEF Store!Next
<1>10. ASSUME NEW p \in Procs, BrelseRef(p)
      PROVE  [Store!Next]_(Store!vars)
  BY <1>4, <1>5, <1>10 DEF BrelseRef, device
<1>11. ASSUME NEW p \in Procs, BreadCached(p)
       PROVE  [Store!Next]_(Store!vars)
  <2>1. want[p] \in Bufs /\ blockno[want[p]] \in Blocks /\ owner[want[p]] = p
    BY <1>2, <1>11 DEF BreadCached, CallInv
  <2>2. Content' = Content /\ UNCHANGED blockno
    BY <1>5, <1>11 DEF BreadCached, cache, device
  <2>3. QED
    BY <1>1, <1>11, <2>1, <2>2, TakeStep DEF BreadCached
<1>12. ASSUME NEW p \in Procs, BreadDisk(p)
       PROVE  [Store!Next]_(Store!vars)
  <2>1. PICK b \in Bufs : b = want[p] /\ blockno[b] \in Blocks /\ owner[b] = p
    BY <1>2, <1>12 DEF BreadDisk, CallInv
  <2>2. b \notin valid /\ UNCHANGED blockno
    BY <1>12, <2>1 DEF BreadDisk, cache
  <2>3. CASE driver = "memide"
    <3>1. /\ data' = [data EXCEPT ![b] = disk[blockno[b]]] /\ disk' = disk /\ valid' = valid \cup {b}
          /\ held' = [held EXCEPT ![p] = @ \cup {b}]
      BY <1>12, <2>1, <2>3 DEF BreadDisk, MemRw, IdeRw
    <3>2. Content' = Content
      <4>1. \A c \in valid \cap valid' : blockno'[c] = blockno[c] /\ data'[c] = data[c]
        BY <1>3, <2>2, <3>1
      <4>2. valid \ valid' = {} /\ disk' = disk
        BY <3>1
      <4>3. \A c \in valid' \ valid : blockno'[c] = blockno[c] /\ data'[c] = disk[blockno[c]]
        BY <1>3, <2>2, <3>1
      <4>4. QED
        BY <1>1, <4>1, <4>2, <4>3, ContentKept
    <3>3. QED
      BY <1>1, <2>1, <2>2, <3>1, <3>2, TakeStep
  <2>4. CASE driver # "memide"
    BY <1>4, <1>5, <1>12, <2>2, <2>4 DEF BreadDisk, MemRw, IdeRw
  <2>5. QED
    BY <2>3, <2>4
<1>13. ASSUME NEW p \in Procs, NEW b \in Bufs, NEW v \in Data, Bwrite(p, b, v)
       PROVE  [Store!Next]_(Store!vars)
  <2>1. b \in held[p] /\ data' = [data EXCEPT ![b] = v] /\ UNCHANGED blockno
    BY <1>13 DEF Bwrite, cache
  <2>2. b \in valid /\ blockno[b] \in Blocks
    BY <1>1, <2>1, HeldBuffer
  <2>3. UNCHANGED <<valid, held>> /\ (disk' = disk \/ disk' = [disk EXCEPT ![blockno[b]] = v])
    <3>1. CASE driver = "memide"
      <4>1. valid' = valid \cup {b} /\ held' = [held EXCEPT ![p] = @ \cup {b}] /\ disk' = [disk EXCEPT ![blockno[b]] = v]
        BY <1>13, <3>1 DEF Bwrite, MemRw, IdeRw
      <4>2. QED
        BY <1>3, <2>1, <2>2, <4>1
    <3>2. CASE driver # "memide"
      BY <1>13, <3>2 DEF Bwrite, MemRw, IdeRw
    <3>3. QED
      BY <3>1, <3>2
  <2>4. \A j \in Blocks : j # blockno[b] => disk'[j] = disk[j]
    BY <1>3, <2>3
  <2>5. QED
    BY <1>1, <2>1, <2>3, <2>4, WriteStep
<1>14. ASSUME NEW p \in Procs, NEW b \in Bufs, NEW v \in Data, LogWrite(p, b, v)
       PROVE  [Store!Next]_(Store!vars)
  <2>1. b \in held[p] /\ data' = [data EXCEPT ![b] = v] /\ UNCHANGED <<blockno, valid, held, disk>>
    BY <1>14 DEF LogWrite, cache, device
  <2>2. QED
    BY <1>1, <2>1, WriteStep
<1>15. ASSUME NEW p \in Procs, RwTest(p)
       PROVE  [Store!Next]_(Store!vars)
  <2>1. want[p] \in Bufs /\ blockno[want[p]] \in Blocks /\ owner[want[p]] = p
    BY <1>2, <1>15 DEF RwTest, CallInv
  <2>2. Content' = Content /\ UNCHANGED blockno
    BY <1>5, <1>15 DEF RwTest, cache, device
  <2>3. CASE want[p] \in valid \ dirty
    BY <1>1, <1>15, <2>1, <2>2, <2>3, TakeStep DEF RwTest
  <2>4. CASE want[p] \notin valid \ dirty
    BY <1>4, <1>15, <2>2, <2>4 DEF RwTest
  <2>5. QED
    BY <2>3, <2>4
<1>16. CASE DriveDone
  <2>1. UNCHANGED <<blockno, valid, data, held>>
    BY <1>16 DEF DriveDone, cache
  <2>2. \A k \in Blocks : disk'[k] # disk[k] => \E b \in valid \cap valid' : blockno[b] = k
    <3> SUFFICES ASSUME NEW k \in Blocks, disk'[k] # disk[k]
                 PROVE  \E b \in valid : blockno[b] = k
      BY <2>1
    <3>1. drive.write /\ drive.blk = k
      BY <1>3, <1>16 DEF DriveDone
    <3>2. idequeue # <<>> /\ idequeue[1] \in dirty /\ blockno[idequeue[1]] = k
      BY <1>1, <1>16, <3>1 DEF DriveDone, DriveInv
    <3>3. QED
      BY <1>1, <3>2 DEF BlockInv
  <2>3. \A b \in valid \cap valid' : blockno'[b] = blockno[b] /\ data'[b] = data[b]
    BY <2>1
  <2>4. valid' = valid
    BY <2>1
  <2>5. Content' = Content
    BY <1>1, <2>2, <2>3, <2>4, ContentKept
  <2>6. QED
    BY <1>4, <2>1, <2>5
<1>17. CASE IdeIntr
  <2>1. idequeue # <<>>
    BY <1>1, <1>17 DEF IdeIntr, DriveInv
  <2>2. PICK b \in Bufs : b = idequeue[1] /\ b = Head(idequeue) /\ 1 \in 1..Len(idequeue)
    BY <1>1, <2>1, QueueFacts, QueuedBuffer DEF TypeOK
  <2>3. /\ valid' = valid \cup {b} /\ UNCHANGED <<blockno, disk, held>>
        /\ \/ b \notin dirty /\ data' = [data EXCEPT ![b] = disk[drive.blk]]
           \/ b \in dirty /\ UNCHANGED data
    BY <1>17, <2>2 DEF IdeIntr, cache
  <2>4. (b \in dirty /\ b \in valid) \/ (b \notin dirty /\ b \notin valid)
    BY <1>1, <2>2 DEF QueueInv, BlockInv
  <2>5. drive.blk = blockno[b]
    BY <1>1, <2>1, <2>2 DEF DriveInv
  <2>6. \A c \in valid \cap valid' : blockno'[c] = blockno[c] /\ data'[c] = data[c]
    BY <1>3, <2>3, <2>4
  <2>7. \A c \in valid' \ valid : blockno'[c] = blockno[c] /\ data'[c] = disk[blockno[c]]
    BY <1>3, <2>3, <2>4, <2>5
  <2>8. valid \ valid' = {} /\ disk' = disk
    BY <2>3
  <2>9. Content' = Content
    BY <1>1, <2>6, <2>7, <2>8, ContentKept
  <2>10. QED
    BY <1>4, <2>3, <2>9
<1>18. ASSUME NEW p \in Procs, Kill(p)
       PROVE  [Store!Next]_(Store!vars)
  BY <1>4, <1>5, <1>18 DEF Kill, cache, device
<1>19. QED
  BY <1>6, <1>7, <1>8, <1>9, <1>10, <1>11, <1>12, <1>13, <1>14, <1>15, <1>16, <1>17, <1>18
     DEF Running, Call, Step

\* With a drive that reports no errors, the cache, its locks and either driver
\* implement an array of blocks that only the holder of a block changes, however
\* small the cache is and whatever is recycled, pinned, queued or woken too early.
THEOREM ImplementsStoreHolds ==
    ASSUME ReadErrors = FALSE
    PROVE  Spec => ImplementsStore
<1>1. Init => Store!Init
  <2> SUFFICES ASSUME Init PROVE Store!Init
    OBVIOUS
  <2>1. TypeOK /\ BlockInv
    BY InitIInv DEF IInv
  <2>2. \A k \in Blocks : Contents(k) = disk[k]
    BY <2>1, ContentsHere DEF Init, TypeOK
  <2>3. Content \in [Blocks -> Data]
    BY <2>1, <2>2 DEF Content, TypeOK
  <2>4. Holders = [k \in Blocks |-> {}]
    BY DEF Holders, Init
  <2>5. QED
    BY <2>3, <2>4 DEF Store!Init
<1>2. UNCHANGED vars => UNCHANGED Store!vars
  BY DEF vars, Store!vars, Content, Contents, Holders
<1>3. IInv /\ IInv' /\ [Next]_vars => [Store!Next]_(Store!vars)
  BY <1>2, StepImplements DEF Next, Halted
<1>4. QED
  BY <1>1, <1>3, Invariant, PTL DEF Spec, ImplementsStore, Store!Spec

=============================================================================
