---------------------------- MODULE InodeProofs ----------------------------
(***************************************************************************)
(* Proofs about module Inode.                                              *)
(***************************************************************************)
EXTENDS Inode, FiniteSetTheorems, WellFoundedInduction, TLAPS

-----------------------------------------------------------------------------
(* The inductive invariant. *)

\* Where a call is, or goes on when it has put its inodes.
Putting(t) == t.pc \in {"put", "free", "deref"}
At(t) == IF Putting(t) THEN t.then ELSE t.pc

\* The places of the second half of link().
LinkPlaces == {"walk", "linkdir", "dropdir", "linkbad"}

\* Which call is at a place, and which of its pointers are set there.
OpAt(t) ==
    /\ At(t) = "walk" => t.op \in NameOps \cup ParentOps /\ t.rest # <<>>
    /\ At(t) \in NameOps \cup ParentOps => t.op = At(t)
    /\ At(t) \in {"link1", "exists"} => t.op \in CreateOps
    /\ At(t) = "fopen" => t.op \in {"open", "openw", "create"}
    /\ At(t) = "made" => t.op \in {"mkdir", "mknod"}
    /\ At(t) \in {"unlink1", "unlinked"} => t.op = "unlink"
    /\ At(t) = "dropdir" => t.op \in {"unlink", "linkdir"}
    /\ At(t) = "linkbad" => t.op = "linkdir"
    /\ At(t) \notin {"put", "free", "deref"}
    /\ Putting(t) => t.then \notin {"link1", "unlink1"}

PointersAt(t) ==
    /\ t.put # NONE <=> Putting(t)
    /\ t.put2 # NONE => Putting(t) /\ At(t) = "idle"
    /\ t.cur # NONE <=> At(t) = "walk"
    /\ t.dp # NONE <=> At(t) \in ParentOps \cup {"link1", "unlink1", "dropdir"}
    /\ t.ip # NONE <=> \/ At(t) \in NameOps \cup {"exists", "link1", "fopen", "made", "unlink1", "unlinked"}
                       \/ t.op = "linkdir" /\ At(t) \in LinkPlaces

CallInv(t) == OpAt(t) /\ PointersAt(t)

\* A process that has exited has no current directory and no open files.
DeadInv(p) ==
    /\ cwd[p] = NONE <=> At(th[p]) = "dead"
    /\ At(th[p]) = "dead" => \A fd \in Fds : ofile[p][fd] = NONE

\* The inodes that a call has locked.
HasLocked(t, i) ==
    \/ At(t) \in {"link1", "unlink1", "dropdir"} /\ t.dp = i
    \/ At(t) \in {"fopen", "made", "unlinked"} /\ t.ip = i
    \/ t.pc = "free" /\ t.put = i

LockInv == \A p \in Procs, i \in Inums : icache[i].lock = p <=> HasLocked(th[p], i)

\* What is valid in the cache is the inode on disk, which is not free; a locked
\* inode is valid.
CacheInv ==
    \A i \in Inums : /\ icache[i].valid => icache[i].node = dino[i] /\ dino[i].type # "free"
                     /\ icache[i].lock # NOBODY => icache[i].valid

\* A free inode has no blocks and no links; no inode is too large.
FreeNodes == \A i \in Inums : /\ dino[i].type = "free" => dino[i] = Free
                              /\ Len(dino[i].addrs) <= MAXFILE + 1

\* The call has had i locked, or has allocated it, and still has a pointer to
\* it: nobody may free it.
Keeps(t, i) ==
    \/ t.dp = i
    \/ t.ip = i /\ (At(t) \in {"link1", "fopen", "made", "unlinked"} \/ t.op = "linkdir")

KeptInv ==
    /\ \A p \in Procs : cwd[p] # NONE => dino[cwd[p]].type = "dir"
    /\ \A p \in Procs : th[p].dp # NONE => dino[th[p].dp].type = "dir"
    /\ \A p \in Procs, i \in Inums : Keeps(th[p], i) => dino[i].type # "free"

\* An open file is a file that is not free, and its offset is not past the end.
FilesInv ==
    \A f \in Files : ftable[f].ref > 0 =>
        /\ ftable[f].ip # NONE /\ dino[ftable[f].ip].type # "free"
        /\ ftable[f].off <= Len(dino[ftable[f].ip].addrs)

\* An inode that iput() frees has no links and nobody keeps it.
FreeingInv ==
    \A p \in Procs : th[p].pc = "free" =>
        /\ dino[th[p].put].nlink = 0
        /\ \A q \in Procs : cwd[q] # th[p].put /\ ~Keeps(th[q], th[p].put)
        /\ OpenFiles(th[p].put) = {}

\* unlink() and link() have found the entry that keeps the directory locked.
FoundInv ==
    \A p \in Procs :
        /\ th[p].pc = "unlink1" => /\ dents[th[p].dp][th[p].name] = th[p].ip
                                   /\ th[p].name \in Names
        /\ Putting(th[p]) /\ th[p].then = "dropdir" =>
             dents[th[p].dp][th[p].name] = th[p].put

\* The part of the invariant that holds whatever the paths.
IInv ==
    /\ TypeOK /\ RefsCounted /\ LockInv /\ CacheInv /\ FreeNodes /\ KeptInv /\ FilesInv
    /\ FreeingInv /\ FoundInv /\ BlocksOwned
    /\ \A p \in Procs : CallInv(th[p]) /\ DeadInv(p)

-----------------------------------------------------------------------------
(* The part of the invariant about the tree of directories. *)

\* No path has an element ..; with one, a call can reach an inode that has been
\* freed, through a directory that was removed.
NoParentPaths == \A r \in Requests : {r[2].elems, r[3].elems} \subseteq Seq(Names \cup {"."})

PathOk(t) ==
    /\ t.rest \in Seq(Names \cup {"."}) /\ t.new.elems \in Seq(Names \cup {"."})
    /\ t.name # ".."

PathInv == \A p \in Procs : PathOk(th[p])

\* i has just been allocated by create().
Fresh(p, i) == th[p].pc = "link1" /\ th[p].ip = i

\* p has a pointer to i other than for iput().
PointsIn(t, i) == t.cur = i \/ t.ip = i \/ t.dp = i
PointsTo(p, i) == cwd[p] = i \/ PointsIn(th[p], i)

LiveInv == \A p \in Procs, i \in Inums : PointsTo(p, i) => dino[i].type # "free"

\* A new inode is known to its creator only.
NewInode(p, i) ==
    /\ \A q \in Procs \ {p} : ~PointsTo(q, i)
    /\ th[p].dp # i /\ cwd[p] # i /\ OpenFiles(i) = {}
    /\ Entries(i) = {} /\ ~icache[i].valid
    /\ dents[i] = NoDents /\ dino[i].nlink = 0
    /\ dino[i].type = "dir" <=> th[p].op = "mkdir"
    /\ th[p].name \in Names

FreshInv == \A p \in Procs, i \in Inums : Fresh(p, i) => NewInode(p, i)

\* The entries of directories: . is the directory itself, once create() has
\* written it; what is not a directory has none.
DentsInv ==
    \A i \in Inums :
        /\ dino[i].type # "dir" => dents[i] = NoDents
        /\ dino[i].type = "dir" => dents[i]["."] = i \/ \E p \in Procs : Fresh(p, i)

\* The links that unlink() has not taken back yet, or link() not used yet.
Owes(t, i) == t.ip = i /\ (At(t) = "unlinked" \/ t.op = "linkdir")
Owing(i) == {p \in Procs : Owes(th[p], i)}

\* The links to i, and one that the root always has.
Need(i) == Cardinality(Entries(i)) + Cardinality(Subdirs(i)) + Cardinality(Owing(i))
             + (IF i = ROOTINO THEN 1 ELSE 0)

LinksInv ==
    /\ \A i \in Inums : dino[i].nlink >= Need(i)
    /\ dino[ROOTINO].type = "dir"
    /\ \A p \in Procs : th[p].op = "linkdir" /\ th[p].ip # NONE => dino[th[p].ip].type # "dir"

\* Directories can be ranked so that entries lead down.
RankInv ==
    \E rank \in [Inums -> Nat] :
        \A d \in Inums, n \in Names : dents[d][n] # NONE => rank[dents[d][n]] < rank[d]

\* iput() is the only one that knows of the inode it frees.
LastInv == \A p \in Procs : th[p].pc = "free" => icache[th[p].put].ref = 1

TreeInv ==
    /\ PathInv /\ LiveInv /\ FreshInv /\ DentsInv /\ LinksInv /\ DirsFormTree
    /\ RankInv /\ LastInv

-----------------------------------------------------------------------------
(* Counting. *)

\* A set of numbers has a least one.
LEMMA Least ==
    ASSUME NEW T \in SUBSET Nat, T # {}
    PROVE  Min(T) \in T
<1>1. PICK x \in T : \A y \in T : ~(<<y, x>> \in OpToRel(<, Nat))
  BY WFMin, NatLessThanWellFounded
<1>2. \A y \in T : ~(y < x)
  BY <1>1 DEF OpToRel
<1>3. \E z \in T : \A y \in T : z <= y
  BY <1>2
<1>4. QED
  BY <1>3 DEF Min

\* Whether a pointer is i, as a number.
Is(x, i) == IF x = i THEN 1 ELSE 0

\* The pointers of a call to i.
Held(t, i) == Is(t.cur, i) + Is(t.ip, i) + Is(t.dp, i) + Is(t.put, i) + Is(t.put2, i)

\* When one process changes a pointer, the number of those that point to i
\* changes with it.
LEMMA PointerCount ==
    ASSUME NEW S \in SUBSET Procs, NEW T \in SUBSET Procs, NEW p \in Procs,
           \A q \in Procs \ {p} : q \in S <=> q \in T
    PROVE  /\ Cardinality(S) \in Nat /\ Cardinality(T) \in Nat
           /\ p \in S /\ p \in T => Cardinality(T) = Cardinality(S)
           /\ p \notin S /\ p \notin T => Cardinality(T) = Cardinality(S)
           /\ p \in S /\ p \notin T => Cardinality(T) = Cardinality(S) - 1
           /\ p \notin S /\ p \in T => Cardinality(T) = Cardinality(S) + 1
<1>1. IsFiniteSet(S) /\ IsFiniteSet(T)
  BY ProcsAssumption, FS_Subset
<1>2. Cardinality(S) \in Nat /\ Cardinality(T) \in Nat
  BY <1>1, FS_CardinalityType
<1>3. ASSUME p \in S <=> p \in T PROVE S = T
  BY <1>3
<1>4. ASSUME p \in S, p \notin T PROVE Cardinality(T) = Cardinality(S) - 1
  <2>1. T = S \ {p}
    BY <1>4
  <2>2. QED
    BY <1>1, <1>4, <2>1, FS_RemoveElement
<1>5. ASSUME p \notin S, p \in T PROVE Cardinality(T) = Cardinality(S) + 1
  <2>1. T = S \cup {p}
    BY <1>5
  <2>2. QED
    BY <1>1, <1>5, <2>1, FS_AddElement
<1>6. QED
  BY <1>2, <1>3, <1>4, <1>5

\* The same, with the pointer that is counted before and after the change.
OnePointer(S, T, p, a, b, i) ==
    /\ S \in SUBSET Procs /\ T \in SUBSET Procs /\ p \in Procs
    /\ \A q \in Procs \ {p} : q \in S <=> q \in T
    /\ (p \in S <=> a = i) /\ (p \in T <=> b = i)

\* One pointer changed: the two counts differ as the pointer says.
LEMMA FieldCount ==
    ASSUME NEW S, NEW T, NEW p, NEW a, NEW b, NEW i, OnePointer(S, T, p, a, b, i)
    PROVE  /\ Cardinality(S) \in Nat /\ Cardinality(T) \in Nat
           /\ Cardinality(T) + Is(a, i) = Cardinality(S) + Is(b, i)
<1>1. /\ S \in SUBSET Procs /\ T \in SUBSET Procs /\ p \in Procs
      /\ \A q \in Procs \ {p} : q \in S <=> q \in T
      /\ (p \in S <=> a = i) /\ (p \in T <=> b = i)
  BY DEF OnePointer
<1>2. QED
  BY <1>1, PointerCount DEF Is

\* What a step of p does to the number of references in calls.
LEMMA HeldCount ==
    ASSUME th \in [Procs -> Locals], NEW p \in Procs, NEW u \in Locals,
           th' = [th EXCEPT ![p] = u], NEW i
    PROVE  /\ HeldByCalls(i) \in Nat /\ HeldByCalls(i)' \in Nat
           /\ HeldByCalls(i)' + Held(th[p], i) = HeldByCalls(i) + Held(u, i)
<1>1. th' \in [Procs -> Locals] /\ th'[p] = u /\ \A q \in Procs \ {p} : th'[q] = th[q]
  OBVIOUS
<1>2. PICK A1 \in Nat, A2 \in Nat :
        /\ Cardinality({q \in Procs : th[q].cur = i}) = A1
        /\ Cardinality({q \in Procs : th[q].cur = i})' = A2
        /\ A2 + Is(th[p].cur, i) = A1 + Is(u.cur, i)
  <2>1. PICK S, T : S = {q \in Procs : th[q].cur = i} /\ T = {q \in Procs : th'[q].cur = i}
    OBVIOUS
  <2>2. OnePointer(S, T, p, th[p].cur, u.cur, i)
    BY <1>1, <2>1 DEF OnePointer
  <2>3. /\ Cardinality(S) \in Nat /\ Cardinality(T) \in Nat
        /\ Cardinality(T) + Is(th[p].cur, i) = Cardinality(S) + Is(u.cur, i)
    BY <2>2, FieldCount
  <2>4. QED
    BY <2>1, <2>3
<1>3. PICK B1 \in Nat, B2 \in Nat :
        /\ Cardinality({q \in Procs : th[q].ip = i}) = B1
        /\ Cardinality({q \in Procs : th[q].ip = i})' = B2
        /\ B2 + Is(th[p].ip, i) = B1 + Is(u.ip, i)
  <2>1. PICK S, T : S = {q \in Procs : th[q].ip = i} /\ T = {q \in Procs : th'[q].ip = i}
    OBVIOUS
  <2>2. OnePointer(S, T, p, th[p].ip, u.ip, i)
    BY <1>1, <2>1 DEF OnePointer
  <2>3. /\ Cardinality(S) \in Nat /\ Cardinality(T) \in Nat
        /\ Cardinality(T) + Is(th[p].ip, i) = Cardinality(S) + Is(u.ip, i)
    BY <2>2, FieldCount
  <2>4. QED
    BY <2>1, <2>3
<1>4. PICK C1 \in Nat, C2 \in Nat :
        /\ Cardinality({q \in Procs : th[q].dp = i}) = C1
        /\ Cardinality({q \in Procs : th[q].dp = i})' = C2
        /\ C2 + Is(th[p].dp, i) = C1 + Is(u.dp, i)
  <2>1. PICK S, T : S = {q \in Procs : th[q].dp = i} /\ T = {q \in Procs : th'[q].dp = i}
    OBVIOUS
  <2>2. OnePointer(S, T, p, th[p].dp, u.dp, i)
    BY <1>1, <2>1 DEF OnePointer
  <2>3. /\ Cardinality(S) \in Nat /\ Cardinality(T) \in Nat
        /\ Cardinality(T) + Is(th[p].dp, i) = Cardinality(S) + Is(u.dp, i)
    BY <2>2, FieldCount
  <2>4. QED
    BY <2>1, <2>3
<1>5. PICK D1 \in Nat, D2 \in Nat :
        /\ Cardinality({q \in Procs : th[q].put = i}) = D1
        /\ Cardinality({q \in Procs : th[q].put = i})' = D2
        /\ D2 + Is(th[p].put, i) = D1 + Is(u.put, i)
  <2>1. PICK S, T : S = {q \in Procs : th[q].put = i} /\ T = {q \in Procs : th'[q].put = i}
    OBVIOUS
  <2>2. OnePointer(S, T, p, th[p].put, u.put, i)
    BY <1>1, <2>1 DEF OnePointer
  <2>3. /\ Cardinality(S) \in Nat /\ Cardinality(T) \in Nat
        /\ Cardinality(T) + Is(th[p].put, i) = Cardinality(S) + Is(u.put, i)
    BY <2>2, FieldCount
  <2>4. QED
    BY <2>1, <2>3
<1>6. PICK E1 \in Nat, E2 \in Nat :
        /\ Cardinality({q \in Procs : th[q].put2 = i}) = E1
        /\ Cardinality({q \in Procs : th[q].put2 = i})' = E2
        /\ E2 + Is(th[p].put2, i) = E1 + Is(u.put2, i)
  <2>1. PICK S, T : S = {q \in Procs : th[q].put2 = i} /\ T = {q \in Procs : th'[q].put2 = i}
    OBVIOUS
  <2>2. OnePointer(S, T, p, th[p].put2, u.put2, i)
    BY <1>1, <2>1 DEF OnePointer
  <2>3. /\ Cardinality(S) \in Nat /\ Cardinality(T) \in Nat
        /\ Cardinality(T) + Is(th[p].put2, i) = Cardinality(S) + Is(u.put2, i)
    BY <2>2, FieldCount
  <2>4. QED
    BY <2>1, <2>3
<1>7. /\ HeldByCalls(i) = A1 + B1 + C1 + D1 + E1
      /\ HeldByCalls(i)' = A2 + B2 + C2 + D2 + E2
  BY <1>2, <1>3, <1>4, <1>5, <1>6 DEF HeldByCalls
<1>8. /\ Is(th[p].cur, i) \in Nat /\ Is(th[p].ip, i) \in Nat /\ Is(th[p].dp, i) \in Nat
      /\ Is(th[p].put, i) \in Nat /\ Is(th[p].put2, i) \in Nat
      /\ Is(u.cur, i) \in Nat /\ Is(u.ip, i) \in Nat /\ Is(u.dp, i) \in Nat
      /\ Is(u.put, i) \in Nat /\ Is(u.put2, i) \in Nat
  BY DEF Is
<1>9. QED
  BY <1>2, <1>3, <1>4, <1>5, <1>6, <1>7, <1>8 DEF Held
-----------------------------------------------------------------------------
(* What each part of the invariant asks of a step.  The step is made by p,  *)
(* whose locals become u.                                                   *)

Moves(p, u) == p \in Procs /\ u \in Locals /\ th' = [th EXCEPT ![p] = u]

\* The locals of the others stay.
LEMMA MovesOne ==
    ASSUME TypeOK, NEW p, NEW u, Moves(p, u)
    PROVE  /\ p \in Procs /\ u \in Locals /\ th' \in [Procs -> Locals] /\ th'[p] = u
           /\ \A q \in Procs \ {p} : th'[q] = th[q]
  BY DEF Moves, TypeOK

\* Nobody but p changes its current directory.
OwnCwd(p) == cwd' \in [Procs -> Pointers] /\ \A q \in Procs \ {p} : cwd'[q] = cwd[q]

\* The references to i that p's step makes and gives up.
RefsMoved(p, u, i) ==
    icache'[i].ref + Held(th[p], i) + Is(cwd[p], i) + Cardinality(OpenFiles(i))
      = icache[i].ref + Held(u, i) + Is(cwd'[p], i) + Cardinality(OpenFiles(i)')

\* There are finitely many open files.
LEMMA OpenFilesFinite ==
    /\ IsFiniteSet(Files) /\ Files \subseteq Nat
    /\ \A i : IsFiniteSet(OpenFiles(i)) /\ Cardinality(OpenFiles(i)) \in Nat
    /\ \A i : IsFiniteSet(OpenFiles(i)') /\ Cardinality(OpenFiles(i)') \in Nat
<1>1. NFILE \in Nat
  BY SizeAssumption
<1>2. IsFiniteSet(Files) /\ Files \subseteq Nat
  BY <1>1, FS_Interval DEF Files
<1>3. \A i : OpenFiles(i) \in SUBSET Files /\ OpenFiles(i)' \in SUBSET Files
  BY DEF OpenFiles
<1>4. QED
  BY <1>2, <1>3, FS_Subset, FS_CardinalityType

\* The count of references follows them.
LEMMA RefsStep ==
    ASSUME TypeOK, RefsCounted, NEW p, NEW u, Moves(p, u), OwnCwd(p), icache' \in Caches,
           \A i \in Inums : RefsMoved(p, u, i)
    PROVE  \A i \in Inums : icache'[i].ref = Cardinality({q \in Procs : cwd'[q] = i})
                              + Cardinality(OpenFiles(i)') + HeldByCalls(i)'
<1> TAKE i \in Inums
<1>1. p \in Procs /\ u \in Locals /\ th' = [th EXCEPT ![p] = u] /\ th \in [Procs -> Locals]
      /\ cwd \in [Procs -> Pointers]
  BY DEF Moves, TypeOK
<1>2. PICK S, T : S = {q \in Procs : cwd[q] = i} /\ T = {q \in Procs : cwd'[q] = i}
  OBVIOUS
<1>3. OnePointer(S, T, p, cwd[p], cwd'[p], i)
  BY <1>1, <1>2 DEF OnePointer, OwnCwd
<1>4. /\ Cardinality(S) \in Nat /\ Cardinality(T) \in Nat
      /\ Cardinality(T) + Is(cwd[p], i) = Cardinality(S) + Is(cwd'[p], i)
  BY <1>3, FieldCount
<1>5. /\ HeldByCalls(i) \in Nat /\ HeldByCalls(i)' \in Nat
      /\ HeldByCalls(i)' + Held(th[p], i) = HeldByCalls(i) + Held(u, i)
  BY <1>1, HeldCount
<1>6. icache[i].ref = Cardinality(S) + Cardinality(OpenFiles(i)) + HeldByCalls(i)
  BY <1>2 DEF RefsCounted
<1>7. /\ Held(th[p], i) \in Nat /\ Held(u, i) \in Nat /\ Is(cwd[p], i) \in Nat
      /\ Is(cwd'[p], i) \in Nat
  BY DEF Held, Is
<1>8. Cardinality(OpenFiles(i)) \in Nat /\ Cardinality(OpenFiles(i)') \in Nat
  BY OpenFilesFinite
<1>9. icache'[i].ref \in Nat /\ icache[i].ref \in Nat
  BY DEF TypeOK, Caches
<1>10. icache'[i].ref + Held(th[p], i) + Is(cwd[p], i) + Cardinality(OpenFiles(i))
         = icache[i].ref + Held(u, i) + Is(cwd'[p], i) + Cardinality(OpenFiles(i)')
  BY DEF RefsMoved
<1>11. PICK s, t, o, o2, h, h2 :
          /\ s = Cardinality(S) /\ t = Cardinality(T) /\ h = HeldByCalls(i) /\ h2 = HeldByCalls(i)'
          /\ o = Cardinality(OpenFiles(i)) /\ o2 = Cardinality(OpenFiles(i)')
  OBVIOUS
<1>12. {s, t, o, o2, h, h2} \subseteq Nat
  BY <1>4, <1>5, <1>8, <1>11
<1>13. /\ t + Is(cwd[p], i) = s + Is(cwd'[p], i) /\ h2 + Held(th[p], i) = h + Held(u, i)
       /\ icache[i].ref = s + o + h
       /\ icache'[i].ref + Held(th[p], i) + Is(cwd[p], i) + o
            = icache[i].ref + Held(u, i) + Is(cwd'[p], i) + o2
  BY <1>4, <1>5, <1>6, <1>10, <1>11
<1>14. icache'[i].ref = t + o2 + h2
  BY <1>7, <1>9, <1>12, <1>13
<1>15. QED
  BY <1>2, <1>11, <1>14

\* How many of two processes point to i, and how many do in all.
TwoPointers(S, p, q, a, b, i) ==
    /\ S \in SUBSET Procs /\ p \in Procs /\ q \in Procs
    /\ (p \in S <=> a = i) /\ (q \in S <=> b = i)

\* A set of processes has at least those of two that are in it.
LEMMA TwoCount ==
    ASSUME NEW S, NEW p, NEW q, NEW a, NEW b, NEW i, TwoPointers(S, p, q, a, b, i)
    PROVE  /\ Cardinality(S) \in Nat /\ Cardinality(S) >= Is(a, i)
           /\ p # q => Cardinality(S) >= Is(a, i) + Is(b, i)
<1>1. /\ S \in SUBSET Procs /\ p \in Procs /\ q \in Procs
      /\ (p \in S <=> a = i) /\ (q \in S <=> b = i)
  BY DEF TwoPointers
<1>2. PICK T, U : T = S \ {p} /\ U = T \ {q}
  OBVIOUS
<1>3. T \in SUBSET Procs /\ U \in SUBSET Procs
  BY <1>1, <1>2
<1>4. OnePointer(S, T, p, a, IF i = 0 THEN 1 ELSE 0, i)
  BY <1>1, <1>2, <1>3 DEF OnePointer
<1>5. ASSUME p # q PROVE OnePointer(T, U, q, b, IF i = 0 THEN 1 ELSE 0, i)
  BY <1>1, <1>2, <1>3, <1>5 DEF OnePointer
<1>6. /\ Cardinality(S) \in Nat /\ Cardinality(T) \in Nat
      /\ Cardinality(T) + Is(a, i) = Cardinality(S) + Is(IF i = 0 THEN 1 ELSE 0, i)
  BY <1>4, FieldCount
<1>7. ASSUME p # q
      PROVE  /\ Cardinality(U) \in Nat
             /\ Cardinality(U) + Is(b, i) = Cardinality(T) + Is(IF i = 0 THEN 1 ELSE 0, i)
  BY <1>5, <1>7, FieldCount
<1>8. PICK k, l \in Nat : k = Cardinality(S) /\ l = Cardinality(T) /\ l + Is(a, i) = k
  BY <1>6 DEF Is
<1>9. ASSUME p # q PROVE \E m \in Nat : m + Is(b, i) = l
  BY <1>7, <1>8, <1>9 DEF Is
<1>10. QED
  BY <1>8, <1>9 DEF Is

\* Two processes, and the open files, account for part of the references.
LEMMA RefsOfTwo ==
    ASSUME RefsCounted, NEW p \in Procs, NEW q \in Procs, NEW i \in Inums
    PROVE  /\ icache[i].ref >= Held(th[p], i) + Is(cwd[p], i) + Cardinality(OpenFiles(i))
           /\ p # q => icache[i].ref >= Held(th[p], i) + Held(th[q], i) + Is(cwd[p], i)
                                          + Is(cwd[q], i) + Cardinality(OpenFiles(i))
<1>1. PICK A \in Nat : A = Cardinality({r \in Procs : th[r].cur = i})
                      /\ A >= Is(th[p].cur, i) /\ (p # q => A >= Is(th[p].cur, i) + Is(th[q].cur, i))
  <2>1. PICK S : S = {r \in Procs : th[r].cur = i}
    OBVIOUS
  <2>2. TwoPointers(S, p, q, th[p].cur, th[q].cur, i)
    BY <2>1 DEF TwoPointers
  <2>3. QED
    BY <2>1, <2>2, TwoCount
<1>2. PICK B \in Nat : B = Cardinality({r \in Procs : th[r].ip = i})
                      /\ B >= Is(th[p].ip, i) /\ (p # q => B >= Is(th[p].ip, i) + Is(th[q].ip, i))
  <2>1. PICK S : S = {r \in Procs : th[r].ip = i}
    OBVIOUS
  <2>2. TwoPointers(S, p, q, th[p].ip, th[q].ip, i)
    BY <2>1 DEF TwoPointers
  <2>3. QED
    BY <2>1, <2>2, TwoCount
<1>3. PICK C \in Nat : C = Cardinality({r \in Procs : th[r].dp = i})
                      /\ C >= Is(th[p].dp, i) /\ (p # q => C >= Is(th[p].dp, i) + Is(th[q].dp, i))
  <2>1. PICK S : S = {r \in Procs : th[r].dp = i}
    OBVIOUS
  <2>2. TwoPointers(S, p, q, th[p].dp, th[q].dp, i)
    BY <2>1 DEF TwoPointers
  <2>3. QED
    BY <2>1, <2>2, TwoCount
<1>4. PICK D \in Nat : D = Cardinality({r \in Procs : th[r].put = i})
                      /\ D >= Is(th[p].put, i) /\ (p # q => D >= Is(th[p].put, i) + Is(th[q].put, i))
  <2>1. PICK S : S = {r \in Procs : th[r].put = i}
    OBVIOUS
  <2>2. TwoPointers(S, p, q, th[p].put, th[q].put, i)
    BY <2>1 DEF TwoPointers
  <2>3. QED
    BY <2>1, <2>2, TwoCount
<1>5. PICK E \in Nat : E = Cardinality({r \in Procs : th[r].put2 = i})
                      /\ E >= Is(th[p].put2, i) /\ (p # q => E >= Is(th[p].put2, i) + Is(th[q].put2, i))
  <2>1. PICK S : S = {r \in Procs : th[r].put2 = i}
    OBVIOUS
  <2>2. TwoPointers(S, p, q, th[p].put2, th[q].put2, i)
    BY <2>1 DEF TwoPointers
  <2>3. QED
    BY <2>1, <2>2, TwoCount
<1>6. PICK F \in Nat : F = Cardinality({r \in Procs : cwd[r] = i})
                      /\ F >= Is(cwd[p], i) /\ (p # q => F >= Is(cwd[p], i) + Is(cwd[q], i))
  <2>1. PICK S : S = {r \in Procs : cwd[r] = i}
    OBVIOUS
  <2>2. TwoPointers(S, p, q, cwd[p], cwd[q], i)
    BY <2>1 DEF TwoPointers
  <2>3. QED
    BY <2>1, <2>2, TwoCount
<1>7. PICK o \in Nat : o = Cardinality(OpenFiles(i))
  BY OpenFilesFinite
<1>8. icache[i].ref = F + o + A + B + C + D + E
  BY <1>1, <1>2, <1>3, <1>4, <1>5, <1>6, <1>7 DEF RefsCounted, HeldByCalls
<1>9. QED
  BY <1>1, <1>2, <1>3, <1>4, <1>5, <1>6, <1>7, <1>8 DEF Held, Is

\* p changes locks that are free or its own, and has then locked what its
\* place says.
LocksMoved(p, u) ==
    \A i \in Inums :
        /\ icache'[i].lock = p <=> HasLocked(u, i)
        /\ icache'[i].lock # icache[i].lock =>
             icache[i].lock \in {p, NOBODY} /\ icache'[i].lock \in {p, NOBODY}

\* Then the locks are still those of the places.
LEMMA LockStep ==
    ASSUME TypeOK, LockInv, NEW p, NEW u, Moves(p, u), LocksMoved(p, u)
    PROVE  LockInv'
<1>1. ASSUME NEW q \in Procs, NEW i \in Inums
      PROVE  icache'[i].lock = q <=> HasLocked(th'[q], i)
  <2>1. CASE q = p
    BY <2>1, MovesOne DEF LocksMoved
  <2>2. CASE q # p
    <3>1. th'[q] = th[q] /\ q # NOBODY
      BY <2>2, MovesOne, ProcsAssumption
    <3>2. icache'[i].lock = q <=> icache[i].lock = q
      BY <2>2, <3>1 DEF LocksMoved
    <3>3. QED
      BY <3>1, <3>2 DEF LockInv
  <2>3. QED
    BY <2>1, <2>2
<1>2. QED
  BY <1>1 DEF LockInv, HasLocked, At, Putting

\* An inode in use keeps its type and does not shrink.
NodesKept ==
    \A i \in Inums : dino[i].type # "free" =>
        dino'[i].type = dino[i].type /\ Len(dino'[i].addrs) >= Len(dino[i].addrs)

\* p comes to keep only what is in use.
KeepsMoved(p, u) ==
    /\ \A i \in Inums : Keeps(u, i) => Keeps(th[p], i) \/ dino'[i].type # "free"
    /\ u.dp # NONE => u.dp = th[p].dp \/ dino'[u.dp].type = "dir"
    /\ cwd'[p] # NONE => cwd'[p] = cwd[p] \/ dino'[cwd'[p]].type = "dir"

\* Then what the calls keep is still in use.
LEMMA KeptStep ==
    ASSUME TypeOK, KeptInv, NEW p, NEW u, Moves(p, u), OwnCwd(p), NodesKept, KeepsMoved(p, u)
    PROVE  KeptInv'
<1>1. /\ th \in [Procs -> Locals] /\ cwd \in [Procs -> Pointers] /\ cwd' \in [Procs -> Pointers]
      /\ \A t \in Locals : t.dp # NONE => t.dp \in Inums
      /\ \A x \in Pointers : x # NONE => x \in Inums
  BY DEF TypeOK, OwnCwd, Locals, Pointers
<1>2. ASSUME NEW q \in Procs, cwd'[q] # NONE PROVE dino'[cwd'[q]].type = "dir"
  <2>1. cwd'[q] = cwd[q] \/ (q = p /\ dino'[cwd'[p]].type = "dir")
    BY <1>2 DEF OwnCwd, KeepsMoved
  <2>2. cwd'[q] = cwd[q] => cwd[q] \in Inums /\ dino[cwd[q]].type = "dir"
    BY <1>1, <1>2 DEF KeptInv
  <2>3. QED
    BY <2>1, <2>2 DEF NodesKept
<1>3. ASSUME NEW q \in Procs, th'[q].dp # NONE PROVE dino'[th'[q].dp].type = "dir"
  <2>1. th'[q].dp = th[q].dp \/ dino'[th'[q].dp].type = "dir"
    BY <1>3, MovesOne DEF KeepsMoved
  <2>2. th'[q].dp = th[q].dp => th[q].dp \in Inums /\ dino[th[q].dp].type = "dir"
    BY <1>1, <1>3 DEF KeptInv
  <2>3. QED
    BY <2>1, <2>2 DEF NodesKept
<1>4. ASSUME NEW q \in Procs, NEW i \in Inums, Keeps(th'[q], i) PROVE dino'[i].type # "free"
  <2>1. Keeps(th[q], i) \/ dino'[i].type # "free"
    BY <1>4, MovesOne DEF KeepsMoved
  <2>2. QED
    BY <2>1 DEF KeptInv, NodesKept
<1>5. QED
  BY <1>2, <1>3, <1>4 DEF KeptInv, Keeps, At, Putting

\* Nobody comes to keep an inode that another process is freeing: p keeps
\* what it kept, or has locked now.
Nobodys(p, i) == icache[i].lock \in {p, NOBODY}
FreeingMoved(p, u) ==
    /\ \A i \in Inums : Nobodys(p, i) \/
         /\ dino'[i].nlink = dino[i].nlink
         /\ Keeps(u, i) => Keeps(th[p], i)
         /\ cwd'[p] = i => \E q \in Procs : cwd[q] = i
         /\ OpenFiles(i)' # {} => OpenFiles(i) # {} \/ Keeps(th[p], i)
    /\ u.pc = "free" =>
         /\ dino'[u.put].nlink = 0
         /\ \A q \in Procs : cwd'[q] # u.put /\ ~Keeps(th'[q], u.put)
         /\ OpenFiles(u.put)' = {}

\* Then nobody keeps what iput() is about to free.
LEMMA FreeingStep ==
    ASSUME TypeOK, LockInv, FreeingInv, \A q \in Procs : CallInv(th[q]),
           NEW p, NEW u, Moves(p, u), OwnCwd(p), FreeingMoved(p, u)
    PROVE  FreeingInv'
<1>1. ASSUME NEW r \in Procs, th'[r].pc = "free"
      PROVE  \E i : /\ i = th'[r].put /\ dino'[i].nlink = 0 /\ OpenFiles(i)' = {}
                    /\ \A q \in Procs : cwd'[q] # i /\ ~Keeps(th'[q], i)
  <2>1. CASE r = p
    BY <1>1, <2>1, MovesOne DEF FreeingMoved
  <2>2. CASE r # p
    <3>1. PICK i : i = th[r].put
      OBVIOUS
    <3>2. th'[r] = th[r] /\ th[r].pc = "free" /\ th[r] \in Locals
      BY <1>1, <2>2, MovesOne DEF TypeOK
    <3>3. i \in Inums
      BY <3>1, <3>2 DEF CallInv, PointersAt, Putting, Locals, Pointers
    <3>4. icache[i].lock = r /\ ~Nobodys(p, i)
      BY <2>2, <3>1, <3>2, <3>3, ProcsAssumption DEF LockInv, HasLocked, Nobodys
    <3>5. /\ dino[i].nlink = 0 /\ OpenFiles(i) = {}
          /\ \A q \in Procs : cwd[q] # i /\ ~Keeps(th[q], i)
      BY <3>1, <3>2 DEF FreeingInv
    <3>6. ASSUME NEW q \in Procs PROVE cwd'[q] # i /\ ~Keeps(th'[q], i)
      <4>1. CASE q = p
        BY <3>3, <3>4, <3>5, <4>1, MovesOne DEF FreeingMoved
      <4>2. CASE q # p
        BY <3>5, <4>2, MovesOne DEF OwnCwd
      <4>3. QED
        BY <4>1, <4>2
    <3>7. dino'[i].nlink = 0 /\ OpenFiles(i)' = {}
      BY <3>3, <3>4, <3>5, MovesOne DEF FreeingMoved
    <3>8. QED
      BY <3>1, <3>2, <3>6, <3>7
  <2>3. QED
    BY <2>1, <2>2
<1>2. QED
  BY <1>1 DEF FreeingInv, Keeps, At, Putting, OpenFiles

\* Nobody changes the entries of a directory that another process has locked.
FoundAt(t, ds) ==
    /\ t.pc = "unlink1" => ds[t.dp][t.name] = t.ip /\ t.name \in Names
    /\ Putting(t) /\ t.then = "dropdir" => ds[t.dp][t.name] = t.put

FoundMoved(p, u) ==
    /\ \A i \in Inums : Nobodys(p, i) \/ dents'[i] = dents[i]
    /\ FoundAt(u, dents')

\* Then the entries that were found are still there.
LEMMA FoundStep ==
    ASSUME TypeOK, LockInv, FoundInv, \A q \in Procs : CallInv(th[q]),
           NEW p, NEW u, Moves(p, u), FoundMoved(p, u)
    PROVE  FoundInv'
<1>1. ASSUME NEW r \in Procs PROVE FoundAt(th'[r], dents')
  <2>1. CASE r = p
    BY <2>1, MovesOne DEF FoundMoved
  <2>2. CASE r # p
    <3>1. th'[r] = th[r] /\ th[r] \in Locals
      BY <2>2, MovesOne DEF TypeOK
    <3>2. FoundAt(th[r], dents)
      BY DEF FoundInv, FoundAt
    <3>3. ASSUME th[r].pc = "unlink1" \/ (Putting(th[r]) /\ th[r].then = "dropdir")
          PROVE  th[r].dp \in Inums /\ dents'[th[r].dp] = dents[th[r].dp]
      <4>1. PICK i : i = th[r].dp
        OBVIOUS
      <4>2. At(th[r]) \in {"unlink1", "dropdir"}
        BY <3>3 DEF At, Putting
      <4>3. i \in Inums
        BY <3>1, <4>1, <4>2 DEF CallInv, PointersAt, Locals, Pointers
      <4>4. icache[i].lock = r /\ ~Nobodys(p, i)
        BY <2>2, <4>1, <4>2, <4>3, ProcsAssumption DEF LockInv, HasLocked, Nobodys
      <4>5. QED
        BY <4>1, <4>3, <4>4 DEF FoundMoved
    <3>4. QED
      BY <3>1, <3>2, <3>3 DEF FoundAt
  <2>3. QED
    BY <2>1, <2>2
<1>2. QED
  BY <1>1 DEF FoundInv, FoundAt, Putting

\* The cache after a step.
CacheMoved ==
    \A i \in Inums : /\ icache'[i].valid => icache'[i].node = dino'[i] /\ dino'[i].type # "free"
                     /\ icache'[i].lock # NOBODY => icache'[i].valid

\* The calls after a step of p.
LEMMA CallsStep ==
    ASSUME TypeOK, \A q \in Procs : CallInv(th[q]), NEW p, NEW u, Moves(p, u), CallInv(u)
    PROVE  \A q \in Procs : CallInv(th[q])'
<1>1. ASSUME NEW q \in Procs PROVE CallInv(th'[q])
  BY MovesOne
<1>2. QED
  BY <1>1 DEF CallInv, OpAt, PointersAt, At, Putting

\* Nobody exits.
LEMMA DeadStep ==
    ASSUME TypeOK, \A q \in Procs : DeadInv(q), NEW p, NEW u, Moves(p, u),
           UNCHANGED <<cwd, ofile>>, At(u) = "dead" <=> At(th[p]) = "dead"
    PROVE  \A q \in Procs : DeadInv(q)'
<1>1. ASSUME NEW q \in Procs PROVE At(th'[q]) = "dead" <=> At(th[q]) = "dead"
  BY MovesOne
<1>2. QED
  BY <1>1 DEF DeadInv, At, Putting

\* A step of p that changes nothing but its locals and the cache.
Plain(p, u) ==
    /\ Moves(p, u) /\ UNCHANGED <<dino, dents, used, ftable, ofile, cwd>>
    /\ calls' \in 0..MaxCalls /\ icache' \in Caches
    /\ CallInv(u) /\ (At(u) = "dead" <=> At(th[p]) = "dead")
    /\ \A i \in Inums : icache'[i].ref + Held(th[p], i) = icache[i].ref + Held(u, i)
    /\ LocksMoved(p, u) /\ CacheMoved
    /\ \A i \in Inums : Keeps(u, i) => Keeps(th[p], i) \/ (Nobodys(p, i) /\ dino[i].type # "free")
    /\ u.dp # NONE => u.dp = th[p].dp \/ dino[u.dp].type = "dir"
    /\ FoundAt(u, dents)
    /\ u.pc = "free" => /\ dino[u.put].nlink = 0 /\ OpenFiles(u.put) = {}
                        /\ \A q \in Procs : cwd[q] # u.put /\ ~Keeps(th'[q], u.put)

\* p can get to i: from its current directory, the root, or by a name from an
\* inode it has a pointer to.
Known(p, i) ==
    \/ cwd[p] = i \/ i = ROOTINO
    \/ \E d \in Inums, n \in Elements :
         /\ PointsIn(th[p], d) /\ dents[d][n] = i
         /\ n = th[p].name \/ (th[p].rest # <<>> /\ n = Head(th[p].rest))

\* Such a step takes p to inodes it can get to, and to no link of its own.
Modest(p, u) ==
    /\ NoParentPaths /\ PathInv => PathOk(u)
    /\ th[p].pc # "link1" /\ u.pc # "link1"
    /\ \A i \in Inums : /\ PointsIn(u, i) => PointsIn(th[p], i) \/ Known(p, i)
                        /\ Held(u, i) # 0 => Held(th[p], i) # 0 \/ Known(p, i)
                        /\ icache'[i].valid => icache[i].valid \/ PointsIn(th[p], i)
    /\ At(u) = "unlinked" => At(th[p]) = "unlinked" /\ u.ip = th[p].ip
    /\ u.op = "linkdir" /\ u.ip # NONE => th[p].op = "linkdir" /\ u.ip = th[p].ip
    /\ u.pc = "free" => icache'[u.put].ref = 1

\* The number of open files of an inode follows the table.
LEMMA SameOpenFiles ==
    ASSUME \A f \in Files : ftable'[f].ref = ftable[f].ref /\ ftable'[f].ip = ftable[f].ip
    PROVE  \A i : OpenFiles(i)' = OpenFiles(i)
  BY DEF OpenFiles

\* The counts of descriptors when no descriptor changes.
LEMMA SameDescriptors ==
    ASSUME RefsCounted, UNCHANGED ofile, \A f \in Files : ftable'[f].ref = ftable[f].ref
    PROVE  \A f \in Files : ftable'[f].ref = Cardinality(Descriptors(f))'
<1>1. \A f \in Files : Descriptors(f)' = Descriptors(f)
  BY DEF Descriptors
<1>2. QED
  BY <1>1 DEF RefsCounted

\* Such a step keeps the invariant.
LEMMA PlainStep ==
    ASSUME IInv, NEW p, NEW u, Plain(p, u)
    PROVE  IInv'
<1>1. /\ TypeOK /\ RefsCounted /\ LockInv /\ CacheInv /\ FreeNodes /\ KeptInv /\ FilesInv
      /\ FreeingInv /\ FoundInv /\ BlocksOwned
      /\ (\A q \in Procs : CallInv(th[q])) /\ (\A q \in Procs : DeadInv(q))
  BY DEF IInv
<1>2. /\ Moves(p, u) /\ UNCHANGED <<dino, dents, used, ftable, ofile, cwd>>
      /\ calls' \in 0..MaxCalls /\ icache' \in Caches
      /\ CallInv(u) /\ (At(u) = "dead" <=> At(th[p]) = "dead") /\ LocksMoved(p, u) /\ CacheMoved
  BY DEF Plain
<1>3. TypeOK'
  BY <1>1, <1>2, MovesOne DEF TypeOK
<1>4. OwnCwd(p) /\ NodesKept
  BY <1>1, <1>2 DEF OwnCwd, NodesKept, TypeOK, Nodes
<1>5. RefsCounted'
  <2>1. \A i \in Inums : OpenFiles(i)' = OpenFiles(i)
    BY <1>2 DEF OpenFiles
  <2>2. ASSUME NEW i \in Inums PROVE RefsMoved(p, u, i)
    <3>1. icache'[i].ref + Held(th[p], i) = icache[i].ref + Held(u, i)
      BY DEF Plain
    <3>2. PICK c, o : c = Is(cwd[p], i) /\ o = Cardinality(OpenFiles(i))
      OBVIOUS
    <3>3. c = Is(cwd'[p], i) /\ o = Cardinality(OpenFiles(i)')
      BY <1>2, <2>1, <3>2
    <3>4. RefsMoved(p, u, i) <=> icache'[i].ref + Held(th[p], i) + c + o = icache[i].ref + Held(u, i) + c + o
      BY <3>2, <3>3 DEF RefsMoved
    <3>5. QED
      BY <3>1, <3>4
  <2>3. \A i \in Inums : icache'[i].ref = Cardinality({q \in Procs : cwd'[q] = i})
                              + Cardinality(OpenFiles(i)') + HeldByCalls(i)'
    BY <1>1, <1>2, <1>4, <2>2, RefsStep
  <2>4. \A f \in Files : ftable'[f].ref = Cardinality(Descriptors(f))'
    BY <1>1, <1>2, SameDescriptors
  <2>5. QED
    BY <2>3, <2>4 DEF RefsCounted
<1>6. LockInv'
  BY <1>1, <1>2, LockStep
<1>7. CacheInv' /\ FreeNodes' /\ BlocksOwned' /\ FilesInv'
  BY <1>1, <1>2 DEF CacheInv, CacheMoved, FreeNodes, BlocksOwned, Owned, BlockAt, FilesInv
<1>8. KeptInv'
  <2>1. KeepsMoved(p, u)
    BY <1>2 DEF Plain, KeepsMoved
  <2>2. QED
    BY <1>1, <1>2, <1>4, <2>1, KeptStep
<1>9. FreeingInv'
  <2>1. FreeingMoved(p, u)
    <3>1. \A i : OpenFiles(i)' = OpenFiles(i)
      BY <1>2 DEF OpenFiles
    <3>2. p \in Procs
      BY <1>1, <1>2, MovesOne
    <3>3. QED
      BY <1>2, <3>1, <3>2 DEF Plain, FreeingMoved
  <2>2. QED
    BY <1>1, <1>2, <1>4, <2>1, FreeingStep
<1>10. FoundInv'
  <2>1. FoundMoved(p, u)
    BY <1>2 DEF Plain, FoundMoved
  <2>2. QED
    BY <1>1, <1>2, <2>1, FoundStep
<1>11. (\A q \in Procs : CallInv(th[q])') /\ (\A q \in Procs : DeadInv(q)')
  BY <1>1, <1>2, CallsStep, DeadStep
<1>12. QED
  BY <1>3, <1>5, <1>6, <1>7, <1>8, <1>9, <1>10, <1>11 DEF IInv

-----------------------------------------------------------------------------
(* The inode cache. *)

\* ilock() finds the inode that is on disk.
LEMMA NodeOnDisk ==
    ASSUME IInv, NEW i \in Inums
    PROVE  Node(i) = dino[i] /\ dino[i] \in Nodes
  BY DEF IInv, CacheInv, Node, TypeOK

\* The cache after ilock(), by field.
LEMMA LockedCache ==
    ASSUME IInv, NEW i \in Inums, NEW l \in Procs \cup {NOBODY}
    PROVE  /\ Locked(i, l) \in Caches
           /\ \A j \in Inums :
                /\ Locked(i, l)[j].ref = icache[j].ref
                /\ Locked(i, l)[j].lock = IF j = i THEN l ELSE icache[j].lock
                /\ Locked(i, l)[j].valid <=> j = i \/ icache[j].valid
                /\ Locked(i, l)[j].node = IF j = i THEN dino[i] ELSE icache[j].node
<1>1. icache \in Caches /\ Node(i) = dino[i] /\ dino[i] \in Nodes
  BY NodeOnDisk DEF IInv, TypeOK
<1>2. PICK n \in Nodes : n = Node(i) /\ n = dino[i]
  BY <1>1
<1>4. PICK r : r = [icache[i] EXCEPT !.lock = l, !.valid = TRUE, !.node = n]
  OBVIOUS
<1>5. Locked(i, l) = [icache EXCEPT ![i] = r]
  BY <1>1, <1>2, <1>4 DEF Locked, Caches
<1>6. r \in [ref : Nat, valid : BOOLEAN, lock : Procs \cup {NOBODY}, node : Nodes]
  BY <1>1, <1>2, <1>4 DEF Caches
<1>7. Locked(i, l) \in Caches
  BY <1>1, <1>5, <1>6 DEF Caches
<1>8. r.ref = icache[i].ref /\ r.lock = l /\ r.valid /\ r.node = n
  BY <1>1, <1>4 DEF Caches
<1>9. QED
  BY <1>1, <1>2, <1>5, <1>7, <1>8 DEF Caches

\* The cache after iget(), by field.
LEMMA IGetCache ==
    ASSUME NEW c \in Caches, NEW i \in Inums
    PROVE  /\ IGet(c, i) \in Caches
           /\ \A j \in Inums :
                /\ IGet(c, i)[j].ref = IF j = i THEN c[j].ref + 1 ELSE c[j].ref
                /\ IGet(c, i)[j].lock = c[j].lock
                /\ IGet(c, i)[j].valid <=> c[j].valid /\ (j = i => c[j].ref > 0)
                /\ IGet(c, i)[j].node = c[j].node
<1> DEFINE r == IF c[i].ref > 0 THEN [c[i] EXCEPT !.ref = @ + 1]
                               ELSE [c[i] EXCEPT !.ref = 1, !.valid = FALSE]
<1>1. IGet(c, i) = [c EXCEPT ![i] = r]
  BY DEF IGet, Caches
<1>2. /\ r \in [ref : Nat, valid : BOOLEAN, lock : Procs \cup {NOBODY}, node : Nodes]
      /\ r.ref = c[i].ref + 1 /\ r.lock = c[i].lock /\ r.node = c[i].node
      /\ r.valid <=> c[i].valid /\ c[i].ref > 0
  <2>1. CASE c[i].ref > 0
    BY <2>1 DEF Caches
  <2>2. CASE ~(c[i].ref > 0)
    <3>1. c[i].ref = 0 /\ r = [c[i] EXCEPT !.ref = 1, !.valid = FALSE]
      BY <2>2 DEF Caches
    <3>2. c[i] \in [ref : Nat, valid : BOOLEAN, lock : Procs \cup {NOBODY}, node : Nodes]
      BY DEF Caches
    <3>3. PICK x : x = c[i]
      OBVIOUS
    <3>4. r = [x EXCEPT !.ref = 1, !.valid = FALSE]
      BY <3>1, <3>3
    <3> HIDE DEF r
    <3>5. r.ref = 1 /\ r.lock = x.lock /\ r.node = x.node /\ r.valid = FALSE
          /\ r \in [ref : Nat, valid : BOOLEAN, lock : Procs \cup {NOBODY}, node : Nodes]
      BY <3>2, <3>3, <3>4
    <3>6. QED
      BY <3>1, <3>3, <3>5
  <2>3. QED
    BY <2>1, <2>2
<1> HIDE DEF r
<1>3. IGet(c, i) \in Caches
  BY <1>1, <1>2 DEF Caches
<1>4. QED
  BY <1>1, <1>2, <1>3 DEF Caches

\* The cache after a change of an inode, by field.
LEMMA UpdatedCache ==
    ASSUME NEW c \in Caches, NEW i \in Inums, NEW n \in Nodes
    PROVE  /\ Updated(c, i, n) \in Caches
           /\ \A j \in Inums :
                /\ Updated(c, i, n)[j].ref = c[j].ref
                /\ Updated(c, i, n)[j].lock = c[j].lock
                /\ Updated(c, i, n)[j].valid <=> c[j].valid
                /\ Updated(c, i, n)[j].node = IF j = i THEN n ELSE c[j].node
  BY DEF Updated, Caches

\* The cache after a change of a lock, by field.
LEMMA LockCache ==
    ASSUME NEW c \in Caches, NEW i \in Inums, NEW l \in Procs \cup {NOBODY}
    PROVE  /\ [c EXCEPT ![i].lock = l] \in Caches
           /\ \A j \in Inums :
                /\ [c EXCEPT ![i].lock = l][j].ref = c[j].ref
                /\ [c EXCEPT ![i].lock = l][j].lock = IF j = i THEN l ELSE c[j].lock
                /\ [c EXCEPT ![i].lock = l][j].valid <=> c[j].valid
                /\ [c EXCEPT ![i].lock = l][j].node = c[j].node
  BY DEF Caches

\* What is known of the locals of a call.
LEMMA LocalsHere ==
    ASSUME IInv, NEW p \in Procs
    PROVE  /\ th[p] \in Locals /\ CallInv(th[p]) /\ icache \in Caches
           /\ {th[p].cur, th[p].ip, th[p].dp, th[p].put, th[p].put2, cwd[p]} \subseteq Pointers
           /\ Inums \subseteq Pointers /\ NONE \in Pointers /\ NONE \notin Inums
           /\ th[p].cur # NONE => th[p].cur \in Inums
           /\ th[p].ip # NONE => th[p].ip \in Inums
           /\ th[p].dp # NONE => th[p].dp \in Inums
           /\ th[p].put # NONE => th[p].put \in Inums
           /\ th[p].put2 # NONE => th[p].put2 \in Inums
           /\ cwd[p] # NONE => cwd[p] \in Inums
           /\ th[p].rest \in Seq(Elements) /\ th[p].new \in Paths /\ th[p].name \in Elements
  BY DEF IInv, TypeOK, Locals, Pointers, Inums, NONE

\* The root is an inode.
LEMMA RootInum == ROOTINO \in Inums
  BY DiskAssumption DEF ROOTINO, Inums
-----------------------------------------------------------------------------
(* The locals of a call. *)

\* What a call is about to put, by field.
LEMMA PutLocals ==
    ASSUME NEW t \in Locals, NEW i \in Pointers, NEW k \in Pcs
    PROVE  /\ Put(t, i, k) \in Locals
           /\ Put(t, i, k).pc = "put" /\ Put(t, i, k).put = i /\ Put(t, i, k).then = k
           /\ Put(t, i, k).op = t.op /\ Put(t, i, k).cur = t.cur /\ Put(t, i, k).ip = t.ip
           /\ Put(t, i, k).dp = t.dp /\ Put(t, i, k).put2 = t.put2 /\ Put(t, i, k).name = t.name
           /\ Put(t, i, k).rest = t.rest /\ Put(t, i, k).new = t.new
  BY DEF Put, Locals, Pcs

\* The places where a call goes on when it has put its inodes.
LEMMA GoesOnAt ==
    /\ {"idle", "linkbad", "dropdir", "exists", "fopen", "made", "unlinked", "exit", "dead"} \subseteq Pcs
    /\ \A t : Failed(t) \in Pcs
  BY DEF Pcs, Failed

\* A process in user space has no pointers.
LEMMA IdleLocals ==
    /\ Idle \in Locals /\ CallInv(Idle) /\ At(Idle) = "idle"
    /\ \A k \in Pcs : [Idle EXCEPT !.pc = k] \in Locals
    /\ \A i \in Inums : ~HasLocked(Idle, i) /\ ~Keeps(Idle, i) /\ Held(Idle, i) = 0
<1>1. <<>> \in Seq(Elements) /\ NoPath \in Paths
  BY DEF NoPath, Paths
<1>2. PICK t : t = Idle
  OBVIOUS
<1>3. /\ t.pc = "idle" /\ t.op = "none" /\ t.cur = NONE /\ t.ip = NONE /\ t.dp = NONE
      /\ t.put = NONE /\ t.put2 = NONE /\ t.then = "idle"
  BY <1>2 DEF Idle
<1>4. t \in Locals
  BY <1>1, <1>2 DEF Idle, Locals, Pcs, Pointers, Elements, Names
<1>5. CallInv(t) /\ At(t) = "idle"
  BY <1>3 DEF CallInv, OpAt, PointersAt, Putting, At, NameOps, ParentOps, CreateOps, LinkPlaces
<1>6. \A i \in Inums : ~HasLocked(t, i) /\ ~Keeps(t, i) /\ Held(t, i) = 0
  BY <1>3, <1>5 DEF HasLocked, Keeps, Held, Is, NONE, Inums
<1>7. \A k \in Pcs : [t EXCEPT !.pc = k] \in Locals
  BY <1>4 DEF Locals
<1>8. QED
  BY <1>2, <1>4, <1>5, <1>6, <1>7

\* A call about to walk from an inode, holding at most the file to link.
Walker(t) ==
    /\ t \in Locals /\ t.op \in NameOps \cup ParentOps
    /\ t.cur = NONE /\ t.dp = NONE /\ t.put = NONE /\ t.put2 = NONE
    /\ t.ip # NONE <=> t.op = "linkdir"

\* What the locals are at the head of the loop of namex().
Walked(t, i, s, w) ==
    /\ w \in Locals /\ CallInv(w) /\ w.dp = NONE /\ w.op = t.op /\ w.put2 = NONE
    /\ w.pc \in {"walk", "put"} \cup NameOps /\ At(w) \notin {"dead", "dropdir", "unlinked"}
    /\ w.rest \in {s, t.rest} /\ w.new = t.new /\ w.name = t.name
    /\ w.op = "linkdir" => w.ip = t.ip
    /\ \A j \in Inums : /\ Held(w, j) = Held(t, j) + Is(i, j)
                        /\ ~HasLocked(w, j)
                        /\ Keeps(w, j) => Keeps(t, j)
                        /\ PointsIn(w, j) => PointsIn(t, j) \/ j = i

\* The loop of namex() takes the inode it starts from.
LEMMA WalkingTo ==
    ASSUME NEW t, Walker(t), NEW i \in Inums, NEW s \in Seq(Elements)
    PROVE  /\ Walked(t, i, s, Walking(t, i, s))
           /\ s # <<>> \/ t.op \notin ParentOps =>
                /\ Walking(t, i, s).put = NONE
                /\ Walking(t, i, s).pc \in {"walk"} \cup NameOps
<1>1. /\ t \in Locals /\ t.op \in NameOps \cup ParentOps
      /\ t.cur = NONE /\ t.dp = NONE /\ t.put = NONE /\ t.put2 = NONE
      /\ t.ip # NONE <=> t.op = "linkdir"
  BY DEF Walker
<1>2. PICK w : w = Walking(t, i, s)
  OBVIOUS
<1>3. i \in Pointers /\ NONE \in Pointers /\ i # NONE
  BY DEF Pointers, NONE, Inums
<1>4. CASE s # <<>>
  <2>1. w = [t EXCEPT !.pc = "walk", !.cur = i, !.rest = s]
    BY <1>2, <1>4 DEF Walking
  <2>2. /\ w \in Locals /\ w.pc = "walk" /\ w.cur = i /\ w.rest = s /\ w.op = t.op
        /\ w.ip = t.ip /\ w.dp = t.dp /\ w.put = t.put /\ w.put2 = t.put2 /\ w.new = t.new /\ w.name = t.name
    BY <1>1, <1>3, <2>1 DEF Locals, Pcs
  <2>3. CallInv(w) /\ At(w) = "walk"
    BY <1>1, <1>3, <1>4, <2>2 DEF CallInv, OpAt, PointersAt, At, Putting, LinkPlaces, NameOps, ParentOps, CreateOps
  <2>4. \A j \in Inums : Held(w, j) = Held(t, j) + Is(i, j)
    BY <1>1, <2>2 DEF Held, Is, NONE, Inums
  <2>5. \A j \in Inums : ~HasLocked(w, j) /\ (Keeps(w, j) => Keeps(t, j))
                    /\ (PointsIn(w, j) => PointsIn(t, j) \/ j = i)
    BY <1>1, <2>2, <2>3 DEF HasLocked, PointsIn, Keeps, NONE, Inums
  <2>6. QED
    BY <1>1, <1>2, <2>2, <2>3, <2>4, <2>5 DEF Walked
<1>5. CASE s = <<>> /\ t.op \in ParentOps
  <2>1. PICK x : x = [t EXCEPT !.cur = NONE]
    OBVIOUS
  <2>2. x \in Locals /\ x.op = t.op /\ x.cur = NONE /\ x.ip = t.ip /\ x.dp = t.dp /\ x.put2 = t.put2
        /\ x.rest = t.rest /\ x.new = t.new /\ x.name = t.name
    BY <1>1, <1>3, <2>1 DEF Locals
  <2>3. w = Put(x, i, Failed(t)) /\ Failed(t) \in Pcs /\ Failed(t) \in {"idle", "linkbad"}
        /\ (Failed(t) = "linkbad" <=> t.op = "linkdir")
    BY <1>2, <1>5, <2>1 DEF Walking, Failed, Pcs
  <2>4. /\ w \in Locals /\ w.pc = "put" /\ w.then = Failed(t) /\ w.put = i /\ w.op = t.op /\ w.cur = NONE
        /\ w.ip = t.ip /\ w.dp = NONE /\ w.put2 = NONE /\ w.rest = t.rest
        /\ w.new = t.new /\ w.name = t.name
    BY <1>1, <1>3, <2>2, <2>3, PutLocals
  <2>5. CallInv(w) /\ At(w) = Failed(t)
    BY <1>1, <1>3, <1>5, <2>3, <2>4 DEF CallInv, OpAt, PointersAt, At, Putting, LinkPlaces, NameOps, ParentOps, CreateOps
  <2>6. \A j \in Inums : Held(w, j) = Held(t, j) + Is(i, j)
    BY <1>1, <2>4 DEF Held, Is, NONE, Inums
  <2>7. \A j \in Inums : ~HasLocked(w, j) /\ (Keeps(w, j) => Keeps(t, j))
                    /\ (PointsIn(w, j) => PointsIn(t, j) \/ j = i)
    BY <1>1, <2>3, <2>4, <2>5 DEF HasLocked, PointsIn, Keeps, NONE, Inums
  <2>8. QED
    BY <1>1, <1>2, <1>5, <2>3, <2>4, <2>5, <2>6, <2>7 DEF Walked
<1>6. CASE s = <<>> /\ t.op \notin ParentOps
  <2>1. w = [t EXCEPT !.pc = t.op, !.ip = i, !.cur = NONE, !.rest = <<>>]
    BY <1>2, <1>6 DEF Walking
  <2>2. t.op \in NameOps /\ t.op \in Pcs /\ t.op # "linkdir" /\ t.ip = NONE /\ <<>> \in Seq(Elements)
    BY <1>1, <1>6 DEF Pcs, NameOps, ParentOps
  <2>3. /\ w \in Locals /\ w.pc = t.op /\ w.cur = NONE /\ w.op = t.op
        /\ w.ip = i /\ w.dp = NONE /\ w.put = NONE /\ w.put2 = NONE /\ w.rest = s
        /\ w.new = t.new /\ w.name = t.name
    BY <1>1, <1>3, <1>6, <2>1, <2>2 DEF Locals
  <2>4. CallInv(w) /\ At(w) = t.op
    BY <1>1, <1>3, <2>2, <2>3 DEF CallInv, OpAt, PointersAt, At, Putting, LinkPlaces, NameOps, ParentOps, CreateOps
  <2>5. \A j \in Inums : Held(w, j) = Held(t, j) + Is(i, j)
    BY <1>1, <2>2, <2>3 DEF Held, Is, NONE, Inums
  <2>6. \A j \in Inums : ~HasLocked(w, j) /\ (Keeps(w, j) => Keeps(t, j))
                    /\ (PointsIn(w, j) => PointsIn(t, j) \/ j = i)
    BY <1>1, <2>2, <2>3, <2>4 DEF HasLocked, PointsIn, Keeps, NameOps, NONE, Inums
  <2>7. QED
    BY <1>1, <1>2, <2>2, <2>3, <2>4, <2>5, <2>6 DEF Walked, NameOps
<1>7. QED
  BY <1>4, <1>5, <1>6
\* An inode with a pointer to it, or locked, has a reference.
LEMMA PointerRef ==
    ASSUME IInv, NEW i \in Inums
    PROVE  /\ \A p \in Procs : Held(th[p], i) # 0 \/ cwd[p] = i => icache[i].ref > 0
           /\ icache[i].lock # NOBODY => icache[i].ref > 0
<1>1. ASSUME NEW p \in Procs, Held(th[p], i) # 0 \/ cwd[p] = i PROVE icache[i].ref > 0
  <2>1. PICK h, c, o \in Nat : h = Held(th[p], i) /\ c = Is(cwd[p], i) /\ o = Cardinality(OpenFiles(i))
    BY OpenFilesFinite DEF Held, Is
  <2>2. icache[i].ref >= h + c + o /\ icache[i].ref \in Nat
    BY <2>1, RefsOfTwo DEF IInv, TypeOK, Caches
  <2>3. QED
    BY <1>1, <2>1, <2>2 DEF Is
<1>2. ASSUME icache[i].lock # NOBODY PROVE \E p \in Procs : Held(th[p], i) # 0
  <2>1. PICK p \in Procs : icache[i].lock = p
    BY <1>2 DEF IInv, TypeOK, Caches
  <2>2. HasLocked(th[p], i)
    BY <2>1 DEF IInv, LockInv
  <2>3. QED
    BY <2>2 DEF HasLocked, Held, Is
<1>3. QED
  BY <1>1, <1>2

-----------------------------------------------------------------------------
(* The steps of a call that change nothing but its locals and the cache.    *)

\* The start of a system call.
LEMMA CallPlain ==
    ASSUME IInv, NEW p \in Procs, NEW r \in Requests, Call(p, r[1], r[2], r[3])
    PROVE  \E u : Plain(p, u) /\ Modest(p, u)
<1>1. PICK t, i, x, u : /\ t = th[p] /\ i = Start(p, r[2]) /\ x = [Idle EXCEPT !.op = r[1], !.new = r[3]]
                        /\ u = Walking(x, i, r[2].elems)
  OBVIOUS
<1>2. /\ t \in Locals /\ CallInv(t) /\ icache \in Caches /\ t.pc = "idle"
      /\ calls' \in 0..MaxCalls
      /\ UNCHANGED <<dino, dents, used, ftable, ofile, cwd>>
      /\ icache' = IGet(icache, i) /\ th' = [th EXCEPT ![p] = u]
  BY <1>1, LocalsHere, SizeAssumption DEF Call, disk, files, IInv, TypeOK
<1>3. /\ r[1] \in NameOps \cup CreateOps \cup {"unlink"} /\ r[2] \in Paths /\ r[3] \in Paths
      /\ r[2].abs \in BOOLEAN /\ r[2].elems \in Seq(Elements)
  BY RequestAssumption DEF Paths
<1>4. At(t) = "idle" /\ cwd[p] # NONE /\ cwd[p] \in Inums
  BY <1>1, <1>2, LocalsHere DEF At, Putting, IInv, DeadInv
<1>5. i \in Inums /\ i \in {cwd[p], ROOTINO}
  BY <1>1, <1>4, RootInum DEF Start
<1>6. /\ x \in Locals /\ x.op = r[1] /\ x.new = r[3] /\ x.cur = NONE /\ x.ip = NONE
      /\ x.dp = NONE /\ x.put = NONE /\ x.put2 = NONE /\ x.name = "f"
  <2>1. r[1] \in NameOps \cup ParentOps \cup {"none"}
    BY <1>3 DEF ParentOps
  <2>2. PICK y : y = Idle
    OBVIOUS
  <2>3. /\ y \in Locals /\ y.cur = NONE /\ y.ip = NONE
        /\ y.dp = NONE /\ y.put = NONE /\ y.put2 = NONE /\ y.name = "f"
    BY <2>2, IdleLocals DEF Idle
  <2>4. x = [y EXCEPT !.op = r[1], !.new = r[3]]
    BY <1>1, <2>2
  <2>5. QED
    BY <1>3, <2>1, <2>3, <2>4 DEF Locals
<1>7. Walker(x)
  BY <1>3, <1>6 DEF Walker, NameOps, ParentOps, CreateOps
<1>8. Walked(x, i, r[2].elems, u)
  BY <1>1, <1>3, <1>5, <1>7, WalkingTo
<1>9. \A j \in Inums : Held(x, j) = 0 /\ Held(t, j) = 0 /\ Is(i, j) \in Nat /\ ~HasLocked(t, j) /\ ~Keeps(x, j)
  BY <1>2, <1>4, <1>6, <1>7 DEF Held, Is, NONE, Inums, CallInv, PointersAt, Putting, NameOps, ParentOps, CreateOps, LinkPlaces, HasLocked, Keeps
<1>10. /\ icache' \in Caches
       /\ \A j \in Inums : /\ icache'[j].ref = icache[j].ref + Is(i, j)
                           /\ icache'[j].lock = icache[j].lock /\ icache'[j].node = icache[j].node
                           /\ icache'[j].valid <=> icache[j].valid /\ (j = i => icache[j].ref > 0)
                           /\ icache[j].ref \in Nat
  BY <1>2, <1>5, IGetCache DEF Is, Caches
<1>11. \A j \in Inums : ~HasLocked(u, j) /\ ~Keeps(u, j) /\ Held(u, j) = Is(i, j)
  BY <1>8, <1>9 DEF Walked
<1>12. LocksMoved(p, u) /\ CacheMoved
  <2>1. LocksMoved(p, u)
    BY <1>1, <1>9, <1>10, <1>11 DEF LocksMoved, IInv, LockInv
  <2>2. CacheMoved
    BY <1>2, <1>10, PointerRef DEF CacheMoved, IInv, CacheInv
  <2>3. QED
    BY <2>1, <2>2
<1>13. Plain(p, u)
  BY <1>1, <1>2, <1>4, <1>8, <1>9, <1>10, <1>11, <1>12 DEF Plain, Moves, Walked, FoundAt, At, Putting, NameOps
<1>14. Modest(p, u)
  <2>1. NoParentPaths => PathOk(u)
    <3>1. ASSUME NoParentPaths PROVE PathOk(u)
      <4>1. r[2].elems \in Seq(Names \cup {"."}) /\ r[3].elems \in Seq(Names \cup {"."})
        BY <3>1 DEF NoParentPaths
      <4>2. u.rest \in {r[2].elems, x.rest} /\ u.new = r[3] /\ u.name = "f" /\ x.rest = <<>>
        BY <1>1, <1>6, <1>8 DEF Walked, Idle
      <4>3. <<>> \in Seq(Names \cup {"."})
        OBVIOUS
      <4>4. QED
        BY <4>1, <4>2, <4>3 DEF PathOk
    <3>2. QED
      BY <3>1
  <2>2. \A j \in Inums : PointsIn(u, j) \/ Held(u, j) # 0 => Known(p, j)
    BY <1>5, <1>6, <1>8, <1>11 DEF Walked, PointsIn, Known, Is, NONE, Inums
  <2>3. QED
    BY <1>1, <1>2, <1>6, <1>8, <1>10, <2>1, <2>2 DEF Modest, Walked, NameOps
<1>15. QED
  BY <1>13, <1>14

\* A step of p on the inode i, which p has locked or which is not locked: the
\* lock becomes l, and p takes a reference to e unless e is NONE.
LocksOne(p, i, l, e) ==
    /\ i \in Inums /\ l \in {p, NOBODY} /\ icache[i].lock \in {p, NOBODY} /\ dino[i].type # "free"
    /\ icache' \in Caches
    /\ \A j \in Inums : /\ icache'[j].ref = icache[j].ref + Is(e, j)
                        /\ icache'[j].lock = IF j = i THEN l ELSE icache[j].lock
                        /\ icache'[j].valid <=> (j = i \/ icache[j].valid) /\ (j = e => icache[j].ref > 0)
                        /\ icache'[j].node = IF j = i THEN dino[i] ELSE icache[j].node

\* What the locals become in such a step.
CallMoves(p, u, i, l, e) ==
    /\ u \in Locals /\ CallInv(u) /\ {At(u), At(th[p])} \cap {"dead", "unlinked"} = {}
    /\ {u.pc, th[p].pc} \cap {"free", "link1"} = {}
    /\ \A j \in Inums : /\ Held(u, j) = Held(th[p], j) + Is(e, j)
                        /\ HasLocked(u, j) <=> IF j = i THEN l = p ELSE HasLocked(th[p], j)
                        /\ Keeps(u, j) => Keeps(th[p], j) \/ j = i
                        /\ PointsIn(u, j) => PointsIn(th[p], j) \/ j = e
    /\ u.dp # NONE => u.dp = th[p].dp \/ (u.dp = i /\ dino[i].type = "dir")
    /\ FoundAt(u, dents) /\ PointsIn(th[p], i)
    /\ e # NONE => e \in Inums /\ Known(p, e)
    /\ u.rest \in {th[p].rest, <<>>} \/ (th[p].rest # <<>> /\ u.rest = Tail(th[p].rest))
    /\ u.new = th[p].new
    /\ u.name = th[p].name \/ (th[p].rest # <<>> /\ u.name = Head(th[p].rest))
    /\ u.op = th[p].op /\ (u.op = "linkdir" => u.ip \in {th[p].ip, NONE})

\* Such a step is of the plain kind.
LEMMA CallMovesPlain ==
    ASSUME IInv, NEW p \in Procs, NEW u, NEW i, NEW l, NEW e, LocksOne(p, i, l, e),
           CallMoves(p, u, i, l, e), th' = [th EXCEPT ![p] = u],
           UNCHANGED <<dino, dents, used, ftable, ofile, cwd, calls>>
    PROVE  Plain(p, u) /\ Modest(p, u)
<1>1. PICK t : t = th[p]
  OBVIOUS
<1>2. t \in Locals /\ CallInv(t) /\ icache \in Caches /\ calls \in 0..MaxCalls /\ i \in Inums
  BY <1>1, LocalsHere DEF IInv, TypeOK, LocksOne
<1>3. icache[i].ref > 0 /\ \A j \in Inums : icache[j].ref \in Nat /\ Is(e, j) \in Nat
  <2>1. Held(t, i) # 0
    BY <1>1 DEF CallMoves, PointsIn, Held, Is
  <2>2. QED
    BY <1>1, <1>2, <2>1, PointerRef DEF Caches, Is
<1>4. CacheMoved
  <2>1. ASSUME NEW j \in Inums
        PROVE  /\ icache'[j].valid => icache'[j].node = dino'[j] /\ dino'[j].type # "free"
               /\ icache'[j].lock # NOBODY => icache'[j].valid
    <3>1. CASE j = i
      BY <1>3, <3>1 DEF LocksOne
    <3>2. CASE j # i
      BY <3>2, PointerRef DEF LocksOne, IInv, CacheInv
    <3>3. QED
      BY <3>1, <3>2
  <2>2. QED
    BY <2>1 DEF CacheMoved
<1>5. LocksMoved(p, u)
  <2>1. p # NOBODY
    BY ProcsAssumption
  <2>2. ASSUME NEW j \in Inums
        PROVE  /\ icache'[j].lock = p <=> HasLocked(u, j)
               /\ icache'[j].lock # icache[j].lock =>
                    icache[j].lock \in {p, NOBODY} /\ icache'[j].lock \in {p, NOBODY}
    BY <2>1 DEF LocksOne, CallMoves, IInv, LockInv
  <2>3. QED
    BY <2>2 DEF LocksMoved
<1>6. Plain(p, u)
  <2>1. Moves(p, u) /\ icache' \in Caches /\ CallInv(u) /\ FoundAt(u, dents)
    BY DEF Moves, CallMoves, LocksOne
  <2>2. At(u) # "dead" /\ At(th[p]) # "dead" /\ u.pc # "free"
    BY DEF CallMoves
  <2>3. \A j \in Inums : icache'[j].ref + Held(th[p], j) = icache[j].ref + Held(u, j)
    <3>1. \A j \in Inums : Held(th[p], j) \in Nat
      BY DEF Held, Is
    <3>2. QED
      BY <1>3, <3>1 DEF LocksOne, CallMoves
  <2>4. /\ \A j \in Inums : Keeps(u, j) => Keeps(th[p], j) \/ (Nobodys(p, j) /\ dino[j].type # "free")
        /\ u.dp # NONE => u.dp = th[p].dp \/ dino[u.dp].type = "dir"
    BY DEF CallMoves, LocksOne, Nobodys
  <2>5. QED
    BY <1>2, <1>4, <1>5, <2>1, <2>2, <2>3, <2>4 DEF Plain
<1>7. Modest(p, u)
  <2>1. ASSUME PathInv PROVE PathOk(u)
    <3>1. t.rest \in Seq(Names \cup {"."}) /\ t.new.elems \in Seq(Names \cup {"."}) /\ t.name # ".."
      BY <1>1, <2>1 DEF PathInv, PathOk
    <3>2. <<>> \in Seq(Names \cup {"."}) /\ ".." \notin Names \cup {"."}
      BY DEF Names
    <3>3. t.rest # <<>> => Tail(t.rest) \in Seq(Names \cup {"."}) /\ Head(t.rest) \in Names \cup {"."}
      BY <3>1
    <3>4. QED
      BY <1>1, <3>1, <3>2, <3>3 DEF CallMoves, PathOk
  <2>2. th[p].pc # "link1" /\ u.pc # "link1" /\ u.pc # "free" /\ At(u) # "unlinked"
    BY DEF CallMoves
  <2>3. ASSUME NEW j \in Inums
        PROVE  /\ PointsIn(u, j) => PointsIn(th[p], j) \/ Known(p, j)
               /\ Held(u, j) # 0 => Held(th[p], j) # 0 \/ Known(p, j)
               /\ icache'[j].valid => icache[j].valid \/ PointsIn(th[p], j)
    <3>1. j = e => e # NONE
      BY DEF NONE, Inums
    <3>2. Is(e, j) # 0 => j = e
      BY DEF Is
    <3>3. Held(th[p], j) \in Nat /\ Held(u, j) = Held(th[p], j) + Is(e, j) /\ Is(e, j) \in Nat
      BY DEF CallMoves, Held, Is
    <3>4. QED
      BY <3>1, <3>2, <3>3 DEF CallMoves, LocksOne
  <2>4. u.op = "linkdir" /\ u.ip # NONE => th[p].op = "linkdir" /\ u.ip = th[p].ip
    BY DEF CallMoves
  <2>5. QED
    BY <2>1, <2>2, <2>3, <2>4 DEF Modest
<1>8. QED
  BY <1>6, <1>7

\* ilock() of a free lock, and iget() of an entry that was found.
LEMMA LockedOne ==
    ASSUME IInv, NEW p \in Procs, NEW i \in Inums, NEW l \in {p, NOBODY}, CanLock(i)
    PROVE  /\ icache' = Locked(i, l) => LocksOne(p, i, l, NONE)
           /\ \A e \in Inums : icache' = IGet(Locked(i, l), e) => LocksOne(p, i, l, e)
<1>1. icache[i].lock = NOBODY /\ dino[i].type # "free"
  BY NodeOnDisk DEF CanLock
<1>2. PICK c : c = Locked(i, l)
  OBVIOUS
<1>3. /\ c \in Caches
      /\ \A j \in Inums : /\ c[j].ref = icache[j].ref
                          /\ c[j].lock = IF j = i THEN l ELSE icache[j].lock
                          /\ c[j].valid <=> j = i \/ icache[j].valid
                          /\ c[j].node = IF j = i THEN dino[i] ELSE icache[j].node
  BY <1>2, LockedCache
<1>4. \A j \in Inums : icache[j].ref \in Nat
  BY DEF IInv, TypeOK, Caches
<1>5. ASSUME icache' = c PROVE LocksOne(p, i, l, NONE)
  BY <1>1, <1>3, <1>4, <1>5 DEF LocksOne, Is, NONE, Inums
<1>6. ASSUME NEW e \in Inums, icache' = IGet(c, e) PROVE LocksOne(p, i, l, e)
  <2>1. /\ icache' \in Caches
        /\ \A j \in Inums : /\ icache'[j].ref = IF j = e THEN c[j].ref + 1 ELSE c[j].ref
                            /\ icache'[j].lock = c[j].lock /\ icache'[j].node = c[j].node
                            /\ icache'[j].valid <=> c[j].valid /\ (j = e => c[j].ref > 0)
    BY <1>3, <1>6, IGetCache
  <2>2. \A j \in Inums : icache'[j].ref = icache[j].ref + Is(e, j)
    BY <1>3, <1>4, <2>1 DEF Is
  <2>3. QED
    BY <1>1, <1>3, <2>1, <2>2 DEF LocksOne
<1>7. QED
  BY <1>2, <1>5, <1>6

\* iunlock() of a lock that p has.
LEMMA UnlockedOne ==
    ASSUME IInv, NEW p \in Procs, NEW i \in Inums, HasLocked(th[p], i),
           icache' = [icache EXCEPT ![i].lock = NOBODY]
    PROVE  LocksOne(p, i, NOBODY, NONE)
<1>1. icache[i].lock = p /\ icache[i].valid /\ dino[i].type # "free" /\ icache[i].node = dino[i]
  BY ProcsAssumption DEF IInv, LockInv, CacheInv
<1>2. icache \in Caches
  BY DEF IInv, TypeOK
<1>3. QED
  BY <1>1, <1>2, LockCache DEF LocksOne, Is, NONE, Inums, Caches

\* A turn of the loop of namex().
LEMMA WalkPlain ==
    ASSUME IInv, NEW p \in Procs, Walk(p)
    PROVE  \E u : Plain(p, u) /\ Modest(p, u)
<1>1. PICK t, i, n, x : t = th[p] /\ i = t.cur /\ n = Head(t.rest) /\ x = [t EXCEPT !.cur = NONE]
  OBVIOUS
<1>2. /\ t.pc = "walk" /\ CanLock(i) /\ UNCHANGED <<dino, dents, used, ftable, ofile, cwd, calls>>
  BY <1>1 DEF Walk, disk, files
<1>3. t \in Locals /\ CallInv(t) /\ At(t) = "walk" /\ ~Putting(t)
  BY <1>1, <1>2, LocalsHere DEF At, Putting
<1>4. /\ t.put = NONE /\ t.put2 = NONE /\ t.dp = NONE /\ t.op \in NameOps \cup ParentOps /\ t.rest # <<>>
      /\ t.ip # NONE <=> t.op = "linkdir"
      /\ i \in Inums /\ i # NONE /\ i \in Pointers /\ NONE \in Pointers
  BY <1>1, <1>3, LocalsHere DEF CallInv, OpAt, PointersAt, NameOps, LinkPlaces, ParentOps, CreateOps
<1>5. t.rest \in Seq(Elements) /\ n \in Elements /\ Tail(t.rest) \in Seq(Elements) /\ <<>> \in Seq(Elements)
  BY <1>1, <1>4, LocalsHere
<1>6. /\ x \in Locals /\ x.cur = NONE /\ x.op = t.op /\ x.ip = t.ip /\ x.dp = NONE
      /\ x.put = NONE /\ x.put2 = NONE /\ x.rest = t.rest /\ x.new = t.new /\ x.name = t.name
  BY <1>1, <1>3, <1>4 DEF Locals
<1>7. /\ \A j \in Inums : Held(t, j) = Held(x, j) + Is(i, j) /\ Held(x, j) \in Nat /\ Is(i, j) \in Nat
      /\ \A j \in Inums : ~HasLocked(t, j) /\ (Keeps(x, j) => Keeps(t, j))
      /\ PointsIn(t, i)
  BY <1>1, <1>3, <1>4, <1>6 DEF Held, Is, NONE, Inums, HasLocked, Keeps, At, Putting, PointsIn
<1>8. CASE /\ icache' = Locked(i, NOBODY)
           /\ th' = [th EXCEPT ![p] = Put([t EXCEPT !.cur = NONE], i, Failed(t))]
  <2>1. PICK u : u = Put(x, i, Failed(t))
    OBVIOUS
  <2>2. Failed(t) \in Pcs /\ Failed(t) \in {"idle", "linkbad"} /\ (Failed(t) = "linkbad" <=> t.op = "linkdir")
    BY DEF Failed, Pcs
  <2>3. /\ u \in Locals /\ u.pc = "put" /\ u.put = i /\ u.then = Failed(t) /\ u.op = t.op /\ u.cur = NONE
        /\ u.ip = t.ip /\ u.dp = NONE /\ u.put2 = NONE /\ u.name = t.name /\ u.rest = t.rest /\ u.new = t.new
    BY <1>4, <1>6, <2>1, <2>2, PutLocals
  <2>4. CallInv(u) /\ At(u) = Failed(t)
    BY <1>4, <2>2, <2>3 DEF CallInv, OpAt, PointersAt, At, Putting, NameOps, LinkPlaces, ParentOps, CreateOps
  <2>5. CallMoves(p, u, i, NOBODY, NONE)
    <3>1. \A j \in Inums : Held(u, j) = Held(t, j) + Is(NONE, j)
      BY <1>1, <1>4, <2>3 DEF Held, Is, NONE, Inums
    <3>2. \A j \in Inums : ~HasLocked(u, j) /\ (Keeps(u, j) => Keeps(t, j)) /\ (PointsIn(u, j) => PointsIn(t, j))
      BY <1>4, <2>2, <2>3, <2>4 DEF HasLocked, Keeps, PointsIn, NONE, Inums
    <3>3. FoundAt(u, dents)
      BY <2>2, <2>3 DEF FoundAt
    <3>4. QED
      BY <1>1, <1>2, <1>3, <1>7, <2>2, <2>3, <2>4, <3>1, <3>2, <3>3, ProcsAssumption DEF CallMoves
  <2>6. LocksOne(p, i, NOBODY, NONE)
    BY <1>2, <1>4, <1>8, LockedOne
  <2>7. QED
    BY <1>1, <1>2, <1>8, <2>1, <2>5, <2>6, CallMovesPlain
<1>9. CASE /\ Node(i).type = "dir" /\ t.op \in ParentOps
           /\ icache' = Locked(i, NOBODY)
           /\ th' = [th EXCEPT ![p] = [t EXCEPT !.pc = t.op, !.dp = i, !.name = n,
                                                !.cur = NONE, !.rest = <<>>]]
  <2>1. PICK u : u = [t EXCEPT !.pc = t.op, !.dp = i, !.name = n, !.cur = NONE, !.rest = <<>>]
    OBVIOUS
  <2>2. t.op \in Pcs /\ t.op \in ParentOps /\ dino[i].type = "dir"
    BY <1>4, <1>9, NodeOnDisk DEF Pcs
  <2>3. /\ u \in Locals /\ u.pc = t.op /\ u.put = NONE /\ u.op = t.op /\ u.cur = NONE
        /\ u.ip = t.ip /\ u.dp = i /\ u.put2 = NONE /\ u.name = n /\ u.rest = <<>> /\ u.new = t.new
    BY <1>3, <1>4, <1>5, <2>1, <2>2 DEF Locals
  <2>4. CallInv(u) /\ At(u) = t.op
    BY <1>4, <2>2, <2>3 DEF CallInv, OpAt, PointersAt, At, Putting, NameOps, LinkPlaces, ParentOps, CreateOps
  <2>5. CallMoves(p, u, i, NOBODY, NONE)
    <3>1. \A j \in Inums : Held(u, j) = Held(t, j) + Is(NONE, j)
      BY <1>1, <1>4, <2>3 DEF Held, Is, NONE, Inums
    <3>2. \A j \in Inums : /\ ~HasLocked(u, j) /\ (Keeps(u, j) => Keeps(t, j) \/ j = i)
                           /\ PointsIn(u, j) => PointsIn(t, j)
      BY <1>1, <1>4, <2>2, <2>3, <2>4 DEF HasLocked, Keeps, PointsIn, NONE, Inums, ParentOps, CreateOps
    <3>3. FoundAt(u, dents) /\ t.op \notin {"dead", "unlinked", "link1", "free"}
      BY <2>2, <2>3 DEF FoundAt, Putting, ParentOps, CreateOps
    <3>4. QED
      BY <1>1, <1>2, <1>3, <1>4, <1>7, <2>2, <2>3, <2>4, <3>1, <3>2, <3>3, ProcsAssumption DEF CallMoves
  <2>6. LocksOne(p, i, NOBODY, NONE)
    BY <1>2, <1>4, <1>9, LockedOne
  <2>7. QED
    BY <1>1, <1>2, <1>9, <2>1, <2>5, <2>6, CallMovesPlain
<1>10. CASE /\ t.op \notin ParentOps \/ Tail(t.rest) # <<>>
            /\ DirLookup(i, n) # NONE
            /\ icache' = IGet(Locked(i, NOBODY), DirLookup(i, n))
            /\ \E y : /\ y = Walking(x, DirLookup(i, n), Tail(t.rest))
                      /\ th' = [th EXCEPT ![p] = Put(y, i, y.pc)]
  <2>1. PICK e, y, u : e = DirLookup(i, n) /\ y = Walking(x, e, Tail(t.rest)) /\ u = Put(y, i, y.pc)
    OBVIOUS
  <2>2. e \in Inums /\ dents[i][n] = e
    BY <1>4, <1>5, <1>10, <2>1 DEF DirLookup, IInv, TypeOK, Pointers
  <2>3. Walker(x)
    BY <1>4, <1>6 DEF Walker
  <2>4. Walked(x, e, Tail(t.rest), y) /\ y.put = NONE /\ y.pc \in {"walk"} \cup NameOps
    BY <1>5, <1>6, <1>10, <2>1, <2>2, <2>3, WalkingTo
  <2>5. /\ y \in Locals /\ CallInv(y) /\ y.dp = NONE /\ y.op = t.op /\ y.put2 = NONE /\ y.pc \in Pcs
        /\ y.rest \in {Tail(t.rest), t.rest} /\ y.new = t.new /\ y.name = t.name
        /\ y.op = "linkdir" => y.ip = t.ip
        /\ \A j \in Inums : /\ Held(y, j) = Held(x, j) + Is(e, j)
                            /\ Keeps(y, j) => Keeps(x, j)
                            /\ PointsIn(y, j) => PointsIn(x, j) \/ j = e
    BY <1>6, <2>4 DEF Walked, Locals
  <2>6. /\ u \in Locals /\ u.pc = "put" /\ u.put = i /\ u.then = y.pc /\ u.op = t.op /\ u.cur = y.cur
        /\ u.ip = y.ip /\ u.dp = NONE /\ u.put2 = NONE /\ u.name = t.name /\ u.rest = y.rest /\ u.new = t.new
    BY <1>4, <2>1, <2>5, PutLocals
  <2>7. CallInv(u) /\ At(u) = y.pc /\ At(y) = y.pc
    BY <1>4, <2>4, <2>5, <2>6 DEF CallInv, OpAt, PointersAt, At, Putting, NameOps, LinkPlaces, ParentOps, CreateOps
  <2>8. CallMoves(p, u, i, NOBODY, e)
    <3>1. \A j \in Inums : Held(u, j) = Held(t, j) + Is(e, j)
      <4>1. \A j \in Inums : Held(u, j) = Held(y, j) + Is(i, j)
        BY <1>1, <1>4, <2>4, <2>5, <2>6 DEF Held, Is, NONE, Inums
      <4>2. \A j \in Inums : Is(e, j) \in Nat
        BY DEF Is
      <4>3. QED
        BY <1>7, <2>5, <4>1, <4>2
    <3>2. \A j \in Inums : /\ ~HasLocked(u, j) /\ (Keeps(u, j) => Keeps(y, j))
                           /\ PointsIn(u, j) => PointsIn(y, j)
      BY <1>1, <1>4, <2>4, <2>5, <2>6, <2>7 DEF HasLocked, Keeps, PointsIn, NONE, Inums, NameOps
    <3>3. \A j \in Inums : PointsIn(x, j) => PointsIn(t, j)
      BY <1>6 DEF PointsIn, NONE, Inums
    <3>4. FoundAt(u, dents) /\ y.pc \notin {"dead", "unlinked", "link1", "free"}
      BY <2>4, <2>6 DEF FoundAt, Putting, NameOps
    <3>5. Known(p, e)
      BY <1>1, <1>4, <1>5, <1>7, <2>2 DEF Known
    <3>6. u.op = "linkdir" => u.ip = t.ip
      BY <2>5, <2>6
    <3>7. QED
      BY <1>1, <1>2, <1>3, <1>4, <1>7, <2>2, <2>5, <2>6, <2>7, <3>1, <3>2, <3>3, <3>4, <3>5, <3>6, ProcsAssumption DEF CallMoves
  <2>9. LocksOne(p, i, NOBODY, e)
    BY <1>2, <1>4, <1>10, <2>1, <2>2, LockedOne
  <2>10. QED
    BY <1>1, <1>2, <1>10, <2>1, <2>8, <2>9, CallMovesPlain
<1>11. QED
  BY <1>1, <1>2, <1>8, <1>9, <1>10 DEF Walk

\* open() of an inode that is there.
LEMMA OpenPlain ==
    ASSUME IInv, NEW p \in Procs, Open(p)
    PROVE  \E u : Plain(p, u) /\ Modest(p, u)
<1>1. PICK t, i : t = th[p] /\ i = t.ip
  OBVIOUS
<1>2. t.pc \in {"open", "openw"} /\ CanLock(i) /\ UNCHANGED <<dino, dents, used, ftable, ofile, cwd, calls>>
  BY <1>1 DEF Open, disk, files
<1>3. t \in Locals /\ CallInv(t) /\ At(t) = t.pc /\ t.pc \in {"open", "openw"}
  BY <1>1, <1>2, LocalsHere DEF At, Putting, NameOps, ParentOps, CreateOps
<1>4. /\ t.cur = NONE /\ t.dp = NONE /\ t.op = t.pc
      /\ t.put = NONE /\ t.put2 = NONE /\ NONE \in Pointers
      /\ i \in Inums /\ i # NONE /\ i \in Pointers /\ PointsIn(t, i)
      /\ <<>> \in Seq(Elements) /\ t.name \in Elements
  BY <1>1, <1>2, <1>3, LocalsHere DEF CallInv, OpAt, PointersAt, At, Putting, NameOps, LinkPlaces, ParentOps, CreateOps, PointsIn
<1>5. CASE /\ icache' = Locked(i, NOBODY)
           /\ th' = [th EXCEPT ![p] = Put([t EXCEPT !.ip = NONE], i, "idle")]
  <2>1. PICK x : x = [t EXCEPT !.ip = NONE]
    OBVIOUS
  <2>2. /\ x \in Locals /\ x.cur = t.cur /\ x.ip = NONE /\ x.dp = t.dp /\ x.put2 = NONE
        /\ x.op = t.op /\ x.name = t.name /\ x.rest = t.rest /\ x.new = t.new
    BY <1>3, <1>4, <2>1 DEF Locals
  <2>3. PICK u : u = Put(x, i, "idle")
    OBVIOUS
  <2>4. /\ u \in Locals /\ u.pc = "put" /\ u.then = "idle" /\ u.cur = t.cur /\ u.ip = NONE
        /\ u.dp = t.dp /\ u.put = i /\ u.put2 = NONE /\ u.op = t.op /\ u.name = t.name
        /\ u.rest = t.rest /\ u.new = t.new
    <3>1. i \in Pointers /\ "idle" \in Pcs /\ x \in Locals
      BY <1>4, <2>2, GoesOnAt
    <3>2. QED
      BY <2>2, <2>3, <3>1, PutLocals
  <2>5. CallInv(u) /\ At(u) = "idle"
    BY <1>3, <1>4, <2>4 DEF CallInv, OpAt, PointersAt, At, Putting, NameOps, LinkPlaces, ParentOps, CreateOps, Failed
  <2>6. CallMoves(p, u, i, NOBODY, NONE)
    <3>1. \A j \in Inums : Held(u, j) = Held(t, j) + Is(NONE, j)
      BY <1>1, <1>4, <2>4 DEF Held, Is, NONE, Inums
    <3>2. \A j \in Inums : /\ HasLocked(u, j) <=> FALSE
                           /\ HasLocked(t, j) => j = i
                           /\ Keeps(u, j) => Keeps(t, j) \/ j = i
                           /\ PointsIn(u, j) => PointsIn(t, j)
      BY <1>1, <1>3, <1>4, <2>4, <2>5 DEF HasLocked, Keeps, PointsIn, NONE, Inums, NameOps, ParentOps, CreateOps, Failed
    <3>3. FoundAt(u, dents)
      BY <1>3, <1>4, <2>4 DEF FoundAt, Putting, Failed
    <3>4. QED
      BY <1>1, <1>3, <1>4, <2>4, <2>5, <3>1, <3>2, <3>3, ProcsAssumption DEF CallMoves, Failed, NameOps, CreateOps
  <2>7. LocksOne(p, i, NOBODY, NONE)
    BY <1>2, <1>4, <1>5, LockedOne
  <2>8. QED
    BY <1>1, <1>2, <1>5, <2>1, <2>3, <2>6, <2>7, CallMovesPlain
<1>6. CASE /\ icache' = Locked(i, p)
           /\ th' = [th EXCEPT ![p] = [t EXCEPT !.pc = "fopen"]]
  <2>1. PICK u : u = [t EXCEPT !.pc = "fopen"]
    OBVIOUS
  <2>4. /\ u \in Locals /\ u.pc = "fopen" /\ u.cur = t.cur /\ u.ip = t.ip /\ u.dp = t.dp
        /\ u.put = NONE /\ u.put2 = NONE /\ u.op = t.op /\ u.name = t.name /\ u.rest = t.rest
        /\ u.new = t.new
    BY <1>3, <1>4, <2>1 DEF Locals, Pcs
  <2>5. CallInv(u) /\ At(u) = "fopen"
    BY <1>3, <1>4, <2>4 DEF CallInv, OpAt, PointersAt, At, Putting, NameOps, LinkPlaces, ParentOps, CreateOps, Failed
  <2>6. CallMoves(p, u, i, p, NONE)
    <3>1. \A j \in Inums : Held(u, j) = Held(t, j) + Is(NONE, j)
      BY <1>1, <1>4, <2>4 DEF Held, Is, NONE, Inums
    <3>2. \A j \in Inums : /\ HasLocked(u, j) <=> j = i
                           /\ HasLocked(t, j) => j = i
                           /\ Keeps(u, j) => Keeps(t, j) \/ j = i
                           /\ PointsIn(u, j) => PointsIn(t, j)
      BY <1>1, <1>3, <1>4, <2>4, <2>5 DEF HasLocked, Keeps, PointsIn, NONE, Inums, NameOps, ParentOps, CreateOps, Failed
    <3>3. FoundAt(u, dents)
      BY <1>3, <1>4, <2>4 DEF FoundAt, Putting, Failed
    <3>4. QED
      BY <1>1, <1>3, <1>4, <2>4, <2>5, <3>1, <3>2, <3>3, ProcsAssumption DEF CallMoves, Failed, NameOps, CreateOps
  <2>7. LocksOne(p, i, p, NONE)
    BY <1>2, <1>4, <1>6, LockedOne
  <2>8. QED
    BY <1>1, <1>2, <1>6, <2>1, <2>6, <2>7, CallMovesPlain
<1>7. QED
  BY <1>1, <1>2, <1>5, <1>6 DEF Open

\* The end of create() when the name was there.
LEMMA ExistsPlain ==
    ASSUME IInv, NEW p \in Procs, Exists(p)
    PROVE  \E u : Plain(p, u) /\ Modest(p, u)
<1>1. PICK t, i : t = th[p] /\ i = t.ip
  OBVIOUS
<1>2. t.pc = "exists" /\ CanLock(i) /\ UNCHANGED <<dino, dents, used, ftable, ofile, cwd, calls>>
  BY <1>1 DEF Exists, disk, files
<1>3. t \in Locals /\ CallInv(t) /\ At(t) = t.pc /\ t.pc = "exists"
  BY <1>1, <1>2, LocalsHere DEF At, Putting, NameOps, ParentOps, CreateOps
<1>4. /\ t.cur = NONE /\ t.dp = NONE /\ t.op \in CreateOps
      /\ t.put = NONE /\ t.put2 = NONE /\ NONE \in Pointers
      /\ i \in Inums /\ i # NONE /\ i \in Pointers /\ PointsIn(t, i)
      /\ <<>> \in Seq(Elements) /\ t.name \in Elements
  BY <1>1, <1>2, <1>3, LocalsHere DEF CallInv, OpAt, PointersAt, At, Putting, NameOps, LinkPlaces, ParentOps, CreateOps, PointsIn
<1>5. CASE /\ icache' = Locked(i, NOBODY)
           /\ th' = [th EXCEPT ![p] = Put([t EXCEPT !.ip = NONE], i, "idle")]
  <2>1. PICK x : x = [t EXCEPT !.ip = NONE]
    OBVIOUS
  <2>2. /\ x \in Locals /\ x.cur = t.cur /\ x.ip = NONE /\ x.dp = t.dp /\ x.put2 = NONE
        /\ x.op = t.op /\ x.name = t.name /\ x.rest = t.rest /\ x.new = t.new
    BY <1>3, <1>4, <2>1 DEF Locals
  <2>3. PICK u : u = Put(x, i, "idle")
    OBVIOUS
  <2>4. /\ u \in Locals /\ u.pc = "put" /\ u.then = "idle" /\ u.cur = t.cur /\ u.ip = NONE
        /\ u.dp = t.dp /\ u.put = i /\ u.put2 = NONE /\ u.op = t.op /\ u.name = t.name
        /\ u.rest = t.rest /\ u.new = t.new
    <3>1. i \in Pointers /\ "idle" \in Pcs /\ x \in Locals
      BY <1>4, <2>2, GoesOnAt
    <3>2. QED
      BY <2>2, <2>3, <3>1, PutLocals
  <2>5. CallInv(u) /\ At(u) = "idle"
    BY <1>3, <1>4, <2>4 DEF CallInv, OpAt, PointersAt, At, Putting, NameOps, LinkPlaces, ParentOps, CreateOps, Failed
  <2>6. CallMoves(p, u, i, NOBODY, NONE)
    <3>1. \A j \in Inums : Held(u, j) = Held(t, j) + Is(NONE, j)
      BY <1>1, <1>4, <2>4 DEF Held, Is, NONE, Inums
    <3>2. \A j \in Inums : /\ HasLocked(u, j) <=> FALSE
                           /\ HasLocked(t, j) => j = i
                           /\ Keeps(u, j) => Keeps(t, j) \/ j = i
                           /\ PointsIn(u, j) => PointsIn(t, j)
      BY <1>1, <1>3, <1>4, <2>4, <2>5 DEF HasLocked, Keeps, PointsIn, NONE, Inums, NameOps, ParentOps, CreateOps, Failed
    <3>3. FoundAt(u, dents)
      BY <1>3, <1>4, <2>4 DEF FoundAt, Putting, Failed
    <3>4. QED
      BY <1>1, <1>3, <1>4, <2>4, <2>5, <3>1, <3>2, <3>3, ProcsAssumption DEF CallMoves, Failed, NameOps, CreateOps
  <2>7. LocksOne(p, i, NOBODY, NONE)
    BY <1>2, <1>4, <1>5, LockedOne
  <2>8. QED
    BY <1>1, <1>2, <1>5, <2>1, <2>3, <2>6, <2>7, CallMovesPlain
<1>6. CASE /\ icache' = Locked(i, p) /\ t.op = "create"
           /\ th' = [th EXCEPT ![p] = [t EXCEPT !.pc = "fopen"]]
  <2>1. PICK u : u = [t EXCEPT !.pc = "fopen"]
    OBVIOUS
  <2>4. /\ u \in Locals /\ u.pc = "fopen" /\ u.cur = t.cur /\ u.ip = t.ip /\ u.dp = t.dp
        /\ u.put = NONE /\ u.put2 = NONE /\ u.op = t.op /\ u.name = t.name /\ u.rest = t.rest
        /\ u.new = t.new
    BY <1>3, <1>4, <2>1 DEF Locals, Pcs
  <2>5. CallInv(u) /\ At(u) = "fopen"
    BY <1>3, <1>4, <1>6, <2>4 DEF CallInv, OpAt, PointersAt, At, Putting, NameOps, LinkPlaces, ParentOps, CreateOps, Failed
  <2>6. CallMoves(p, u, i, p, NONE)
    <3>1. \A j \in Inums : Held(u, j) = Held(t, j) + Is(NONE, j)
      BY <1>1, <1>4, <2>4 DEF Held, Is, NONE, Inums
    <3>2. \A j \in Inums : /\ HasLocked(u, j) <=> j = i
                           /\ HasLocked(t, j) => j = i
                           /\ Keeps(u, j) => Keeps(t, j) \/ j = i
                           /\ PointsIn(u, j) => PointsIn(t, j)
      BY <1>1, <1>3, <1>4, <2>4, <2>5 DEF HasLocked, Keeps, PointsIn, NONE, Inums, NameOps, ParentOps, CreateOps, Failed
    <3>3. FoundAt(u, dents)
      BY <1>3, <1>4, <2>4 DEF FoundAt, Putting, Failed
    <3>4. QED
      BY <1>1, <1>3, <1>4, <2>4, <2>5, <3>1, <3>2, <3>3, ProcsAssumption DEF CallMoves, Failed, NameOps, CreateOps
  <2>7. LocksOne(p, i, p, NONE)
    BY <1>2, <1>4, <1>6, LockedOne
  <2>8. QED
    BY <1>1, <1>2, <1>6, <2>1, <2>6, <2>7, CallMovesPlain
<1>7. QED
  BY <1>1, <1>2, <1>5, <1>6 DEF Exists

\* The end of mkdir() and mknod().
LEMMA MadePlain ==
    ASSUME IInv, NEW p \in Procs, Made(p)
    PROVE  \E u : Plain(p, u) /\ Modest(p, u)
<1>1. PICK t, i : t = th[p] /\ i = t.ip
  OBVIOUS
<1>2. t.pc = "made" /\ UNCHANGED <<dino, dents, used, ftable, ofile, cwd, calls>>
  BY <1>1 DEF Made, disk, files
<1>3. t \in Locals /\ CallInv(t) /\ At(t) = t.pc /\ t.pc = "made"
  BY <1>1, <1>2, LocalsHere DEF At, Putting, NameOps, ParentOps, CreateOps
<1>4. /\ t.cur = NONE /\ t.dp = NONE /\ t.op \in CreateOps
      /\ t.put = NONE /\ t.put2 = NONE /\ NONE \in Pointers
      /\ i \in Inums /\ i # NONE /\ i \in Pointers /\ PointsIn(t, i)
      /\ <<>> \in Seq(Elements) /\ t.name \in Elements
  BY <1>1, <1>2, <1>3, LocalsHere DEF CallInv, OpAt, PointersAt, At, Putting, NameOps, LinkPlaces, ParentOps, CreateOps, PointsIn
<1>5. CASE /\ icache' = [icache EXCEPT ![i].lock = NOBODY]
           /\ th' = [th EXCEPT ![p] = Put([t EXCEPT !.ip = NONE], i, "idle")]
  <2>1. PICK x : x = [t EXCEPT !.ip = NONE]
    OBVIOUS
  <2>2. /\ x \in Locals /\ x.cur = t.cur /\ x.ip = NONE /\ x.dp = t.dp /\ x.put2 = NONE
        /\ x.op = t.op /\ x.name = t.name /\ x.rest = t.rest /\ x.new = t.new
    BY <1>3, <1>4, <2>1 DEF Locals
  <2>3. PICK u : u = Put(x, i, "idle")
    OBVIOUS
  <2>4. /\ u \in Locals /\ u.pc = "put" /\ u.then = "idle" /\ u.cur = t.cur /\ u.ip = NONE
        /\ u.dp = t.dp /\ u.put = i /\ u.put2 = NONE /\ u.op = t.op /\ u.name = t.name
        /\ u.rest = t.rest /\ u.new = t.new
    <3>1. i \in Pointers /\ "idle" \in Pcs /\ x \in Locals
      BY <1>4, <2>2, GoesOnAt
    <3>2. QED
      BY <2>2, <2>3, <3>1, PutLocals
  <2>5. CallInv(u) /\ At(u) = "idle"
    BY <1>3, <1>4, <2>4 DEF CallInv, OpAt, PointersAt, At, Putting, NameOps, LinkPlaces, ParentOps, CreateOps, Failed
  <2>6. CallMoves(p, u, i, NOBODY, NONE)
    <3>1. \A j \in Inums : Held(u, j) = Held(t, j) + Is(NONE, j)
      BY <1>1, <1>4, <2>4 DEF Held, Is, NONE, Inums
    <3>2. \A j \in Inums : /\ HasLocked(u, j) <=> FALSE
                           /\ HasLocked(t, j) => j = i
                           /\ Keeps(u, j) => Keeps(t, j) \/ j = i
                           /\ PointsIn(u, j) => PointsIn(t, j)
      BY <1>1, <1>3, <1>4, <2>4, <2>5 DEF HasLocked, Keeps, PointsIn, NONE, Inums, NameOps, ParentOps, CreateOps, Failed
    <3>3. FoundAt(u, dents)
      BY <1>3, <1>4, <2>4 DEF FoundAt, Putting, Failed
    <3>4. QED
      BY <1>1, <1>3, <1>4, <2>4, <2>5, <3>1, <3>2, <3>3, ProcsAssumption DEF CallMoves, Failed, NameOps, CreateOps
  <2>7. LocksOne(p, i, NOBODY, NONE)
    BY <1>1, <1>3, <1>4, <1>5, UnlockedOne DEF HasLocked
  <2>8. QED
    BY <1>1, <1>2, <1>5, <2>1, <2>3, <2>6, <2>7, CallMovesPlain
<1>6. QED
  BY <1>1, <1>5 DEF Made

\* unlink() and link() give up.
LEMMA DropDirPlain ==
    ASSUME IInv, NEW p \in Procs, DropDir(p)
    PROVE  \E u : Plain(p, u) /\ Modest(p, u)
<1>1. PICK t, i : t = th[p] /\ i = t.dp
  OBVIOUS
<1>2. t.pc = "dropdir" /\ UNCHANGED <<dino, dents, used, ftable, ofile, cwd, calls>>
  BY <1>1 DEF DropDir, disk, files
<1>3. t \in Locals /\ CallInv(t) /\ At(t) = t.pc /\ t.pc = "dropdir"
  BY <1>1, <1>2, LocalsHere DEF At, Putting, NameOps, ParentOps, CreateOps
<1>4. /\ t.cur = NONE /\ t.op \in {"unlink", "linkdir"} /\ (t.ip # NONE <=> t.op = "linkdir")
      /\ t.put = NONE /\ t.put2 = NONE /\ NONE \in Pointers
      /\ i \in Inums /\ i # NONE /\ i \in Pointers /\ PointsIn(t, i)
      /\ <<>> \in Seq(Elements) /\ t.name \in Elements
  BY <1>1, <1>2, <1>3, LocalsHere DEF CallInv, OpAt, PointersAt, At, Putting, NameOps, LinkPlaces, ParentOps, CreateOps, PointsIn
<1>5. CASE /\ icache' = [icache EXCEPT ![i].lock = NOBODY]
           /\ th' = [th EXCEPT ![p] = Put([t EXCEPT !.dp = NONE], i, Failed(t))]
  <2>1. PICK x : x = [t EXCEPT !.dp = NONE]
    OBVIOUS
  <2>2. /\ x \in Locals /\ x.cur = t.cur /\ x.ip = t.ip /\ x.dp = NONE /\ x.put2 = NONE
        /\ x.op = t.op /\ x.name = t.name /\ x.rest = t.rest /\ x.new = t.new
    BY <1>3, <1>4, <2>1 DEF Locals
  <2>3. PICK u : u = Put(x, i, Failed(t))
    OBVIOUS
  <2>4. /\ u \in Locals /\ u.pc = "put" /\ u.then = Failed(t) /\ u.cur = t.cur /\ u.ip = t.ip
        /\ u.dp = NONE /\ u.put = i /\ u.put2 = NONE /\ u.op = t.op /\ u.name = t.name
        /\ u.rest = t.rest /\ u.new = t.new
    <3>1. i \in Pointers /\ Failed(t) \in Pcs /\ x \in Locals
      BY <1>4, <2>2, GoesOnAt
    <3>2. QED
      BY <2>2, <2>3, <3>1, PutLocals
  <2>5. CallInv(u) /\ At(u) = Failed(t)
    BY <1>3, <1>4, <2>4 DEF CallInv, OpAt, PointersAt, At, Putting, NameOps, LinkPlaces, ParentOps, CreateOps, Failed
  <2>6. CallMoves(p, u, i, NOBODY, NONE)
    <3>1. \A j \in Inums : Held(u, j) = Held(t, j) + Is(NONE, j)
      BY <1>1, <1>4, <2>4 DEF Held, Is, NONE, Inums
    <3>2. \A j \in Inums : /\ HasLocked(u, j) <=> FALSE
                           /\ HasLocked(t, j) => j = i
                           /\ Keeps(u, j) => Keeps(t, j) \/ j = i
                           /\ PointsIn(u, j) => PointsIn(t, j)
      BY <1>1, <1>3, <1>4, <2>4, <2>5 DEF HasLocked, Keeps, PointsIn, NONE, Inums, NameOps, ParentOps, CreateOps, Failed
    <3>3. FoundAt(u, dents)
      BY <1>3, <1>4, <2>4 DEF FoundAt, Putting, Failed
    <3>4. QED
      BY <1>1, <1>3, <1>4, <2>4, <2>5, <3>1, <3>2, <3>3, ProcsAssumption DEF CallMoves, Failed, NameOps, CreateOps
  <2>7. LocksOne(p, i, NOBODY, NONE)
    BY <1>1, <1>3, <1>4, <1>5, UnlockedOne DEF HasLocked
  <2>8. QED
    BY <1>1, <1>2, <1>5, <2>1, <2>3, <2>6, <2>7, CallMovesPlain
<1>6. QED
  BY <1>1, <1>5 DEF DropDir

\* open() without a free file or descriptor.
LEMMA FOpenFull ==
    ASSUME IInv, NEW p \in Procs, FOpen(p), FreeFiles = {} \/ FreeFds(p) = {}
    PROVE  \E u : Plain(p, u) /\ Modest(p, u)
<1>1. PICK t, i : t = th[p] /\ i = t.ip
  OBVIOUS
<1>2. t.pc = "fopen" /\ UNCHANGED <<dino, dents, used, ftable, ofile, cwd, calls>>
  BY <1>1 DEF FOpen, disk, files
<1>3. t \in Locals /\ CallInv(t) /\ At(t) = t.pc /\ t.pc = "fopen"
  BY <1>1, <1>2, LocalsHere DEF At, Putting, NameOps, ParentOps, CreateOps
<1>4. /\ t.cur = NONE /\ t.dp = NONE /\ t.op \in {"open", "openw", "create"}
      /\ t.put = NONE /\ t.put2 = NONE /\ NONE \in Pointers
      /\ i \in Inums /\ i # NONE /\ i \in Pointers /\ PointsIn(t, i)
      /\ <<>> \in Seq(Elements) /\ t.name \in Elements
  BY <1>1, <1>2, <1>3, LocalsHere DEF CallInv, OpAt, PointersAt, At, Putting, NameOps, LinkPlaces, ParentOps, CreateOps, PointsIn
<1>5. CASE /\ icache' = [icache EXCEPT ![i].lock = NOBODY]
           /\ th' = [th EXCEPT ![p] = Put([t EXCEPT !.ip = NONE], i, "idle")]
  <2>1. PICK x : x = [t EXCEPT !.ip = NONE]
    OBVIOUS
  <2>2. /\ x \in Locals /\ x.cur = t.cur /\ x.ip = NONE /\ x.dp = t.dp /\ x.put2 = NONE
        /\ x.op = t.op /\ x.name = t.name /\ x.rest = t.rest /\ x.new = t.new
    BY <1>3, <1>4, <2>1 DEF Locals
  <2>3. PICK u : u = Put(x, i, "idle")
    OBVIOUS
  <2>4. /\ u \in Locals /\ u.pc = "put" /\ u.then = "idle" /\ u.cur = t.cur /\ u.ip = NONE
        /\ u.dp = t.dp /\ u.put = i /\ u.put2 = NONE /\ u.op = t.op /\ u.name = t.name
        /\ u.rest = t.rest /\ u.new = t.new
    <3>1. i \in Pointers /\ "idle" \in Pcs /\ x \in Locals
      BY <1>4, <2>2, GoesOnAt
    <3>2. QED
      BY <2>2, <2>3, <3>1, PutLocals
  <2>5. CallInv(u) /\ At(u) = "idle"
    BY <1>3, <1>4, <2>4 DEF CallInv, OpAt, PointersAt, At, Putting, NameOps, LinkPlaces, ParentOps, CreateOps, Failed
  <2>6. CallMoves(p, u, i, NOBODY, NONE)
    <3>1. \A j \in Inums : Held(u, j) = Held(t, j) + Is(NONE, j)
      BY <1>1, <1>4, <2>4 DEF Held, Is, NONE, Inums
    <3>2. \A j \in Inums : /\ HasLocked(u, j) <=> FALSE
                           /\ HasLocked(t, j) => j = i
                           /\ Keeps(u, j) => Keeps(t, j) \/ j = i
                           /\ PointsIn(u, j) => PointsIn(t, j)
      BY <1>1, <1>3, <1>4, <2>4, <2>5 DEF HasLocked, Keeps, PointsIn, NONE, Inums, NameOps, ParentOps, CreateOps, Failed
    <3>3. FoundAt(u, dents)
      BY <1>3, <1>4, <2>4 DEF FoundAt, Putting, Failed
    <3>4. QED
      BY <1>1, <1>3, <1>4, <2>4, <2>5, <3>1, <3>2, <3>3, ProcsAssumption DEF CallMoves, Failed, NameOps, CreateOps
  <2>7. LocksOne(p, i, NOBODY, NONE)
    BY <1>1, <1>3, <1>4, <1>5, UnlockedOne DEF HasLocked
  <2>8. QED
    BY <1>1, <1>2, <1>5, <2>1, <2>3, <2>6, <2>7, CallMovesPlain
<1>6. QED
  BY <1>1, <1>5 DEF FOpen

\* unlink() looks the name up.
LEMMA UnlinkPlain ==
    ASSUME IInv, NEW p \in Procs, Unlink(p)
    PROVE  \E u : Plain(p, u) /\ Modest(p, u)
<1>1. PICK t, i : t = th[p] /\ i = t.dp
  OBVIOUS
<1>2. t.pc = "unlink" /\ CanLock(i) /\ UNCHANGED <<dino, dents, used, ftable, ofile, cwd, calls>>
  BY <1>1 DEF Unlink, disk, files
<1>3. t \in Locals /\ CallInv(t) /\ At(t) = t.pc /\ t.pc = "unlink"
  BY <1>1, <1>2, LocalsHere DEF At, Putting, NameOps, ParentOps, CreateOps
<1>4. /\ t.cur = NONE /\ t.ip = NONE /\ t.op = "unlink"
      /\ t.put = NONE /\ t.put2 = NONE /\ NONE \in Pointers
      /\ i \in Inums /\ i # NONE /\ i \in Pointers /\ PointsIn(t, i)
      /\ <<>> \in Seq(Elements) /\ t.name \in Elements
  BY <1>1, <1>2, <1>3, LocalsHere DEF CallInv, OpAt, PointersAt, At, Putting, NameOps, LinkPlaces, ParentOps, CreateOps, PointsIn
<1>5. CASE /\ icache' = Locked(i, NOBODY)
           /\ th' = [th EXCEPT ![p] = Put([t EXCEPT !.dp = NONE], i, "idle")]
  <2>1. PICK x : x = [t EXCEPT !.dp = NONE]
    OBVIOUS
  <2>2. /\ x \in Locals /\ x.cur = t.cur /\ x.ip = t.ip /\ x.dp = NONE /\ x.put2 = NONE
        /\ x.op = t.op /\ x.name = t.name /\ x.rest = t.rest /\ x.new = t.new
    BY <1>3, <1>4, <2>1 DEF Locals
  <2>3. PICK u : u = Put(x, i, "idle")
    OBVIOUS
  <2>4. /\ u \in Locals /\ u.pc = "put" /\ u.then = "idle" /\ u.cur = t.cur /\ u.ip = t.ip
        /\ u.dp = NONE /\ u.put = i /\ u.put2 = NONE /\ u.op = t.op /\ u.name = t.name
        /\ u.rest = t.rest /\ u.new = t.new
    <3>1. i \in Pointers /\ "idle" \in Pcs /\ x \in Locals
      BY <1>4, <2>2, GoesOnAt
    <3>2. QED
      BY <2>2, <2>3, <3>1, PutLocals
  <2>5. CallInv(u) /\ At(u) = "idle"
    BY <1>3, <1>4, <2>4 DEF CallInv, OpAt, PointersAt, At, Putting, NameOps, LinkPlaces, ParentOps, CreateOps, Failed
  <2>6. CallMoves(p, u, i, NOBODY, NONE)
    <3>1. \A j \in Inums : Held(u, j) = Held(t, j) + Is(NONE, j)
      BY <1>1, <1>4, <2>4 DEF Held, Is, NONE, Inums
    <3>2. \A j \in Inums : /\ HasLocked(u, j) <=> FALSE
                           /\ HasLocked(t, j) => j = i
                           /\ Keeps(u, j) => Keeps(t, j) \/ j = i
                           /\ PointsIn(u, j) => PointsIn(t, j)
      BY <1>1, <1>3, <1>4, <2>4, <2>5 DEF HasLocked, Keeps, PointsIn, NONE, Inums, NameOps, ParentOps, CreateOps, Failed
    <3>3. FoundAt(u, dents)
      BY <1>3, <1>4, <2>4 DEF FoundAt, Putting, Failed
    <3>4. QED
      BY <1>1, <1>3, <1>4, <2>4, <2>5, <3>1, <3>2, <3>3, ProcsAssumption DEF CallMoves, Failed, NameOps, CreateOps
  <2>7. LocksOne(p, i, NOBODY, NONE)
    BY <1>2, <1>4, <1>5, LockedOne
  <2>8. QED
    BY <1>1, <1>2, <1>5, <2>1, <2>3, <2>6, <2>7, CallMovesPlain
<1>6. CASE /\ t.name \notin Dots /\ DirLookup(i, t.name) # NONE
           /\ icache' = IGet(Locked(i, p), DirLookup(i, t.name))
           /\ th' = [th EXCEPT ![p] = [t EXCEPT !.ip = DirLookup(i, t.name), !.pc = "unlink1"]]
  <2>0. PICK e \in Inums : /\ e = DirLookup(i, t.name) /\ dents[i][t.name] = e
                            /\ Known(p, e) /\ e # NONE /\ e \in Pointers
    <3>1. DirLookup(i, t.name) \in Inums /\ DirLookup(i, t.name) = dents[i][t.name]
      BY <1>4, <1>6 DEF DirLookup, IInv, TypeOK, Pointers
    <3>2. QED
      BY <1>1, <1>4, <3>1 DEF Known, NONE, Inums, Pointers
  <2>1. PICK u : u = [t EXCEPT !.ip = e, !.pc = "unlink1"]
    OBVIOUS
  <2>4. /\ u \in Locals /\ u.pc = "unlink1" /\ u.cur = t.cur /\ u.ip = e /\ u.dp = t.dp
        /\ u.put = NONE /\ u.put2 = NONE /\ u.op = t.op /\ u.name = t.name /\ u.rest = t.rest
        /\ u.new = t.new
    BY <1>3, <1>4, <2>1, <2>0 DEF Locals, Pcs
  <2>5. CallInv(u) /\ At(u) = "unlink1"
    BY <1>3, <1>4, <2>4, <2>0 DEF CallInv, OpAt, PointersAt, At, Putting, NameOps, LinkPlaces, ParentOps, CreateOps, Failed
  <2>6. CallMoves(p, u, i, p, e)
    <3>1. \A j \in Inums : Held(u, j) = Held(t, j) + Is(e, j)
      BY <1>1, <1>4, <2>4, <2>0 DEF Held, Is, NONE, Inums
    <3>2. \A j \in Inums : /\ HasLocked(u, j) <=> j = i
                           /\ HasLocked(t, j) => j = i
                           /\ Keeps(u, j) => Keeps(t, j) \/ j = i
                           /\ PointsIn(u, j) => PointsIn(t, j) \/ j = e
      BY <1>1, <1>3, <1>4, <2>4, <2>5, <2>0 DEF HasLocked, Keeps, PointsIn, NONE, Inums, NameOps, ParentOps, CreateOps, Failed
    <3>3. FoundAt(u, dents)
      BY <1>3, <1>4, <2>4, <2>0, <1>1, <1>6 DEF FoundAt, Putting, Dots, Elements, Names
    <3>4. QED
      BY <1>1, <1>3, <1>4, <2>4, <2>5, <3>1, <3>2, <3>3, <2>0, ProcsAssumption DEF CallMoves, Failed, NameOps, CreateOps
  <2>7. LocksOne(p, i, p, e)
    BY <1>2, <1>4, <1>6, <2>0, LockedOne
  <2>8. QED
    BY <1>1, <1>2, <1>6, <2>1, <2>6, <2>7, <2>0, CallMovesPlain
<1>7. QED
  BY <1>1, <1>2, <1>5, <1>6 DEF Unlink

\* link() of a directory.
LEMMA LinkOfDir ==
    ASSUME IInv, NEW p \in Procs, Link(p), ~Linkable(Node(th[p].ip))
    PROVE  \E u : Plain(p, u) /\ Modest(p, u)
<1>1. PICK t, i : t = th[p] /\ i = t.ip
  OBVIOUS
<1>2. t.pc = "link" /\ CanLock(i) /\ UNCHANGED <<dino, dents, used, ftable, ofile, cwd, calls>>
  BY <1>1 DEF Link, disk, files
<1>3. t \in Locals /\ CallInv(t) /\ At(t) = t.pc /\ t.pc = "link"
  BY <1>1, <1>2, LocalsHere DEF At, Putting, NameOps, ParentOps, CreateOps
<1>4. /\ t.cur = NONE /\ t.dp = NONE /\ t.op = "link"
      /\ t.put = NONE /\ t.put2 = NONE /\ NONE \in Pointers
      /\ i \in Inums /\ i # NONE /\ i \in Pointers /\ PointsIn(t, i)
      /\ <<>> \in Seq(Elements) /\ t.name \in Elements
  BY <1>1, <1>2, <1>3, LocalsHere DEF CallInv, OpAt, PointersAt, At, Putting, NameOps, LinkPlaces, ParentOps, CreateOps, PointsIn
<1>5. CASE /\ icache' = Locked(i, NOBODY)
           /\ th' = [th EXCEPT ![p] = Put([t EXCEPT !.ip = NONE], i, "idle")]
  <2>1. PICK x : x = [t EXCEPT !.ip = NONE]
    OBVIOUS
  <2>2. /\ x \in Locals /\ x.cur = t.cur /\ x.ip = NONE /\ x.dp = t.dp /\ x.put2 = NONE
        /\ x.op = t.op /\ x.name = t.name /\ x.rest = t.rest /\ x.new = t.new
    BY <1>3, <1>4, <2>1 DEF Locals
  <2>3. PICK u : u = Put(x, i, "idle")
    OBVIOUS
  <2>4. /\ u \in Locals /\ u.pc = "put" /\ u.then = "idle" /\ u.cur = t.cur /\ u.ip = NONE
        /\ u.dp = t.dp /\ u.put = i /\ u.put2 = NONE /\ u.op = t.op /\ u.name = t.name
        /\ u.rest = t.rest /\ u.new = t.new
    <3>1. i \in Pointers /\ "idle" \in Pcs /\ x \in Locals
      BY <1>4, <2>2, GoesOnAt
    <3>2. QED
      BY <2>2, <2>3, <3>1, PutLocals
  <2>5. CallInv(u) /\ At(u) = "idle"
    BY <1>3, <1>4, <2>4 DEF CallInv, OpAt, PointersAt, At, Putting, NameOps, LinkPlaces, ParentOps, CreateOps, Failed
  <2>6. CallMoves(p, u, i, NOBODY, NONE)
    <3>1. \A j \in Inums : Held(u, j) = Held(t, j) + Is(NONE, j)
      BY <1>1, <1>4, <2>4 DEF Held, Is, NONE, Inums
    <3>2. \A j \in Inums : /\ HasLocked(u, j) <=> FALSE
                           /\ HasLocked(t, j) => j = i
                           /\ Keeps(u, j) => Keeps(t, j) \/ j = i
                           /\ PointsIn(u, j) => PointsIn(t, j)
      BY <1>1, <1>3, <1>4, <2>4, <2>5 DEF HasLocked, Keeps, PointsIn, NONE, Inums, NameOps, ParentOps, CreateOps, Failed
    <3>3. FoundAt(u, dents)
      BY <1>3, <1>4, <2>4 DEF FoundAt, Putting, Failed
    <3>4. QED
      BY <1>1, <1>3, <1>4, <2>4, <2>5, <3>1, <3>2, <3>3, ProcsAssumption DEF CallMoves, Failed, NameOps, CreateOps
  <2>7. LocksOne(p, i, NOBODY, NONE)
    BY <1>2, <1>4, <1>5, LockedOne
  <2>8. QED
    BY <1>1, <1>2, <1>5, <2>1, <2>3, <2>6, <2>7, CallMovesPlain
<1>6. QED
  BY <1>1, <1>5 DEF Link

\* link() to a name that is there.
LEMMA LinkDirFound ==
    ASSUME IInv, NEW p \in Procs, LinkDir(p), DirLookup(th[p].dp, th[p].name) # NONE
    PROVE  \E u : Plain(p, u) /\ Modest(p, u)
<1>1. PICK t, i : t = th[p] /\ i = t.dp
  OBVIOUS
<1>2. t.pc = "linkdir" /\ CanLock(i) /\ UNCHANGED <<dino, dents, used, ftable, ofile, cwd, calls>>
  BY <1>1 DEF LinkDir, disk, files
<1>3. t \in Locals /\ CallInv(t) /\ At(t) = t.pc /\ t.pc = "linkdir"
  BY <1>1, <1>2, LocalsHere DEF At, Putting, NameOps, ParentOps, CreateOps
<1>4. /\ t.cur = NONE /\ t.ip # NONE /\ t.op = "linkdir"
      /\ t.put = NONE /\ t.put2 = NONE /\ NONE \in Pointers
      /\ i \in Inums /\ i # NONE /\ i \in Pointers /\ PointsIn(t, i)
      /\ <<>> \in Seq(Elements) /\ t.name \in Elements
  BY <1>1, <1>2, <1>3, LocalsHere DEF CallInv, OpAt, PointersAt, At, Putting, NameOps, LinkPlaces, ParentOps, CreateOps, PointsIn
<1>5. CASE /\ DirLookup(i, t.name) # NONE
           /\ icache' = IGet(Locked(i, p), DirLookup(i, t.name))
           /\ th' = [th EXCEPT ![p] = Put(t, DirLookup(i, t.name), "dropdir")]
  <2>0. PICK e \in Inums : /\ e = DirLookup(i, t.name) /\ dents[i][t.name] = e
                            /\ Known(p, e) /\ e # NONE /\ e \in Pointers
    <3>1. DirLookup(i, t.name) \in Inums /\ DirLookup(i, t.name) = dents[i][t.name]
      BY <1>4, <1>5 DEF DirLookup, IInv, TypeOK, Pointers
    <3>2. QED
      BY <1>1, <1>4, <3>1 DEF Known, NONE, Inums, Pointers
  <2>1. PICK x : x = t
    OBVIOUS
  <2>2. /\ x \in Locals /\ x.cur = t.cur /\ x.ip = t.ip /\ x.dp = t.dp /\ x.put2 = NONE
        /\ x.op = t.op /\ x.name = t.name /\ x.rest = t.rest /\ x.new = t.new
    BY <1>3, <1>4, <2>1, <2>0 DEF Locals
  <2>3. PICK u : u = Put(x, e, "dropdir")
    OBVIOUS
  <2>4. /\ u \in Locals /\ u.pc = "put" /\ u.then = "dropdir" /\ u.cur = t.cur /\ u.ip = t.ip
        /\ u.dp = t.dp /\ u.put = e /\ u.put2 = NONE /\ u.op = t.op /\ u.name = t.name
        /\ u.rest = t.rest /\ u.new = t.new
    <3>1. e \in Pointers /\ "dropdir" \in Pcs /\ x \in Locals
      BY <1>4, <2>2, <2>0, GoesOnAt
    <3>2. QED
      BY <2>2, <2>3, <3>1, PutLocals
  <2>5. CallInv(u) /\ At(u) = "dropdir"
    BY <1>3, <1>4, <2>4, <2>0 DEF CallInv, OpAt, PointersAt, At, Putting, NameOps, LinkPlaces, ParentOps, CreateOps, Failed
  <2>6. CallMoves(p, u, i, p, e)
    <3>1. \A j \in Inums : Held(u, j) = Held(t, j) + Is(e, j)
      BY <1>1, <1>4, <2>4, <2>0 DEF Held, Is, NONE, Inums
    <3>2. \A j \in Inums : /\ HasLocked(u, j) <=> j = i
                           /\ HasLocked(t, j) => j = i
                           /\ Keeps(u, j) => Keeps(t, j) \/ j = i
                           /\ PointsIn(u, j) => PointsIn(t, j) \/ j = e
      BY <1>1, <1>3, <1>4, <2>4, <2>5, <2>0 DEF HasLocked, Keeps, PointsIn, NONE, Inums, NameOps, ParentOps, CreateOps, Failed
    <3>3. FoundAt(u, dents)
      BY <1>3, <1>4, <2>4, <2>0, <1>1 DEF FoundAt, Putting, Failed
    <3>4. QED
      BY <1>1, <1>3, <1>4, <2>4, <2>5, <3>1, <3>2, <3>3, <2>0, ProcsAssumption DEF CallMoves, Failed, NameOps, CreateOps
  <2>7. LocksOne(p, i, p, e)
    BY <1>2, <1>4, <1>5, <2>0, LockedOne
  <2>8. QED
    BY <1>1, <1>2, <1>5, <2>1, <2>3, <2>6, <2>7, <2>0, CallMovesPlain
<1>6. QED
  BY <1>1, <1>5 DEF LinkDir

\* create() of a name that is there.
LEMMA CreateFound ==
    ASSUME IInv, NEW p \in Procs, Create(p), DirLookup(th[p].dp, th[p].name) # NONE
    PROVE  \E u : Plain(p, u) /\ Modest(p, u)
<1>1. PICK t, i : t = th[p] /\ i = t.dp
  OBVIOUS
<1>2. t.pc \in CreateOps /\ CanLock(i) /\ UNCHANGED <<dino, dents, used, ftable, ofile, cwd, calls>>
  BY <1>1 DEF Create, disk, files
<1>3. t \in Locals /\ CallInv(t) /\ At(t) = t.pc /\ t.pc \in CreateOps
  BY <1>1, <1>2, LocalsHere DEF At, Putting, NameOps, ParentOps, CreateOps
<1>4. /\ t.cur = NONE /\ t.ip = NONE /\ t.op = t.pc
      /\ t.put = NONE /\ t.put2 = NONE /\ NONE \in Pointers
      /\ i \in Inums /\ i # NONE /\ i \in Pointers /\ PointsIn(t, i)
      /\ <<>> \in Seq(Elements) /\ t.name \in Elements
  BY <1>1, <1>2, <1>3, LocalsHere DEF CallInv, OpAt, PointersAt, At, Putting, NameOps, LinkPlaces, ParentOps, CreateOps, PointsIn
<1>5. CASE /\ DirLookup(i, t.name) # NONE
           /\ icache' = IGet(Locked(i, NOBODY), DirLookup(i, t.name))
           /\ th' = [th EXCEPT ![p] = Put([t EXCEPT !.ip = DirLookup(i, t.name), !.dp = NONE], i, "exists")]
  <2>0. PICK e \in Inums : /\ e = DirLookup(i, t.name) /\ dents[i][t.name] = e
                            /\ Known(p, e) /\ e # NONE /\ e \in Pointers
    <3>1. DirLookup(i, t.name) \in Inums /\ DirLookup(i, t.name) = dents[i][t.name]
      BY <1>4, <1>5 DEF DirLookup, IInv, TypeOK, Pointers
    <3>2. QED
      BY <1>1, <1>4, <3>1 DEF Known, NONE, Inums, Pointers
  <2>1. PICK x : x = [t EXCEPT !.ip = e, !.dp = NONE]
    OBVIOUS
  <2>2. /\ x \in Locals /\ x.cur = t.cur /\ x.ip = e /\ x.dp = NONE /\ x.put2 = NONE /\ x.op = t.op
        /\ x.name = t.name /\ x.rest = t.rest /\ x.new = t.new
    BY <1>3, <1>4, <2>1, <2>0 DEF Locals
  <2>3. PICK u : u = Put(x, i, "exists")
    OBVIOUS
  <2>4. /\ u \in Locals /\ u.pc = "put" /\ u.then = "exists" /\ u.cur = t.cur /\ u.ip = e
        /\ u.dp = NONE /\ u.put = i /\ u.put2 = NONE /\ u.op = t.op /\ u.name = t.name
        /\ u.rest = t.rest /\ u.new = t.new
    <3>1. i \in Pointers /\ "exists" \in Pcs /\ x \in Locals
      BY <1>4, <2>2, <2>0, GoesOnAt
    <3>2. QED
      BY <2>2, <2>3, <3>1, PutLocals
  <2>5. CallInv(u) /\ At(u) = "exists"
    BY <1>3, <1>4, <2>4, <2>0 DEF CallInv, OpAt, PointersAt, At, Putting, NameOps, LinkPlaces, ParentOps, CreateOps, Failed
  <2>6. CallMoves(p, u, i, NOBODY, e)
    <3>1. \A j \in Inums : Held(u, j) = Held(t, j) + Is(e, j)
      BY <1>1, <1>4, <2>4, <2>0 DEF Held, Is, NONE, Inums
    <3>2. \A j \in Inums : /\ HasLocked(u, j) <=> FALSE
                           /\ HasLocked(t, j) => j = i
                           /\ Keeps(u, j) => Keeps(t, j) \/ j = i
                           /\ PointsIn(u, j) => PointsIn(t, j) \/ j = e
      BY <1>1, <1>3, <1>4, <2>4, <2>5, <2>0 DEF HasLocked, Keeps, PointsIn, NONE, Inums, NameOps, ParentOps, CreateOps, Failed
    <3>3. FoundAt(u, dents)
      BY <1>3, <1>4, <2>4, <2>0, <1>1 DEF FoundAt, Putting, Failed
    <3>4. QED
      BY <1>1, <1>3, <1>4, <2>4, <2>5, <3>1, <3>2, <3>3, <2>0, ProcsAssumption DEF CallMoves, Failed, NameOps, CreateOps
  <2>7. LocksOne(p, i, NOBODY, e)
    BY <1>2, <1>4, <1>5, <2>0, LockedOne
  <2>8. QED
    BY <1>1, <1>2, <1>5, <2>1, <2>3, <2>6, <2>7, <2>0, CallMovesPlain
<1>6. QED
  BY <1>1, <1>5 DEF Create

\* unlink() of a directory that is not empty.
LEMMA UnlinkFull ==
    ASSUME IInv, NEW p \in Procs, UnlinkEntry(p),
           Node(th[p].ip).type = "dir" /\ ~IsDirEmpty(th[p].ip)
    PROVE  \E u : Plain(p, u) /\ Modest(p, u)
<1>1. PICK t, i, d : t = th[p] /\ i = t.ip /\ d = t.dp
  OBVIOUS
<1>2. /\ t.pc = "unlink1" /\ CanLock(i) /\ UNCHANGED <<dino, dents, used, ftable, ofile, cwd, calls>>
      /\ icache' = Locked(i, NOBODY)
      /\ th' = [th EXCEPT ![p] = Put([t EXCEPT !.ip = NONE], i, "dropdir")]
  BY <1>1 DEF UnlinkEntry, disk, files
<1>3. t \in Locals /\ CallInv(t) /\ At(t) = t.pc
  BY <1>1, <1>2, LocalsHere DEF At, Putting
<1>4. /\ t.cur = NONE /\ t.op = "unlink" /\ t.put = NONE /\ t.put2 = NONE /\ NONE \in Pointers
      /\ i \in Inums /\ i # NONE /\ i \in Pointers /\ PointsIn(t, i) /\ d \in Inums /\ d # NONE
  BY <1>1, <1>2, <1>3, LocalsHere DEF CallInv, OpAt, PointersAt, At, Putting, NameOps, LinkPlaces, ParentOps, CreateOps, PointsIn
<1>5. i # d /\ dents[d][t.name] = i
  BY <1>1, <1>2, <1>3, <1>4, ProcsAssumption DEF IInv, LockInv, HasLocked, CanLock, FoundInv
<1>6. PICK x : x = [t EXCEPT !.ip = NONE]
  OBVIOUS
<1>7. /\ x \in Locals /\ x.cur = NONE /\ x.ip = NONE /\ x.dp = d /\ x.put2 = NONE /\ x.op = t.op
      /\ x.name = t.name /\ x.rest = t.rest /\ x.new = t.new
  BY <1>1, <1>3, <1>4, <1>6 DEF Locals
<1>8. PICK u : u = Put(x, i, "dropdir")
  OBVIOUS
<1>9. /\ u \in Locals /\ u.pc = "put" /\ u.then = "dropdir" /\ u.put = i /\ u.cur = NONE /\ u.ip = NONE
      /\ u.dp = d /\ u.put2 = NONE /\ u.op = t.op /\ u.name = t.name /\ u.rest = t.rest /\ u.new = t.new
  <2>1. i \in Pointers /\ "dropdir" \in Pcs /\ x \in Locals
    BY <1>4, <1>7, GoesOnAt
  <2>2. QED
    BY <1>7, <1>8, <2>1, PutLocals
<1>10. CallInv(u) /\ At(u) = "dropdir"
  BY <1>3, <1>4, <1>9 DEF CallInv, OpAt, PointersAt, At, Putting, NameOps, LinkPlaces, ParentOps, CreateOps
<1>11. CallMoves(p, u, i, NOBODY, NONE)
  <2>1. \A j \in Inums : Held(u, j) = Held(t, j) + Is(NONE, j)
    BY <1>1, <1>4, <1>9 DEF Held, Is, NONE, Inums
  <2>2. \A j \in Inums : /\ HasLocked(u, j) <=> j = d
                         /\ HasLocked(t, j) <=> j = d
                         /\ Keeps(u, j) => Keeps(t, j)
                         /\ PointsIn(u, j) => PointsIn(t, j)
    BY <1>1, <1>2, <1>3, <1>4, <1>9, <1>10 DEF HasLocked, Keeps, PointsIn, NONE, Inums
  <2>3. FoundAt(u, dents)
    BY <1>5, <1>9 DEF FoundAt
  <2>4. QED
    BY <1>1, <1>2, <1>3, <1>4, <1>5, <1>9, <1>10, <2>1, <2>2, <2>3, ProcsAssumption DEF CallMoves
<1>12. LocksOne(p, i, NOBODY, NONE)
  BY <1>2, <1>4, LockedOne
<1>13. QED
  BY <1>1, <1>2, <1>6, <1>8, <1>11, <1>12, CallMovesPlain

\* exit() of a process.
LEMMA ExitPlain ==
    ASSUME IInv, NEW p \in Procs, Exit(p)
    PROVE  \E u : Plain(p, u) /\ Modest(p, u)
<1>1. PICK t, u : t = th[p] /\ u = [t EXCEPT !.pc = "exit"]
  OBVIOUS
<1>2. /\ t.pc = "idle" /\ UNCHANGED <<dino, dents, used, ftable, ofile, cwd, icache>>
      /\ calls' \in 0..MaxCalls
  BY <1>1, SizeAssumption DEF Exit, disk, files, IInv, TypeOK
<1>3. th \in [Procs -> Locals] /\ t \in Locals /\ CallInv(t) /\ At(t) = "idle" /\ icache \in Caches
  BY <1>1, <1>2, LocalsHere DEF At, Putting, IInv, TypeOK
<1>4. th' = [th EXCEPT ![p] = u]
  BY <1>1, <1>2, <1>3 DEF Exit
<1>5. /\ u \in Locals /\ u.pc = "exit" /\ u.cur = t.cur /\ u.ip = t.ip /\ u.dp = t.dp /\ u.put = t.put
      /\ u.put2 = t.put2 /\ u.op = t.op /\ u.rest = t.rest /\ u.new = t.new /\ u.name = t.name
  BY <1>1, <1>3, GoesOnAt DEF Locals
<1>6. t.cur = NONE /\ t.ip = NONE /\ t.dp = NONE /\ t.put = NONE /\ t.put2 = NONE
  BY <1>2, <1>3 DEF CallInv, PointersAt, At, Putting, NameOps, LinkPlaces, ParentOps, CreateOps
<1>7. CallInv(u) /\ At(u) = "exit"
  BY <1>5, <1>6 DEF CallInv, OpAt, PointersAt, At, Putting, NameOps, LinkPlaces, ParentOps, CreateOps
<1>8. \A j \in Inums : /\ Held(u, j) = Held(t, j) /\ Held(t, j) \in Nat /\ ~HasLocked(u, j) /\ ~HasLocked(t, j)
                       /\ ~Keeps(u, j) /\ ~PointsIn(u, j)
  BY <1>2, <1>3, <1>5, <1>6, <1>7 DEF Held, Is, HasLocked, Keeps, PointsIn, NONE, Inums
<1>9. LocksMoved(p, u) /\ CacheMoved /\ FoundAt(u, dents) /\ Moves(p, u)
  BY <1>1, <1>2, <1>4, <1>5, <1>8 DEF LocksMoved, CacheMoved, IInv, LockInv, CacheInv, FoundAt, Putting, Moves
<1>10. Plain(p, u)
  BY <1>1, <1>2, <1>3, <1>5, <1>6, <1>7, <1>8, <1>9 DEF Plain, Caches
<1>11. Modest(p, u)
  BY <1>1, <1>2, <1>3, <1>5, <1>6, <1>7, <1>8 DEF Modest, PathInv, PathOk
<1>12. QED
  BY <1>10, <1>11

\* The only reference to an inode is the one that iput() was given.
LEMMA OnlyRef ==
    ASSUME IInv, NEW p \in Procs, NEW i \in Inums, th[p].put = i, icache[i].ref = 1
    PROVE  /\ OpenFiles(i) = {} /\ ~PointsIn(th[p], i)
           /\ \A q \in Procs : cwd[q] # i
           /\ \A q \in Procs \ {p} : Held(th[q], i) = 0
<1>1. PICK o \in Nat : o = Cardinality(OpenFiles(i))
  BY OpenFilesFinite
<1>2. PICK h \in Nat : h = Held(th[p], i) /\ h >= 1 /\ (PointsIn(th[p], i) => h >= 2)
  BY DEF Held, Is, PointsIn
<1>3. 1 >= h + Is(cwd[p], i) + o
  BY <1>1, <1>2, RefsOfTwo DEF IInv
<1>4. o = 0 /\ h = 1 /\ cwd[p] # i
  BY <1>1, <1>2, <1>3 DEF Is
<1>5. ASSUME NEW q \in Procs \ {p} PROVE cwd[q] # i /\ Held(th[q], i) = 0
  <2>1. PICK k \in Nat : k = Held(th[q], i)
    BY DEF Held, Is
  <2>2. 1 >= h + k + Is(cwd[p], i) + Is(cwd[q], i) + o
    BY <1>1, <1>2, <2>1, RefsOfTwo DEF IInv
  <2>3. QED
    BY <1>4, <2>1, <2>2 DEF Is
<1>6. OpenFiles(i) = {}
  BY <1>1, <1>4, OpenFilesFinite, FS_EmptySet
<1>7. QED
  BY <1>2, <1>4, <1>5, <1>6

\* iput() looks at the inode with the lock.
LEMMA PutLockPlain ==
    ASSUME IInv, NEW p \in Procs, PutLock(p)
    PROVE  \E u : Plain(p, u) /\ Modest(p, u)
<1>1. PICK t, i : t = th[p] /\ i = t.put
  OBVIOUS
<1>2. /\ t.pc = "put" /\ icache[i].lock = NOBODY /\ UNCHANGED <<dino, dents, used, ftable, ofile, cwd, calls>>
  BY <1>1 DEF PutLock, disk, files
<1>3. /\ th \in [Procs -> Locals] /\ t \in Locals /\ CallInv(t) /\ At(t) = t.then /\ icache \in Caches
      /\ calls \in 0..MaxCalls /\ Putting(t)
  BY <1>1, <1>2, LocalsHere DEF At, Putting, IInv, TypeOK
<1>4. i \in Inums /\ i # NONE /\ p # NOBODY
  BY <1>1, <1>2, <1>3, LocalsHere, ProcsAssumption DEF CallInv, PointersAt, Putting
<1>5. \A j \in Inums : icache[j].ref \in Nat /\ Held(t, j) \in Nat
  BY <1>3 DEF Caches, Held, Is
<1>6. ASSUME NEW k \in {"free", "deref"}, NEW u, u = [t EXCEPT !.pc = k]
      PROVE  /\ u \in Locals /\ u.pc = k /\ u.cur = t.cur /\ u.ip = t.ip /\ u.dp = t.dp /\ u.put = i
             /\ u.put2 = t.put2 /\ u.op = t.op /\ u.rest = t.rest /\ u.new = t.new /\ u.name = t.name
             /\ CallInv(u) /\ At(u) = At(t) /\ FoundAt(u, dents)
             /\ \A j \in Inums : Held(u, j) = Held(t, j) /\ (Keeps(u, j) <=> Keeps(t, j))
                                 /\ (PointsIn(u, j) <=> PointsIn(t, j))
                                 /\ (HasLocked(u, j) <=> HasLocked(t, j) \/ (k = "free" /\ j = i))
  <2>1. /\ u \in Locals /\ u.pc = k /\ u.cur = t.cur /\ u.ip = t.ip /\ u.dp = t.dp /\ u.put = i
        /\ u.put2 = t.put2 /\ u.op = t.op /\ u.rest = t.rest /\ u.new = t.new /\ u.name = t.name
        /\ u.then = t.then
    BY <1>1, <1>3, <1>6 DEF Locals, Pcs
  <2>2. At(u) = t.then /\ Putting(u)
    BY <2>1 DEF At, Putting
  <2>3. CallInv(u)
    BY <1>1, <1>3, <2>1, <2>2 DEF CallInv, OpAt, PointersAt
  <2>4. FoundAt(t, dents)
    BY <1>1 DEF IInv, FoundInv, FoundAt
  <2>5. FoundAt(u, dents)
    BY <1>1, <1>3, <2>1, <2>4 DEF FoundAt
  <2>6. \A j \in Inums : Held(u, j) = Held(t, j) /\ (Keeps(u, j) <=> Keeps(t, j)) /\ (PointsIn(u, j) <=> PointsIn(t, j))
    BY <1>1, <1>3, <2>1, <2>2 DEF Held, Keeps, PointsIn
  <2>7. \A j \in Inums : HasLocked(u, j) <=> HasLocked(t, j) \/ (k = "free" /\ j = i)
    BY <1>2, <1>3, <2>1, <2>2 DEF HasLocked
  <2>8. QED
    BY <1>3, <2>1, <2>2, <2>3, <2>5, <2>6, <2>7
<1>7. CASE LastRef(i)
  <2>1. PICK u : u = [t EXCEPT !.pc = "free"]
    OBVIOUS
  <2>2. th' = [th EXCEPT ![p] = u] /\ icache' = [icache EXCEPT ![i].lock = p]
    BY <1>1, <1>3, <1>7, <2>1 DEF PutLock
  <2>3. /\ u \in Locals /\ u.pc = "free" /\ u.cur = t.cur /\ u.ip = t.ip /\ u.dp = t.dp /\ u.put = i
        /\ u.put2 = t.put2 /\ u.op = t.op /\ u.rest = t.rest /\ u.new = t.new /\ u.name = t.name
        /\ CallInv(u) /\ At(u) = At(t) /\ FoundAt(u, dents)
        /\ \A j \in Inums : Held(u, j) = Held(t, j) /\ (Keeps(u, j) <=> Keeps(t, j))
                            /\ (PointsIn(u, j) <=> PointsIn(t, j))
                            /\ (HasLocked(u, j) <=> HasLocked(t, j) \/ j = i)
    BY <1>6, <2>1
  <2>4. /\ icache[i].ref = 1 /\ dino[i].nlink = 0 /\ icache[i].valid
    BY <1>4, <1>7 DEF LastRef, IInv, CacheInv
  <2>5. /\ OpenFiles(i) = {} /\ ~PointsIn(t, i)
        /\ \A q \in Procs : cwd[q] # i
        /\ \A q \in Procs \ {p} : Held(th[q], i) = 0
    BY <1>1, <1>4, <2>4, OnlyRef
  <2>6. Moves(p, u)
    BY <2>2, <2>3 DEF Moves
  <2>7. ASSUME NEW q \in Procs PROVE ~Keeps(th'[q], i)
    <3>1. CASE q = p
      BY <1>3, <2>2, <2>3, <2>5, <3>1 DEF Keeps, PointsIn
    <3>2. CASE q # p
      <4>1. th'[q] = th[q]
        BY <1>3, <2>2, <3>2
      <4>2. Held(th[q], i) = 0
        BY <2>5, <3>2
      <4>3. QED
        BY <4>1, <4>2 DEF Keeps, Held, Is
    <3>3. QED
      BY <3>1, <3>2
  <2>8. /\ icache' \in Caches
        /\ \A j \in Inums : /\ icache'[j].ref = icache[j].ref /\ icache'[j].node = icache[j].node
                            /\ icache'[j].lock = IF j = i THEN p ELSE icache[j].lock
                            /\ icache'[j].valid <=> icache[j].valid
    BY <1>3, <1>4, <2>2 DEF Caches
  <2>9. LocksMoved(p, u) /\ CacheMoved
    BY <1>1, <1>2, <1>4, <2>3, <2>4, <2>8 DEF LocksMoved, CacheMoved, IInv, LockInv, CacheInv
  <2>10. Plain(p, u)
    BY <1>1, <1>2, <1>3, <1>5, <2>3, <2>4, <2>5, <2>6, <2>7, <2>8, <2>9 DEF Plain
  <2>11. Modest(p, u)
    BY <1>1, <1>2, <1>3, <2>3, <2>4, <2>8, <1>4 DEF Modest, PathInv, PathOk
  <2>12. QED
    BY <2>10, <2>11
<1>8. CASE ~LastRef(i)
  <2>1. PICK u : u = [t EXCEPT !.pc = "deref"]
    OBVIOUS
  <2>2. th' = [th EXCEPT ![p] = u] /\ icache' = icache
    BY <1>1, <1>3, <1>8, <2>1 DEF PutLock
  <2>3. /\ u \in Locals /\ u.pc = "deref" /\ u.cur = t.cur /\ u.ip = t.ip /\ u.dp = t.dp /\ u.put = i
        /\ u.put2 = t.put2 /\ u.op = t.op /\ u.rest = t.rest /\ u.new = t.new /\ u.name = t.name
        /\ CallInv(u) /\ At(u) = At(t) /\ FoundAt(u, dents)
        /\ \A j \in Inums : Held(u, j) = Held(t, j) /\ (Keeps(u, j) <=> Keeps(t, j))
                            /\ (PointsIn(u, j) <=> PointsIn(t, j))
                            /\ (HasLocked(u, j) <=> HasLocked(t, j))
    BY <1>6, <2>1
  <2>4. Moves(p, u) /\ LocksMoved(p, u) /\ CacheMoved
    BY <1>1, <1>2, <2>2, <2>3 DEF Moves, LocksMoved, CacheMoved, IInv, LockInv, CacheInv
  <2>5. Plain(p, u)
    BY <1>1, <1>2, <1>3, <1>5, <2>2, <2>3, <2>4 DEF Plain
  <2>6. Modest(p, u)
    BY <1>1, <1>2, <1>3, <2>2, <2>3 DEF Modest, PathInv, PathOk
  <2>7. QED
    BY <2>5, <2>6
<1>9. QED
  BY <1>7, <1>8

\* The locals of a call when iput() has returned.
LEMMA GoneOn ==
    ASSUME NEW t \in Locals, CallInv(t), t.pc = "deref", t.put2 = NONE
    PROVE  LET u == GoOn([t EXCEPT !.put = NONE], t.then) IN
           /\ u \in Locals /\ u.pc = t.then /\ ~Putting(u) /\ At(u) = t.then /\ CallInv(u)
           /\ u.cur = t.cur /\ u.ip = t.ip /\ u.dp = t.dp /\ u.put = NONE /\ u.put2 = NONE
           /\ u = [Idle EXCEPT !.pc = t.then] \/ (u.rest = t.rest /\ u.new = t.new /\ u.name = t.name)
           /\ u.op \in {t.op, "none"}
<1>1. PICK x, u : x = [t EXCEPT !.put = NONE] /\ u = GoOn(x, t.then)
  OBVIOUS
<1>2. Putting(t) /\ At(t) = t.then /\ t.then \notin {"put", "free", "deref"} /\ t.then \in Pcs
  BY DEF Putting, At, CallInv, OpAt, Locals
<1>3. CASE t.then \in {"idle", "dead"}
  <2>1. u = [Idle EXCEPT !.pc = t.then] /\ Idle \in Locals
    BY <1>1, <1>3, IdleLocals DEF GoOn
  <2>2. PICK y : y = Idle
    OBVIOUS
  <2>3. /\ y \in Locals /\ y.cur = NONE /\ y.ip = NONE /\ y.dp = NONE /\ y.put = NONE /\ y.put2 = NONE
        /\ y.op = "none" /\ u = [y EXCEPT !.pc = t.then]
    BY <2>1, <2>2 DEF Idle
  <2>4. /\ u \in Locals /\ u.pc = t.then /\ u.op = "none" /\ u.cur = NONE /\ u.ip = NONE /\ u.dp = NONE
        /\ u.put = NONE /\ u.put2 = NONE
    BY <1>2, <2>3 DEF Locals
  <2>5. t.cur = NONE /\ t.ip = NONE /\ t.dp = NONE
    BY <1>2, <1>3 DEF CallInv, PointersAt, NameOps, LinkPlaces, ParentOps, CreateOps
  <2>6. CallInv(u) /\ At(u) = t.then /\ ~Putting(u)
    BY <1>3, <2>4 DEF CallInv, OpAt, PointersAt, At, Putting, NameOps, LinkPlaces, ParentOps, CreateOps
  <2>7. QED
    BY <1>1, <2>1, <2>4, <2>5, <2>6
<1>4. CASE t.then \notin {"idle", "dead"}
  <2>1. u = [x EXCEPT !.pc = t.then]
    BY <1>1, <1>4 DEF GoOn
  <2>2. NONE \in Pointers
    BY DEF Pointers
  <2>3. x \in Locals /\ x.put = NONE /\ x.cur = t.cur /\ x.ip = t.ip /\ x.dp = t.dp /\ x.put2 = NONE
        /\ x.op = t.op /\ x.rest = t.rest /\ x.new = t.new /\ x.name = t.name
    BY <1>1, <2>2 DEF Locals
  <2>4. u \in Locals /\ u.pc = t.then /\ u.put = NONE /\ u.cur = t.cur /\ u.ip = t.ip /\ u.dp = t.dp /\ u.put2 = NONE
        /\ u.op = t.op /\ u.rest = t.rest /\ u.new = t.new /\ u.name = t.name
    BY <1>2, <2>1, <2>3 DEF Locals
  <2>5. At(u) = t.then /\ ~Putting(u)
    BY <1>2, <2>4 DEF At, Putting
  <2>6. CallInv(u)
    <3>1. OpAt(t) /\ PointersAt(t)
      BY DEF CallInv
    <3>2. At(u) = At(t) /\ u.op = t.op /\ u.rest = t.rest
      BY <1>2, <2>4, <2>5
    <3>3. OpAt(u)
      BY <3>1, <3>2, <2>5 DEF OpAt
    <3>4. PointersAt(u)
      BY <3>1, <3>2, <2>4, <2>5 DEF PointersAt
    <3>5. QED
      BY <3>3, <3>4 DEF CallInv
  <2>7. QED
    BY <1>1, <2>4, <2>5, <2>6
<1>5. QED
  BY <1>3, <1>4

\* iput() lowers the count.
LEMMA PutDerefPlain ==
    ASSUME IInv, NEW p \in Procs, PutDeref(p)
    PROVE  \E u : Plain(p, u) /\ Modest(p, u)
<1>1. PICK t, i : t = th[p] /\ i = t.put
  OBVIOUS
<1>2. /\ t.pc = "deref" /\ UNCHANGED <<dino, dents, used, ftable, ofile, cwd, calls>>
      /\ icache' = [icache EXCEPT ![i].ref = @ - 1]
      /\ th' = [th EXCEPT ![p] = IF t.put2 = NONE THEN GoOn([t EXCEPT !.put = NONE], t.then)
                                 ELSE Put([t EXCEPT !.put2 = NONE], t.put2, t.then)]
  BY <1>1 DEF PutDeref, disk, files
<1>3. /\ th \in [Procs -> Locals] /\ t \in Locals /\ CallInv(t) /\ At(t) = t.then /\ icache \in Caches
      /\ calls \in 0..MaxCalls /\ Putting(t)
  BY <1>1, <1>2, LocalsHere DEF At, Putting, IInv, TypeOK
<1>4. i \in Inums /\ i # NONE /\ NONE \in Pointers /\ t.then \in Pcs
  BY <1>1, <1>2, <1>3, LocalsHere DEF CallInv, PointersAt, Putting, Locals
<1>5. icache[i].ref > 0
  <2>1. Held(t, i) # 0
    BY <1>1 DEF Held, Is
  <2>2. QED
    BY <1>1, <1>4, <2>1, PointerRef
<1>6. /\ icache' \in Caches
      /\ \A j \in Inums : /\ icache'[j].ref = icache[j].ref - Is(i, j) /\ icache[j].ref \in Nat
                          /\ icache'[j].lock = icache[j].lock /\ icache'[j].node = icache[j].node
                          /\ icache'[j].valid = icache[j].valid
  <2>1. PICK c : c = icache[i].ref - 1
    OBVIOUS
  <2>2. c \in Nat /\ icache' = [icache EXCEPT ![i].ref = c]
    BY <1>2, <1>3, <1>4, <1>5, <2>1 DEF Caches
  <2>3. QED
    BY <1>3, <1>4, <2>1, <2>2 DEF Caches, Is
<1>7. SUFFICES ASSUME NEW u, th' = [th EXCEPT ![p] = u], u \in Locals, CallInv(u), At(u) = At(t),
                      u.pc = "put" \/ ~Putting(u), u.pc \notin {"free", "link1", "unlink1"},
                      u.cur = t.cur, u.ip = t.ip, u.dp = t.dp, u.put2 = NONE, u.put = t.put2,
                      u.op \in {t.op, "none"}, At(u) # "dropdir" \/ ~Putting(u),
                      PathOk(t) => PathOk(u)
               PROVE  \E v : Plain(p, v) /\ Modest(p, v)
  <2>1. CASE t.put2 = NONE
    <3>1. PICK u : u = GoOn([t EXCEPT !.put = NONE], t.then)
      OBVIOUS
    <3>2. /\ u \in Locals /\ u.pc = t.then /\ ~Putting(u) /\ At(u) = t.then /\ CallInv(u)
          /\ u.cur = t.cur /\ u.ip = t.ip /\ u.dp = t.dp /\ u.put = NONE /\ u.put2 = NONE
          /\ u = [Idle EXCEPT !.pc = t.then] \/ (u.rest = t.rest /\ u.new = t.new /\ u.name = t.name)
          /\ u.op \in {t.op, "none"}
      BY <1>2, <1>3, <2>1, <3>1, GoneOn
    <3>3. u.pc \notin {"free", "link1", "unlink1"}
      BY <1>3, <3>2 DEF CallInv, OpAt, Putting
    <3>4. ASSUME u = [Idle EXCEPT !.pc = t.then] PROVE PathOk(u)
      <4>1. u.rest = <<>> /\ u.new.elems = <<>> /\ u.name = "f"
        BY <3>4 DEF Idle, NoPath
      <4>2. <<>> \in Seq(Names \cup {"."})
        OBVIOUS
      <4>3. QED
        BY <4>1, <4>2 DEF PathOk
    <3>5. PathOk(t) => PathOk(u)
      BY <3>2, <3>4 DEF PathOk
    <3>6. th' = [th EXCEPT ![p] = u]
      BY <1>2, <2>1, <3>1
    <3>7. QED
      BY <1>3, <1>7, <2>1, <3>2, <3>3, <3>5, <3>6
  <2>2. CASE t.put2 # NONE
    <3>1. PICK x : x = [t EXCEPT !.put2 = NONE]
      OBVIOUS
    <3>2. /\ x \in Locals /\ x.cur = t.cur /\ x.ip = t.ip /\ x.dp = t.dp /\ x.put2 = NONE
          /\ x.op = t.op /\ x.rest = t.rest /\ x.new = t.new /\ x.name = t.name
      BY <1>3, <1>4, <3>1 DEF Locals
    <3>3. PICK u : u = Put(x, t.put2, t.then)
      OBVIOUS
    <3>4. t.put2 \in Pointers
      BY <1>3 DEF Locals
    <3>5. /\ u \in Locals /\ u.cur = t.cur /\ u.ip = t.ip /\ u.dp = t.dp /\ u.put2 = NONE
          /\ u.op = t.op /\ u.rest = t.rest /\ u.new = t.new /\ u.name = t.name
          /\ u.pc = "put" /\ u.then = t.then /\ u.put = t.put2
      BY <1>4, <3>2, <3>3, <3>4, PutLocals
    <3>6. Putting(u) /\ At(u) = t.then /\ t.then = "idle"
      BY <1>3, <2>2, <3>5 DEF Putting, At, CallInv, PointersAt
    <3>7. OpAt(t) /\ PointersAt(t)
      BY <1>3 DEF CallInv
    <3>8. OpAt(u)
      BY <3>5, <3>6 DEF OpAt, NameOps, ParentOps, CreateOps
    <3>9. PointersAt(u)
      BY <1>3, <2>2, <3>5, <3>6, <3>7 DEF PointersAt
    <3>10. PathOk(t) => PathOk(u)
      BY <3>5 DEF PathOk
    <3>11. th' = [th EXCEPT ![p] = u]
      BY <1>2, <2>2, <3>1, <3>3
    <3>12. QED
      BY <1>3, <1>7, <2>2, <3>5, <3>6, <3>8, <3>9, <3>10, <3>11 DEF CallInv
  <2>3. QED
    BY <2>1, <2>2
<1>8. \A j \in Inums : /\ Held(t, j) = Held(u, j) + Is(i, j) /\ Held(u, j) \in Nat /\ Is(i, j) \in Nat
                       /\ HasLocked(u, j) <=> HasLocked(t, j)
                       /\ Keeps(u, j) => Keeps(t, j)
                       /\ PointsIn(u, j) => PointsIn(t, j)
  BY <1>1, <1>2, <1>3, <1>4, <1>7 DEF Held, Is, HasLocked, Keeps, PointsIn, NONE, Inums
<1>9. Moves(p, u) /\ LocksMoved(p, u) /\ CacheMoved /\ FoundAt(u, dents)
  <2>1. Moves(p, u)
    BY <1>7 DEF Moves
  <2>2. LocksMoved(p, u)
    BY <1>1, <1>6, <1>8 DEF LocksMoved, IInv, LockInv
  <2>3. CacheMoved
    BY <1>2, <1>6 DEF CacheMoved, IInv, CacheInv
  <2>4. FoundAt(u, dents)
    BY <1>7 DEF FoundAt, At
  <2>5. QED
    BY <2>1, <2>2, <2>3, <2>4
<1>10. Plain(p, u)
  <2>1. \A j \in Inums : icache'[j].ref + Held(t, j) = icache[j].ref + Held(u, j)
    BY <1>6, <1>8
  <2>2. QED
    BY <1>1, <1>2, <1>3, <1>6, <1>7, <1>8, <1>9, <2>1 DEF Plain
<1>11. Modest(p, u)
  BY <1>1, <1>2, <1>3, <1>6, <1>7, <1>8 DEF Modest, PathInv
<1>12. QED
  BY <1>10, <1>11
-----------------------------------------------------------------------------
(* The steps that change the disk. *)

\* An open file stays within its inode, which stays.
LEMMA FilesStep ==
    ASSUME TypeOK, FilesInv, NodesKept, dino' \in [Inums -> Nodes], UNCHANGED ftable
    PROVE  FilesInv'
<1>1. ASSUME NEW f \in Files, ftable'[f].ref > 0
      PROVE  /\ ftable'[f].ip # NONE /\ dino'[ftable'[f].ip].type # "free"
             /\ ftable'[f].off <= Len(dino'[ftable'[f].ip].addrs)
  <2>1. PICK i, o : i = ftable[f].ip /\ o = ftable[f].off
    OBVIOUS
  <2>2. i \in Inums /\ o \in Int /\ dino[i].type # "free" /\ o <= Len(dino[i].addrs) /\ i # NONE
    BY <1>1, <2>1, SizeAssumption DEF TypeOK, FilesInv, Pointers
  <2>3. PICK k, l \in Nat : k = Len(dino[i].addrs) /\ l = Len(dino'[i].addrs)
    BY <2>2 DEF TypeOK, Nodes
  <2>4. dino'[i].type = dino[i].type /\ l >= k
    BY <2>2, <2>3 DEF NodesKept
  <2>5. QED
    BY <2>1, <2>2, <2>3, <2>4
<1>2. QED
  BY <1>1 DEF FilesInv

\* The step of p changes the disk and the cache, and no current directory and
\* no open file.
DiskMoves(p, u) ==
    /\ Moves(p, u) /\ UNCHANGED <<ftable, ofile, cwd, calls>>
    /\ dino' \in [Inums -> Nodes] /\ dents' \in [Inums -> [Elements -> Pointers]]
    /\ used' \subseteq Blocks /\ icache' \in Caches
    /\ CallInv(u) /\ At(u) # "dead" /\ At(th[p]) # "dead" /\ u.pc # "free"
    /\ \A i \in Inums : icache'[i].ref + Held(th[p], i) = icache[i].ref + Held(u, i)
    /\ LocksMoved(p, u) /\ CacheMoved /\ NodesKept
    /\ \A i \in Inums : Keeps(u, i) => Keeps(th[p], i) \/ (Nobodys(p, i) /\ dino'[i].type # "free")
    /\ u.dp # NONE => u.dp = th[p].dp \/ dino'[u.dp].type = "dir"
    /\ \A i \in Inums : Nobodys(p, i) \/ (dino'[i].nlink = dino[i].nlink /\ dents'[i] = dents[i])
    /\ FoundAt(u, dents') /\ FreeNodes' /\ BlocksOwned'

\* Such a step keeps the invariant.
LEMMA DiskStep ==
    ASSUME IInv, NEW p, NEW u, DiskMoves(p, u)
    PROVE  IInv'
<1>1. /\ TypeOK /\ RefsCounted /\ LockInv /\ CacheInv /\ FreeNodes /\ KeptInv /\ FilesInv
      /\ FreeingInv /\ FoundInv /\ BlocksOwned
      /\ (\A q \in Procs : CallInv(th[q])) /\ (\A q \in Procs : DeadInv(q))
  BY DEF IInv
<1>2. /\ Moves(p, u) /\ UNCHANGED <<ftable, ofile, cwd, calls>> /\ icache' \in Caches
      /\ CallInv(u) /\ (At(u) = "dead" <=> At(th[p]) = "dead") /\ LocksMoved(p, u) /\ CacheMoved
      /\ NodesKept /\ FreeNodes' /\ BlocksOwned' /\ dino' \in [Inums -> Nodes]
      /\ \A i \in Inums : icache'[i].ref + Held(th[p], i) = icache[i].ref + Held(u, i)
  BY DEF DiskMoves
<1>3. TypeOK'
  BY <1>1, <1>2, MovesOne DEF TypeOK, DiskMoves
<1>4. OwnCwd(p)
  BY <1>1, <1>2 DEF OwnCwd, TypeOK
<1>5. \A i : OpenFiles(i)' = OpenFiles(i)
  BY <1>2 DEF OpenFiles
<1>6. RefsCounted'
  <2>1. ASSUME NEW i \in Inums PROVE RefsMoved(p, u, i)
    <3>1. icache'[i].ref + Held(th[p], i) = icache[i].ref + Held(u, i)
      BY <1>2
    <3>2. PICK c, o : c = Is(cwd[p], i) /\ o = Cardinality(OpenFiles(i))
      OBVIOUS
    <3>3. c = Is(cwd'[p], i) /\ o = Cardinality(OpenFiles(i)')
      BY <1>2, <1>5, <3>2
    <3>4. RefsMoved(p, u, i) <=> icache'[i].ref + Held(th[p], i) + c + o = icache[i].ref + Held(u, i) + c + o
      BY <3>2, <3>3 DEF RefsMoved
    <3>5. QED
      BY <3>1, <3>4
  <2>2. \A i \in Inums : icache'[i].ref = Cardinality({q \in Procs : cwd'[q] = i})
                              + Cardinality(OpenFiles(i)') + HeldByCalls(i)'
    BY <1>1, <1>2, <1>4, <2>1, RefsStep
  <2>3. \A f \in Files : ftable'[f].ref = Cardinality(Descriptors(f))'
    BY <1>1, <1>2, SameDescriptors
  <2>4. QED
    BY <2>2, <2>3 DEF RefsCounted
<1>7. LockInv' /\ CacheInv' /\ FilesInv'
  BY <1>1, <1>2, LockStep, FilesStep DEF CacheInv, CacheMoved
<1>8. KeptInv'
  <2>1. KeepsMoved(p, u)
    BY <1>2 DEF DiskMoves, KeepsMoved
  <2>2. QED
    BY <1>1, <1>2, <1>4, <2>1, KeptStep
<1>9. FreeingInv'
  <2>1. FreeingMoved(p, u)
    <3>1. p \in Procs
      BY <1>1, <1>2, MovesOne
    <3>2. QED
      BY <1>2, <1>5, <3>1 DEF DiskMoves, FreeingMoved
  <2>2. QED
    BY <1>1, <1>2, <1>4, <2>1, FreeingStep
<1>10. FoundInv'
  <2>1. FoundMoved(p, u)
    BY <1>2 DEF DiskMoves, FoundMoved
  <2>2. QED
    BY <1>1, <1>2, <2>1, FoundStep
<1>11. (\A q \in Procs : CallInv(th[q])') /\ (\A q \in Procs : DeadInv(q)')
  BY <1>1, <1>2, CallsStep, DeadStep
<1>12. QED
  BY <1>2, <1>3, <1>6, <1>7, <1>8, <1>9, <1>10, <1>11 DEF IInv

\* No block changes its place.
LEMMA BlocksStay ==
    ASSUME BlocksOwned, UNCHANGED used, \A i \in Inums : dino'[i].addrs = dino[i].addrs
    PROVE  BlocksOwned'
<1>1. Owned' = Owned
  BY DEF Owned
<1>2. \A x \in Owned : BlockAt(x)' = BlockAt(x)
  BY DEF Owned, BlockAt
<1>3. QED
  BY <1>1, <1>2 DEF BlocksOwned

\* The lowest free block is free.
LEMMA FreeBlock ==
    ASSUME NEW v \in SUBSET Blocks, Blocks \ v # {}
    PROVE  BAlloc(v) \in Blocks /\ BAlloc(v) \notin v
<1>1. Blocks \ v \in SUBSET Nat
  BY DiskAssumption DEF Blocks
<1>2. QED
  BY <1>1, Least DEF BAlloc

\* Two free blocks are different.
LEMMA SecondBlock ==
    ASSUME NEW v \in SUBSET Blocks, NEW b, Cardinality(Blocks \ v) >= 2
    PROVE  Blocks \ (v \cup {b}) # {} /\ Blocks \ v # {}
<1>1. IsFiniteSet(Blocks)
  BY DiskAssumption, FS_Interval DEF Blocks
<1>2. Cardinality({}) = 0 /\ Cardinality({b}) = 1 /\ IsFiniteSet({b})
  BY FS_EmptySet, FS_Singleton
<1>3. Blocks \ v # {}
  BY <1>2
<1>4. SUFFICES ASSUME Blocks \ (v \cup {b}) = {} PROVE FALSE
  BY <1>3
<1>5. Blocks \ v \subseteq {b}
  BY <1>4
<1>6. Cardinality(Blocks \ v) <= 1 /\ Cardinality(Blocks \ v) \in Nat
  BY <1>2, <1>5, FS_Subset, FS_CardinalityType
<1>7. QED
  BY <1>6

\* Blocks that were free are added to an inode.
LEMMA BlocksGrow ==
    ASSUME BlocksOwned, NEW i \in Inums, NEW s \in Seq(Blocks), NEW t \in Seq(Blocks),
           dino[i].addrs = s, dino'[i].addrs = t, used' = used \cup Range(t),
           Len(s) <= Len(t), Len(t) <= MAXFILE + 1,
           \A k \in DOMAIN s : t[k] = s[k],
           \A k \in DOMAIN t \ DOMAIN s : t[k] \notin used,
           \A k, l \in DOMAIN t \ DOMAIN s : t[k] = t[l] => k = l,
           \A j \in Inums \ {i} : dino'[j].addrs = dino[j].addrs
    PROVE  BlocksOwned'
<1>1. DOMAIN s \subseteq DOMAIN t /\ DOMAIN t \subseteq 1..(MAXFILE + 1)
  BY SizeAssumption
<1>2. Owned' = {x \in Inums \X (1..(MAXFILE + 1)) : x[2] \in DOMAIN dino'[x[1]].addrs}
  BY DEF Owned
<1>3. ASSUME NEW x \in Owned PROVE x \in Owned' /\ BlockAt(x)' = BlockAt(x) /\ BlockAt(x) \in used
  BY <1>1, <1>2 DEF Owned, BlockAt, BlocksOwned
<1>4. ASSUME NEW x \in Owned', x \notin Owned
      PROVE  /\ x[1] = i /\ x[2] \in DOMAIN t \ DOMAIN s /\ x = <<x[1], x[2]>>
             /\ BlockAt(x)' = t[x[2]] /\ t[x[2]] \notin used
  BY <1>2, <1>4 DEF Owned, BlockAt
<1>5. ASSUME NEW k \in DOMAIN t PROVE <<i, k>> \in Owned' /\ BlockAt(<<i, k>>)' = t[k]
  BY <1>1, <1>2 DEF BlockAt
<1>6. used' = {BlockAt(x)' : x \in Owned'}
  <2>1. ASSUME NEW b \in used' PROVE \E x \in Owned' : BlockAt(x)' = b
    <3>1. CASE b \in used
      <4>1. PICK x \in Owned : BlockAt(x) = b
        BY <3>1 DEF BlocksOwned
      <4>2. QED
        BY <1>3, <4>1
    <3>2. CASE b \in Range(t)
      <4>1. PICK k \in DOMAIN t : b = t[k]
        BY <3>2 DEF Range
      <4>2. QED
        BY <1>5, <4>1
    <3>3. QED
      BY <2>1, <3>1, <3>2
  <2>2. ASSUME NEW x \in Owned' PROVE BlockAt(x)' \in used'
    <3>1. CASE x \in Owned
      BY <1>3, <3>1
    <3>2. CASE x \notin Owned
      BY <1>4, <2>2, <3>2 DEF Range
    <3>3. QED
      BY <3>1, <3>2
  <2>3. QED
    BY <2>1, <2>2
<1>7. ASSUME NEW x \in Owned', NEW y \in Owned', BlockAt(x)' = BlockAt(y)' PROVE x = y
  <2>1. CASE x \in Owned /\ y \in Owned
    BY <1>3, <1>7, <2>1 DEF BlocksOwned
  <2>2. CASE x \notin Owned /\ y \notin Owned
    BY <1>4, <1>7, <2>2
  <2>3. ~(x \in Owned /\ y \notin Owned) /\ ~(x \notin Owned /\ y \in Owned)
    BY <1>3, <1>4, <1>7
  <2>4. QED
    BY <2>1, <2>2, <2>3
<1>8. QED
  BY <1>6, <1>7 DEF BlocksOwned

\* The lowest free inode is free.
LEMMA FreeInode ==
    ASSUME IInv, FreeInums # {}
    PROVE  /\ IAlloc \in Inums /\ dino[IAlloc] = Free /\ ~icache[IAlloc].valid
           /\ icache[IAlloc].lock = NOBODY
<1>1. FreeInums \in SUBSET Nat
  BY DiskAssumption DEF FreeInums, Inums
<1>2. IAlloc \in FreeInums
  BY <1>1, Least DEF IAlloc
<1>3. QED
  BY <1>2 DEF FreeInums, IInv, FreeNodes, CacheInv

\* p's call has the same path, name and kind.
SameCall(t, u) == u.op = t.op /\ u.name = t.name /\ u.rest = t.rest /\ u.new = t.new

\* p allocates the inode a.
Allocates(p, u, a) ==
    /\ th[p].pc \in CreateOps /\ th[p].op = th[p].pc /\ th[p].cur = NONE /\ th[p].ip = NONE
    /\ SameCall(th[p], u) /\ u.pc = "link1" /\ u.cur = NONE /\ u.ip = a /\ u.dp = th[p].dp
    /\ a \in Inums /\ a # u.dp /\ dino[a] = Free /\ ~icache[a].valid
    /\ u.put = NONE /\ u.put2 = NONE /\ dents[u.dp][u.name] = NONE
    /\ dino'[a].nlink = 0 /\ dino'[a].type # "free" /\ (dino'[a].type = "dir" <=> u.op = "mkdir")
    /\ (\A j \in Inums \ {a} : dino'[j] = dino[j]) /\ dents' = dents
    /\ \A j \in Inums : /\ icache'[j].valid => icache[j].valid \/ j = u.dp
                        /\ icache'[j].ref = icache[j].ref + Is(a, j)

\* create() allocates an inode.
LEMMA CreateNew ==
    ASSUME IInv, NEW p \in Procs, Create(p), DirLookup(th[p].dp, th[p].name) = NONE
    PROVE  \E u, a : DiskMoves(p, u) /\ Allocates(p, u, a)
<1>1. PICK t, d, a, n : /\ t = th[p] /\ d = t.dp /\ a = IAlloc
                        /\ n = [Free EXCEPT !.type = CASE t.op = "create" -> "file"
                                                       [] t.op = "mkdir" -> "dir"
                                                       [] t.op = "mknod" -> "dev"]
  OBVIOUS
<1>2. /\ t.pc \in CreateOps /\ CanLock(d) /\ UNCHANGED <<dents, used, ftable, ofile, cwd, calls>>
      /\ FreeInums # {} /\ dino' = [dino EXCEPT ![a] = n] /\ icache' = IGet(Locked(d, p), a)
      /\ th' = [th EXCEPT ![p] = [t EXCEPT !.ip = a, !.pc = "link1"]]
  BY <1>1 DEF Create, disk, files, IUpdate
<1>3. /\ th \in [Procs -> Locals] /\ t \in Locals /\ CallInv(t) /\ At(t) = t.pc /\ icache \in Caches
      /\ dino \in [Inums -> Nodes] /\ t.pc \in CreateOps
      /\ dents \in [Inums -> [Elements -> Pointers]] /\ used \subseteq Blocks
  BY <1>1, <1>2, LocalsHere DEF At, Putting, IInv, TypeOK, CreateOps
<1>4. /\ t.cur = NONE /\ t.ip = NONE /\ t.put = NONE /\ t.put2 = NONE /\ t.op = t.pc
      /\ d \in Inums /\ d # NONE /\ PointsIn(t, d)
  BY <1>1, <1>3, LocalsHere DEF CallInv, OpAt, PointersAt, At, Putting, NameOps, LinkPlaces, ParentOps, CreateOps, PointsIn
<1>5. a \in Inums /\ a \in Pointers /\ a # NONE /\ dino[a] = Free /\ ~icache[a].valid /\ icache[a].lock = NOBODY
  BY <1>1, <1>2, FreeInode DEF Pointers, Inums, NONE
<1>6. /\ n \in Nodes /\ n.type # "free" /\ n.nlink = 0 /\ n.addrs = <<>>
      /\ n.type = "dir" <=> t.op = "mkdir"
  <2>1. <<>> \in Seq(Blocks) /\ t.op \in {"create", "mkdir", "mknod"}
    BY <1>3, <1>4 DEF CreateOps
  <2>2. PICK ty, f : f = Free /\ ty = CASE t.op = "create" -> "file"
                                        [] t.op = "mkdir" -> "dir"
                                        [] t.op = "mknod" -> "dev"
    OBVIOUS
  <2>3. ty \in {"file", "dir", "dev"} /\ (ty = "dir" <=> t.op = "mkdir")
    BY <2>1, <2>2
  <2>4. n = [f EXCEPT !.type = ty]
    BY <1>1, <2>2
  <2>5. f \in Nodes /\ f.nlink = 0 /\ f.addrs = <<>>
    BY <2>1, <2>2 DEF Free, Nodes
  <2>6. n \in Nodes /\ n.type = ty /\ n.nlink = 0 /\ n.addrs = <<>>
    BY <2>3, <2>4, <2>5 DEF Nodes
  <2>7. QED
    BY <2>3, <2>6
<1>7. a # d /\ dino[d].type # "free" /\ icache[d].lock = NOBODY
  BY <1>2, <1>4, <1>5, NodeOnDisk DEF CanLock, Free
<1>8. LocksOne(p, d, p, a)
  BY <1>2, <1>4, <1>5, LockedOne
<1>9. dino' \in [Inums -> Nodes] /\ dino'[a] = n /\ \A j \in Inums \ {a} : dino'[j] = dino[j]
  BY <1>2, <1>3, <1>5, <1>6
<1>10. PICK u : u = [t EXCEPT !.ip = a, !.pc = "link1"]
  OBVIOUS
<1>11. /\ u \in Locals /\ u.pc = "link1" /\ u.cur = NONE /\ u.ip = a /\ u.dp = d /\ u.put = NONE
       /\ u.put2 = NONE /\ u.op = t.op
  BY <1>1, <1>3, <1>4, <1>5, <1>10 DEF Locals, Pcs
<1>12. CallInv(u) /\ At(u) = "link1"
  BY <1>3, <1>4, <1>5, <1>11 DEF CallInv, OpAt, PointersAt, At, Putting, NameOps, LinkPlaces, ParentOps, CreateOps
<1>13. \A j \in Inums : /\ Held(u, j) = Held(t, j) + Is(a, j) /\ Held(t, j) \in Nat /\ Is(a, j) \in Nat
                        /\ HasLocked(u, j) <=> j = d
                        /\ ~HasLocked(t, j)
                        /\ Keeps(u, j) => Keeps(t, j) \/ j = a
                        /\ icache[j].ref \in Nat
  BY <1>1, <1>3, <1>4, <1>11, <1>12 DEF Held, Is, HasLocked, Keeps, NONE, Inums, CreateOps, Caches
<1>14. icache[d].ref > 0
  <2>1. Held(t, d) # 0
    BY <1>4 DEF PointsIn, Held, Is
  <2>2. QED
    BY <1>1, <1>4, <2>1, PointerRef
<1>15. DiskMoves(p, u)
  <2>1. Moves(p, u)
    BY <1>2, <1>10, <1>11 DEF Moves
  <2>2. \A j \in Inums : icache'[j].ref + Held(t, j) = icache[j].ref + Held(u, j)
    BY <1>8, <1>13 DEF LocksOne
  <2>3. LocksMoved(p, u)
    <3>1. p # NOBODY
      BY ProcsAssumption
    <3>2. QED
      BY <1>1, <1>7, <1>8, <1>13, <3>1 DEF LocksMoved, LocksOne, IInv, LockInv
  <2>4. CacheMoved
    <3>1. ASSUME NEW j \in Inums
          PROVE  /\ icache'[j].valid => icache'[j].node = dino'[j] /\ dino'[j].type # "free"
                 /\ icache'[j].lock # NOBODY => icache'[j].valid
      BY <1>5, <1>7, <1>8, <1>9, <1>14, PointerRef DEF LocksOne, IInv, CacheInv
    <3>2. QED
      BY <3>1 DEF CacheMoved
  <2>5. NodesKept
    <3>1. \A j \in Inums : Len(dino[j].addrs) \in Nat
      BY <1>3 DEF Nodes
    <3>2. QED
      BY <1>5, <1>9, <3>1 DEF NodesKept, Free
  <2>6. /\ \A j \in Inums : Keeps(u, j) => Keeps(t, j) \/ (Nobodys(p, j) /\ dino'[j].type # "free")
        /\ u.dp # NONE => u.dp = t.dp
        /\ \A j \in Inums : Nobodys(p, j) \/ (dino'[j].nlink = dino[j].nlink /\ dents'[j] = dents[j])
    BY <1>1, <1>2, <1>5, <1>6, <1>9, <1>11, <1>13 DEF Nobodys
  <2>7. FoundAt(u, dents')
    BY <1>11 DEF FoundAt, Putting
  <2>8. FreeNodes'
    <3>1. Len(n.addrs) <= MAXFILE + 1
      BY <1>6, SizeAssumption
    <3>2. QED
      BY <1>6, <1>9, <3>1 DEF FreeNodes, IInv
  <2>9. BlocksOwned'
    <3>1. \A j \in Inums : dino'[j].addrs = dino[j].addrs
      BY <1>5, <1>6, <1>9 DEF Free
    <3>2. QED
      BY <1>2, <3>1, BlocksStay DEF IInv
  <2>10. icache' \in Caches
    BY <1>8 DEF LocksOne
  <2>11. At(u) # "dead" /\ At(t) # "dead" /\ u.pc # "free"
    BY <1>3, <1>11, <1>12 DEF CreateOps
  <2>12. QED
    BY <1>1, <1>2, <1>3, <1>9, <1>12, <2>1, <2>2, <2>3, <2>4, <2>5, <2>6, <2>7, <2>8, <2>9, <2>10, <2>11 DEF DiskMoves
<1>16. Allocates(p, u, a)
  <2>1. SameCall(t, u)
    BY <1>3, <1>10 DEF Locals, SameCall
  <2>2. dents[d][t.name] = NONE
    BY <1>1 DEF DirLookup
  <2>3. QED
    BY <1>1, <1>2, <1>4, <1>5, <1>6, <1>7, <1>8, <1>9, <1>11, <2>1, <2>2 DEF Allocates, LocksOne, SameCall
<1>17. QED
  BY <1>15, <1>16

\* The blocks of an inode are marked.
LEMMA AddrsUsed ==
    ASSUME IInv, NEW i \in Inums
    PROVE  used \cup Range(dino[i].addrs) = used
<1>1. dino[i].addrs \in Seq(Blocks) /\ Len(dino[i].addrs) <= MAXFILE + 1 /\ MAXFILE \in Nat
  BY SizeAssumption DEF IInv, TypeOK, Nodes, FreeNodes
<1>2. ASSUME NEW k \in DOMAIN dino[i].addrs PROVE dino[i].addrs[k] \in used
  <2>1. k \in 1..(MAXFILE + 1)
    BY <1>1, <1>2
  <2>2. <<i, k>> \in Owned
    BY <1>2, <2>1 DEF Owned
  <2>3. BlockAt(<<i, k>>) = dino[i].addrs[k]
    BY DEF BlockAt
  <2>4. QED
    BY <2>2, <2>3 DEF IInv, BlocksOwned
<1>3. QED
  BY <1>2 DEF Range

\* A size leaves out the indirect block.
LEMMA SizeMeans ==
    ASSUME NEW s \in Seq(Blocks)
    PROVE  /\ Size(s) \in Nat /\ Len(s) \in Nat /\ Size(s) <= Len(s) /\ Len(s) <= Size(s) + 1
           /\ Len(s) <= NDIRECT => Size(s) = Len(s)
           /\ Len(s) <= MAXFILE + 1 => Size(s) <= MAXFILE
  BY SizeAssumption DEF Size

\* What bmap() makes of the blocks s of an inode: those that it adds were free,
\* and are two if the indirect block is one of them.
LEMMA BMapAdds ==
    ASSUME NEW s \in Seq(Blocks), NEW k \in Nat, used \subseteq Blocks, HasRoom(s, k)
    PROVE  /\ BMap(s, k) \in Seq(Blocks) /\ Len(s) <= Len(BMap(s, k))
           /\ \A j \in DOMAIN s : BMap(s, k)[j] = s[j]
           /\ \A j \in DOMAIN BMap(s, k) \ DOMAIN s : BMap(s, k)[j] \notin used
           /\ \A j, l \in DOMAIN BMap(s, k) \ DOMAIN s : BMap(s, k)[j] = BMap(s, k)[l] => j = l
           /\ k < MAXFILE /\ Len(s) <= MAXFILE + 1 => Len(BMap(s, k)) <= MAXFILE + 1
           /\ k <= Len(s) => k + 1 <= Len(BMap(s, k))
<1>1. PICK t, b, c : t = BMap(s, k) /\ b = BAlloc(used) /\ c = BAlloc(used \cup {b})
  OBVIOUS
<1>2. /\ Size(s) \in Nat /\ Len(s) \in Nat /\ Size(s) <= Len(s) /\ Len(s) <= Size(s) + 1
      /\ Len(s) <= NDIRECT => Size(s) = Len(s)
      /\ MAXFILE \in Nat /\ NDIRECT \in Nat
  BY SizeMeans, SizeAssumption
<1>3. CASE k < Size(s)
  <2>1. t = s
    BY <1>1, <1>3 DEF BMap
  <2>2. QED
    BY <1>1, <1>2, <1>3, <2>1
<1>4. CASE ~(k < Size(s)) /\ NeedsIndirect(s, k)
  <2>1. t = s \o <<b, c>>
    BY <1>1, <1>4 DEF BMap
  <2>2. Blocks \ (used \cup {b}) # {} /\ Blocks \ used # {}
    BY <1>4, SecondBlock DEF HasRoom
  <2>3. b \in Blocks /\ b \notin used
    BY <1>1, <2>2, FreeBlock
  <2>4. c \in Blocks /\ c \notin used /\ c # b
    <3>1. used \cup {b} \in SUBSET Blocks
      BY <2>3
    <3>2. c \in Blocks /\ c \notin used \cup {b}
      BY <1>1, <2>2, <3>1, FreeBlock
    <3>3. QED
      BY <3>2
  <2>5. /\ t \in Seq(Blocks) /\ Len(t) = Len(s) + 2 /\ DOMAIN t = 1..(Len(s) + 2) /\ DOMAIN s = 1..Len(s)
        /\ \A j \in DOMAIN s : t[j] = s[j]
        /\ t[Len(s) + 1] = b /\ t[Len(s) + 2] = c
    BY <1>2, <2>1, <2>3, <2>4
  <2>6. \A j \in DOMAIN t \ DOMAIN s : j = Len(s) + 1 \/ j = Len(s) + 2
    BY <1>2, <2>5
  <2>7. Len(s) <= k
    BY <1>2, <1>4 DEF NeedsIndirect
  <2>8. k < MAXFILE => Len(t) <= MAXFILE + 1
    BY <1>2, <2>5, <2>7
  <2>9. k <= Len(s) => k + 1 <= Len(t)
    BY <1>2, <2>5
  <2>10. /\ \A j \in DOMAIN t \ DOMAIN s : t[j] \notin used
         /\ \A j, l \in DOMAIN t \ DOMAIN s : t[j] = t[l] => j = l
    BY <2>3, <2>4, <2>5, <2>6
  <2>11. Len(s) <= Len(t)
    BY <1>2, <2>5
  <2>12. QED
    BY <1>1, <2>5, <2>8, <2>9, <2>10, <2>11
<1>5. CASE ~(k < Size(s)) /\ ~NeedsIndirect(s, k)
  <2>1. t = Append(s, b)
    BY <1>1, <1>5 DEF BMap
  <2>2. Blocks \ used # {}
    <3>1. Cardinality(Blocks \ used) >= 1
      BY <1>5 DEF HasRoom
    <3>2. QED
      BY <3>1, FS_EmptySet
  <2>3. b \in Blocks /\ b \notin used
    BY <1>1, <2>2, FreeBlock
  <2>4. /\ t \in Seq(Blocks) /\ Len(t) = Len(s) + 1 /\ DOMAIN t = 1..(Len(s) + 1) /\ DOMAIN s = 1..Len(s)
        /\ \A j \in DOMAIN s : t[j] = s[j]
        /\ t[Len(s) + 1] = b
    BY <1>2, <2>1, <2>3
  <2>5. \A j \in DOMAIN t \ DOMAIN s : j = Len(s) + 1
    BY <1>2, <2>4
  <2>6. /\ \A j \in DOMAIN t \ DOMAIN s : t[j] \notin used
        /\ \A j, l \in DOMAIN t \ DOMAIN s : t[j] = t[l] => j = l
    BY <2>3, <2>4, <2>5
  <2>7. k < MAXFILE => Len(t) <= MAXFILE + 1
    BY <1>2, <1>5, <2>4
  <2>8. (k <= Len(s) => k + 1 <= Len(t)) /\ Len(s) <= Len(t)
    BY <1>2, <2>4
  <2>9. QED
    BY <1>1, <2>4, <2>6, <2>7, <2>8
<1>6. QED
  BY <1>3, <1>4, <1>5

\* What bmap() does to the blocks of an inode and to the bitmap.
LEMMA BlocksMapped ==
    ASSUME IInv, NEW i \in Inums, NEW k \in Nat, dino'[i].addrs = BMap(dino[i].addrs, k),
           k < MAXFILE, k <= Len(dino[i].addrs), HasRoom(dino[i].addrs, k),
           used' = used \cup Range(BMap(dino[i].addrs, k)),
           \A j \in Inums \ {i} : dino'[j].addrs = dino[j].addrs
    PROVE  /\ BlocksOwned' /\ used' \subseteq Blocks
           /\ dino'[i].addrs \in Seq(Blocks) /\ Len(dino'[i].addrs) <= MAXFILE + 1
           /\ Len(dino'[i].addrs) >= Len(dino[i].addrs)
           /\ k + 1 <= Len(dino'[i].addrs)
<1>1. PICK s, t : s = dino[i].addrs /\ t = BMap(dino[i].addrs, k)
  OBVIOUS
<1>2. s \in Seq(Blocks) /\ Len(s) <= MAXFILE + 1 /\ used \subseteq Blocks /\ BlocksOwned
  BY <1>1 DEF IInv, TypeOK, Nodes, FreeNodes
<1>3. /\ t \in Seq(Blocks) /\ Len(s) <= Len(t) /\ Len(t) <= MAXFILE + 1 /\ k + 1 <= Len(t)
      /\ \A j \in DOMAIN s : t[j] = s[j]
      /\ \A j \in DOMAIN t \ DOMAIN s : t[j] \notin used
      /\ \A j, l \in DOMAIN t \ DOMAIN s : t[j] = t[l] => j = l
  BY <1>1, <1>2, BMapAdds
<1>4. BlocksOwned'
  BY <1>1, <1>2, <1>3, BlocksGrow
<1>5. Range(t) \subseteq Blocks
  BY <1>3 DEF Range
<1>6. Len(t) \in Nat /\ Len(s) \in Nat
  BY <1>2, <1>3
<1>7. QED
  BY <1>1, <1>2, <1>3, <1>4, <1>5, <1>6

\* p writes the first link to the inode i, in the directory d.
LinksFirst(p, u, i, d) ==
    /\ th[p].pc = "link1" /\ th[p].op \in CreateOps /\ th[p].cur = NONE /\ th[p].ip = i /\ th[p].dp = d
    /\ SameCall(th[p], u) /\ u.pc = "put" /\ u.put = d /\ u.cur = NONE /\ u.ip = i /\ u.dp = NONE
    /\ u.put2 = NONE /\ u.then \in {"fopen", "made"}
    /\ i \in Inums /\ d \in Inums /\ i # d
    /\ dino'[i].nlink = 1 /\ dino'[i].type = dino[i].type
    /\ dino'[d].nlink = dino[d].nlink + (IF u.op = "mkdir" THEN 1 ELSE 0) /\ dino'[d].type = dino[d].type
    /\ \A j \in Inums \ {i, d} : dino'[j] = dino[j]
    /\ \A j \in Inums, n \in Elements : dents'[j][n] =
         IF j = d /\ n = u.name THEN i
         ELSE IF u.op = "mkdir" /\ j = i /\ n = "." THEN i
         ELSE IF u.op = "mkdir" /\ j = i /\ n = ".." THEN d
         ELSE dents[j][n]
    /\ \A j \in Inums : /\ icache'[j].valid => icache[j].valid \/ j = i
                        /\ icache'[j].ref = icache[j].ref

\* create() links the new inode.
LEMMA CreateLinkNew ==
    ASSUME IInv, NEW p \in Procs, CreateLink(p)
    PROVE  \E u, i, d : DiskMoves(p, u) /\ LinksFirst(p, u, i, d)
<1>1. PICK t, i, d, n, m :
        /\ t = th[p] /\ i = t.ip /\ d = t.dp
        /\ n = [Node(i) EXCEPT !.nlink = 1, !.addrs = IF t.op = "mkdir" THEN BMap(@, 0) ELSE @]
        /\ m = [Node(d) EXCEPT !.nlink = IF t.op = "mkdir" THEN @ + 1 ELSE @]
  OBVIOUS
<1>2. /\ t.pc = "link1" /\ CanLock(i) /\ UNCHANGED <<ftable, ofile, cwd, calls>>
      /\ t.op = "mkdir" => HasRoom(Node(i).addrs, 0)
      /\ dino' = [dino EXCEPT ![i] = n, ![d] = m]
      /\ icache' = [Updated(Updated(Locked(i, p), i, n), d, m) EXCEPT ![d].lock = NOBODY]
      /\ used' = used \cup Range(n.addrs)
      /\ dents' = DirLink(IF t.op = "mkdir" THEN DirLink(DirLink(dents, i, ".", i), i, "..", d)
                          ELSE dents, d, t.name, i)
      /\ th' = [th EXCEPT ![p] = Put([t EXCEPT !.dp = NONE], d,
                                     IF t.op = "create" THEN "fopen" ELSE "made")]
  BY <1>1 DEF CreateLink, files
<1>3. /\ th \in [Procs -> Locals] /\ t \in Locals /\ CallInv(t) /\ At(t) = t.pc /\ icache \in Caches
      /\ dino \in [Inums -> Nodes]
      /\ dents \in [Inums -> [Elements -> Pointers]] /\ used \subseteq Blocks /\ t.name \in Elements
  BY <1>1, <1>2, LocalsHere DEF At, Putting, IInv, TypeOK
<1>4. /\ t.cur = NONE /\ t.put = NONE /\ t.put2 = NONE /\ t.op \in CreateOps /\ NONE \in Pointers
      /\ i \in Inums /\ i # NONE /\ i \in Pointers /\ d \in Inums /\ d # NONE /\ d \in Pointers
  BY <1>1, <1>2, <1>3, LocalsHere DEF CallInv, OpAt, PointersAt, At, Putting, NameOps, LinkPlaces, ParentOps, CreateOps
<1>5. /\ icache[i].lock = NOBODY /\ icache[d].lock = p /\ p # NOBODY /\ i # d
      /\ Node(i) = dino[i] /\ Node(d) = dino[d] /\ dino[i].type # "free" /\ dino[d].type # "free"
      /\ dino[i] \in Nodes /\ dino[d] \in Nodes /\ icache[d].valid
  BY <1>1, <1>2, <1>3, <1>4, NodeOnDisk, ProcsAssumption DEF IInv, LockInv, HasLocked, CanLock, CacheInv
<1>6. /\ m \in Nodes /\ m.type = dino[d].type /\ m.addrs = dino[d].addrs
      /\ m.nlink = dino[d].nlink + (IF t.op = "mkdir" THEN 1 ELSE 0)
  BY <1>1, <1>5 DEF Nodes
<1>7. /\ n.type = dino[i].type /\ n.nlink = 1
      /\ n.addrs = IF t.op = "mkdir" THEN BMap(dino[i].addrs, 0) ELSE dino[i].addrs
  BY <1>1, <1>5 DEF Nodes
<1>8. /\ dino'[i] = n /\ dino'[d] = m /\ \A j \in Inums \ {i, d} : dino'[j] = dino[j]
  BY <1>2, <1>3, <1>4, <1>5
<1>9. /\ BlocksOwned' /\ used' \subseteq Blocks /\ n.addrs \in Seq(Blocks)
      /\ Len(n.addrs) <= MAXFILE + 1 /\ Len(n.addrs) >= Len(dino[i].addrs)
  <2>1. CASE t.op = "mkdir"
    <3>1. \A j \in Inums \ {i} : dino'[j].addrs = dino[j].addrs
      BY <1>6, <1>8
    <3>2. 0 \in Nat /\ 0 < MAXFILE /\ 0 <= Len(dino[i].addrs) /\ HasRoom(dino[i].addrs, 0)
      BY <1>2, <1>5, <2>1, SizeAssumption DEF Nodes
    <3>3. dino'[i].addrs = BMap(dino[i].addrs, 0) /\ used' = used \cup Range(BMap(dino[i].addrs, 0))
      BY <1>2, <1>7, <1>8, <2>1
    <3>4. /\ BlocksOwned' /\ used' \subseteq Blocks
          /\ dino'[i].addrs \in Seq(Blocks) /\ Len(dino'[i].addrs) <= MAXFILE + 1
          /\ Len(dino'[i].addrs) >= Len(dino[i].addrs)
      BY <1>4, <3>1, <3>2, <3>3, BlocksMapped
    <3>5. QED
      BY <1>8, <3>4
  <2>2. CASE t.op # "mkdir"
    <3>1. \A j \in Inums : dino'[j].addrs = dino[j].addrs
      BY <1>6, <1>7, <1>8, <2>2
    <3>2. used' = used
      BY <1>2, <1>4, <1>7, <2>2, AddrsUsed
    <3>3. Len(dino[i].addrs) <= MAXFILE + 1 /\ Len(dino[i].addrs) \in Nat
      BY <1>3, <1>4 DEF IInv, FreeNodes, Nodes
    <3>4. QED
      BY <1>3, <1>5, <1>7, <2>2, <3>1, <3>2, <3>3, BlocksStay DEF IInv, Nodes
  <2>3. QED
    BY <2>1, <2>2
<1>10. n \in Nodes /\ dino' \in [Inums -> Nodes]
  <2>1. PICK s, o : s = n.addrs /\ o = dino[i]
    OBVIOUS
  <2>2. n \in Nodes
    <3>1. n = [o EXCEPT !.nlink = 1, !.addrs = s]
      BY <1>1, <1>5, <1>7, <2>1 DEF Nodes
    <3>2. o \in Nodes /\ s \in Seq(Blocks)
      BY <1>5, <1>9, <2>1
    <3>3. n.nlink \in Int /\ n.type \in {"free", "file", "dir", "dev"} /\ n.addrs \in Seq(Blocks)
      BY <1>5, <1>7, <1>9 DEF Nodes
    <3>4. n = [type |-> n.type, nlink |-> n.nlink, addrs |-> n.addrs]
      BY <3>1, <3>2 DEF Nodes
    <3>5. QED
      BY <3>3, <3>4 DEF Nodes
  <2>3. QED
    BY <1>2, <1>3, <1>4, <1>6, <2>2
<1>11. /\ icache' \in Caches
       /\ \A j \in Inums : /\ icache'[j].ref = icache[j].ref
                           /\ icache'[j].lock = IF j = i THEN p ELSE IF j = d THEN NOBODY ELSE icache[j].lock
                           /\ icache'[j].valid <=> j = i \/ icache[j].valid
                           /\ icache'[j].node = IF j = i THEN n ELSE IF j = d THEN m ELSE icache[j].node
  <2>1. PICK c1 : c1 = Locked(i, p)
    OBVIOUS
  <2>2. /\ c1 \in Caches
        /\ \A j \in Inums : /\ c1[j].ref = icache[j].ref
                            /\ c1[j].lock = IF j = i THEN p ELSE icache[j].lock
                            /\ c1[j].valid <=> j = i \/ icache[j].valid
                            /\ c1[j].node = IF j = i THEN dino[i] ELSE icache[j].node
    BY <1>4, <2>1, LockedCache
  <2>3. PICK c2 : c2 = Updated(c1, i, n) /\ n \in Nodes
    BY <1>10
  <2>4. /\ c2 \in Caches
        /\ \A j \in Inums : /\ c2[j].ref = c1[j].ref /\ c2[j].lock = c1[j].lock /\ (c2[j].valid <=> c1[j].valid)
                            /\ c2[j].node = IF j = i THEN n ELSE c1[j].node
    BY <1>4, <2>2, <2>3, UpdatedCache
  <2>5. PICK c3 : c3 = Updated(c2, d, m)
    OBVIOUS
  <2>6. /\ c3 \in Caches
        /\ \A j \in Inums : /\ c3[j].ref = c2[j].ref /\ c3[j].lock = c2[j].lock /\ (c3[j].valid <=> c2[j].valid)
                            /\ c3[j].node = IF j = d THEN m ELSE c2[j].node
    BY <1>4, <1>6, <2>4, <2>5, UpdatedCache
  <2>7. icache' = [c3 EXCEPT ![d].lock = NOBODY]
    BY <1>2, <2>1, <2>3, <2>5
  <2>8. /\ icache' \in Caches
        /\ \A j \in Inums : /\ icache'[j].ref = c3[j].ref /\ (icache'[j].valid <=> c3[j].valid)
                            /\ icache'[j].lock = IF j = d THEN NOBODY ELSE c3[j].lock
                            /\ icache'[j].node = c3[j].node
    BY <1>4, <2>6, <2>7 DEF Caches
  <2>9. QED
    BY <1>5, <2>2, <2>4, <2>6, <2>8
<1>12. /\ dents' \in [Inums -> [Elements -> Pointers]]
       /\ \A j \in Inums, e \in Elements : dents'[j][e] =
            IF j = d /\ e = t.name THEN i
            ELSE IF t.op = "mkdir" /\ j = i /\ e = "." THEN i
            ELSE IF t.op = "mkdir" /\ j = i /\ e = ".." THEN d
            ELSE dents[j][e]
  <2>1. CASE t.op = "mkdir"
    <3>1. PICK d1, d2 : d1 = DirLink(dents, i, ".", i) /\ d2 = DirLink(d1, i, "..", d)
      OBVIOUS
    <3>2. "." \in Elements /\ ".." \in Elements
      BY DEF Elements, Dots
    <3>3. /\ d1 \in [Inums -> [Elements -> Pointers]]
          /\ \A j \in Inums, e \in Elements : d1[j][e] = IF j = i /\ e = "." THEN i ELSE dents[j][e]
      BY <1>3, <1>4, <3>1, <3>2 DEF DirLink
    <3>4. /\ d2 \in [Inums -> [Elements -> Pointers]]
          /\ \A j \in Inums, e \in Elements : d2[j][e] = IF j = i /\ e = ".." THEN d ELSE d1[j][e]
      BY <1>4, <3>1, <3>2, <3>3 DEF DirLink
    <3>5. dents' = DirLink(d2, d, t.name, i)
      BY <1>2, <2>1, <3>1
    <3>6. /\ dents' \in [Inums -> [Elements -> Pointers]]
          /\ \A j \in Inums, e \in Elements : dents'[j][e] = IF j = d /\ e = t.name THEN i ELSE d2[j][e]
      BY <1>3, <1>4, <3>4, <3>5 DEF DirLink
    <3>7. QED
      BY <2>1, <3>3, <3>4, <3>6
  <2>2. CASE t.op # "mkdir"
    BY <1>2, <1>3, <1>4, <2>2 DEF DirLink
  <2>3. QED
    BY <2>1, <2>2
<1>13. PICK x, k : x = [t EXCEPT !.dp = NONE] /\ k = IF t.op = "create" THEN "fopen" ELSE "made"
  OBVIOUS
<1>14. /\ x \in Locals /\ x.cur = NONE /\ x.ip = i /\ x.dp = NONE /\ x.put2 = NONE /\ x.op = t.op
       /\ x.name = t.name /\ x.rest = t.rest /\ x.new = t.new
  BY <1>1, <1>3, <1>4, <1>13 DEF Locals
<1>15. k \in Pcs /\ k \in {"fopen", "made"} /\ (k = "fopen" <=> t.op = "create")
  BY <1>13 DEF Pcs
<1>16. PICK u : u = Put(x, d, k)
  OBVIOUS
<1>17. /\ u \in Locals /\ u.pc = "put" /\ u.then = k /\ u.put = d /\ u.cur = NONE /\ u.ip = i /\ u.dp = NONE
       /\ u.put2 = NONE /\ u.op = t.op /\ u.name = t.name /\ u.rest = t.rest /\ u.new = t.new
  <2>1. d \in Pointers
    BY <1>4
  <2>2. QED
    BY <1>14, <1>15, <1>16, <2>1, PutLocals
<1>18. CallInv(u) /\ At(u) = k
  BY <1>4, <1>15, <1>17 DEF CallInv, OpAt, PointersAt, At, Putting, NameOps, LinkPlaces, ParentOps, CreateOps
<1>19. \A j \in Inums : /\ Held(u, j) = Held(t, j)
                        /\ HasLocked(u, j) <=> j = i
                        /\ HasLocked(t, j) <=> j = d
                        /\ Keeps(u, j) => Keeps(t, j)
  BY <1>1, <1>2, <1>3, <1>4, <1>15, <1>17, <1>18 DEF Held, Is, HasLocked, Keeps, NONE, Inums, CreateOps
<1>20. DiskMoves(p, u)
  <2>1. Moves(p, u)
    BY <1>2, <1>13, <1>16, <1>17 DEF Moves
  <2>2. LocksMoved(p, u)
    BY <1>1, <1>5, <1>11, <1>19 DEF LocksMoved, IInv, LockInv
  <2>3. CacheMoved
    <3>1. ASSUME NEW j \in Inums
          PROVE  /\ icache'[j].valid => icache'[j].node = dino'[j] /\ dino'[j].type # "free"
                 /\ icache'[j].lock # NOBODY => icache'[j].valid
      <4>1. CASE j = i
        BY <1>5, <1>7, <1>8, <1>11, <4>1
      <4>2. CASE j = d
        BY <1>5, <1>6, <1>8, <1>11, <4>2
      <4>3. CASE j # i /\ j # d
        BY <1>8, <1>11, <4>3 DEF IInv, CacheInv
      <4>4. QED
        BY <4>1, <4>2, <4>3
    <3>2. QED
      BY <3>1 DEF CacheMoved
  <2>4. NodesKept
    <3>1. \A j \in Inums : Len(dino[j].addrs) \in Nat
      BY <1>3 DEF Nodes
    <3>2. QED
      BY <1>6, <1>7, <1>8, <1>9, <3>1 DEF NodesKept
  <2>5. /\ \A j \in Inums : Nobodys(p, j) \/ (dino'[j].nlink = dino[j].nlink /\ dents'[j] = dents[j])
    <3>1. ASSUME NEW j \in Inums \ {i, d} PROVE dino'[j].nlink = dino[j].nlink /\ dents'[j] = dents[j]
      <4>1. \A e \in Elements : dents'[j][e] = dents[j][e]
        BY <1>12, <3>1
      <4>2. QED
        BY <1>3, <1>8, <1>12, <3>1, <4>1
    <3>2. QED
      BY <1>5, <3>1 DEF Nobodys
  <2>6. FoundAt(u, dents')
    BY <1>15, <1>17 DEF FoundAt
  <2>7. FreeNodes'
    BY <1>5, <1>6, <1>7, <1>8, <1>9 DEF FreeNodes, IInv
  <2>8. At(u) # "dead" /\ At(t) # "dead" /\ u.pc # "free"
    BY <1>2, <1>3, <1>15, <1>17, <1>18
  <2>9. \A j \in Inums : icache'[j].ref + Held(t, j) = icache[j].ref + Held(u, j)
    BY <1>11, <1>19
  <2>10. /\ (\A j \in Inums : Keeps(u, j) => Keeps(t, j)) /\ u.dp = NONE
         /\ used' \subseteq Blocks /\ BlocksOwned' /\ icache' \in Caches
         /\ dents' \in [Inums -> [Elements -> Pointers]] /\ dino' \in [Inums -> Nodes] /\ CallInv(u)
         /\ UNCHANGED <<ftable, ofile, cwd, calls>> /\ t = th[p]
    BY <1>1, <1>2, <1>9, <1>10, <1>11, <1>12, <1>17, <1>18, <1>19
  <2>11. QED
    BY <2>10, <2>1, <2>2, <2>3, <2>4, <2>5, <2>6, <2>7, <2>8, <2>9 DEF DiskMoves
<1>21. LinksFirst(p, u, i, d)
  <2>1. t = th[p] /\ t.pc = "link1" /\ t.ip = i /\ t.dp = d
    BY <1>1, <1>2
  <2>2. SameCall(th[p], u)
    BY <1>17, <2>1 DEF SameCall
  <2>3. /\ dino'[i].nlink = 1 /\ dino'[i].type = dino[i].type
        /\ dino'[d].nlink = dino[d].nlink + (IF u.op = "mkdir" THEN 1 ELSE 0) /\ dino'[d].type = dino[d].type
        /\ \A j \in Inums \ {i, d} : dino'[j] = dino[j]
    BY <1>6, <1>7, <1>8, <1>17
  <2>4. \A j \in Inums : /\ icache'[j].valid => icache[j].valid \/ j = i
                         /\ icache'[j].ref = icache[j].ref
    BY <1>11
  <2>5. \A j \in Inums, e \in Elements : dents'[j][e] =
            IF j = d /\ e = u.name THEN i
            ELSE IF u.op = "mkdir" /\ j = i /\ e = "." THEN i
            ELSE IF u.op = "mkdir" /\ j = i /\ e = ".." THEN d
            ELSE dents[j][e]
    BY <1>12, <1>17
  <2>6. QED
    BY <1>4, <1>5, <1>15, <1>17, <2>1, <2>2, <2>3, <2>4, <2>5 DEF LinksFirst
<1>22. QED
  BY <1>20, <1>21

\* p erases the entry of the inode i in the directory d.
Unlinks(p, u, i, d) ==
    /\ th[p].pc = "unlink1" /\ th[p].op = "unlink" /\ th[p].cur = NONE /\ th[p].ip = i /\ th[p].dp = d
    /\ SameCall(th[p], u) /\ u.pc = "put" /\ u.put = d /\ u.cur = NONE /\ u.ip = i /\ u.dp = NONE
    /\ u.put2 = NONE /\ u.then = "unlinked" /\ u.name \in Names
    /\ i \in Inums /\ d \in Inums /\ i # d /\ dents[d][u.name] = i
    /\ dino[i].type = "dir" => IsDirEmpty(i)
    /\ dino'[d].nlink = dino[d].nlink - (IF dino[i].type = "dir" THEN 1 ELSE 0) /\ dino'[d].type = dino[d].type
    /\ \A j \in Inums \ {d} : dino'[j] = dino[j]
    /\ \A j \in Inums, n \in Elements : dents'[j][n] = IF j = d /\ n = u.name THEN NONE ELSE dents[j][n]
    /\ \A j \in Inums : /\ icache'[j].valid => icache[j].valid \/ j = i
                        /\ icache'[j].ref = icache[j].ref

\* unlink() erases the entry.
LEMMA UnlinkErases ==
    ASSUME IInv, NEW p \in Procs, UnlinkEntry(p),
           ~(Node(th[p].ip).type = "dir" /\ ~IsDirEmpty(th[p].ip))
    PROVE  \E u, i, d : DiskMoves(p, u) /\ Unlinks(p, u, i, d)
<1>1. PICK t, i, d, m :
        /\ t = th[p] /\ i = t.ip /\ d = t.dp
        /\ m = [Node(d) EXCEPT !.nlink = IF Node(i).type = "dir" THEN @ - 1 ELSE @]
  OBVIOUS
<1>2. /\ t.pc = "unlink1" /\ CanLock(i) /\ UNCHANGED <<used, ftable, ofile, cwd, calls>>
      /\ dino' = [dino EXCEPT ![d] = m]
      /\ icache' = [Updated(Locked(i, p), d, m) EXCEPT ![d].lock = NOBODY]
      /\ dents' = DirLink(dents, d, t.name, NONE)
      /\ th' = [th EXCEPT ![p] = Put([t EXCEPT !.dp = NONE], d, "unlinked")]
  BY <1>1 DEF UnlinkEntry, files, IUpdate, Erased
<1>3. /\ th \in [Procs -> Locals] /\ t \in Locals /\ CallInv(t) /\ At(t) = t.pc /\ icache \in Caches
      /\ dino \in [Inums -> Nodes]
      /\ dents \in [Inums -> [Elements -> Pointers]] /\ used \subseteq Blocks /\ t.name \in Elements
  BY <1>1, <1>2, LocalsHere DEF At, Putting, IInv, TypeOK
<1>4. /\ t.cur = NONE /\ t.put = NONE /\ t.put2 = NONE /\ t.op = "unlink" /\ NONE \in Pointers
      /\ i \in Inums /\ i # NONE /\ i \in Pointers /\ d \in Inums /\ d # NONE /\ d \in Pointers
  BY <1>1, <1>2, <1>3, LocalsHere DEF CallInv, OpAt, PointersAt, At, Putting, NameOps, LinkPlaces, ParentOps, CreateOps
<1>5. /\ icache[i].lock = NOBODY /\ icache[d].lock = p /\ p # NOBODY /\ i # d
      /\ Node(i) = dino[i] /\ Node(d) = dino[d] /\ dino[i].type # "free" /\ dino[d].type # "free"
      /\ dino[i] \in Nodes /\ dino[d] \in Nodes /\ icache[d].valid
  BY <1>1, <1>2, <1>3, <1>4, NodeOnDisk, ProcsAssumption DEF IInv, LockInv, HasLocked, CanLock, CacheInv
<1>6. /\ m \in Nodes /\ m.type = dino[d].type /\ m.addrs = dino[d].addrs
      /\ m.nlink = dino[d].nlink - (IF dino[i].type = "dir" THEN 1 ELSE 0)
  BY <1>1, <1>5 DEF Nodes
<1>7. dents[d][t.name] = i /\ t.name \in Names
  BY <1>1, <1>2 DEF IInv, FoundInv
<1>8. /\ dino' \in [Inums -> Nodes] /\ dino'[d] = m /\ \A j \in Inums \ {d} : dino'[j] = dino[j]
  BY <1>2, <1>3, <1>4, <1>5, <1>6
<1>9. BlocksOwned' /\ used' \subseteq Blocks
  <2>1. \A j \in Inums : dino'[j].addrs = dino[j].addrs
    BY <1>6, <1>8
  <2>2. QED
    BY <1>2, <1>3, <2>1, BlocksStay DEF IInv
<1>10. dino[i].type = "dir" => IsDirEmpty(i)
  BY <1>1, <1>5
<1>11. /\ icache' \in Caches
       /\ \A j \in Inums : /\ icache'[j].ref = icache[j].ref
                           /\ icache'[j].lock = IF j = i THEN p ELSE IF j = d THEN NOBODY ELSE icache[j].lock
                           /\ icache'[j].valid <=> j = i \/ icache[j].valid
                           /\ icache'[j].node = IF j = i THEN dino[i] ELSE IF j = d THEN m ELSE icache[j].node
  <2>1. PICK c1 : c1 = Locked(i, p)
    OBVIOUS
  <2>2. /\ c1 \in Caches
        /\ \A j \in Inums : /\ c1[j].ref = icache[j].ref
                            /\ c1[j].lock = IF j = i THEN p ELSE icache[j].lock
                            /\ c1[j].valid <=> j = i \/ icache[j].valid
                            /\ c1[j].node = IF j = i THEN dino[i] ELSE icache[j].node
    BY <1>4, <2>1, LockedCache
  <2>3. PICK c2 : c2 = Updated(c1, d, m) /\ m \in Nodes
    BY <1>6
  <2>4. /\ c2 \in Caches
        /\ \A j \in Inums : /\ c2[j].ref = c1[j].ref /\ c2[j].lock = c1[j].lock /\ (c2[j].valid <=> c1[j].valid)
                            /\ c2[j].node = IF j = d THEN m ELSE c1[j].node
    BY <1>4, <2>2, <2>3, UpdatedCache
  <2>5. icache' = [c2 EXCEPT ![d].lock = NOBODY]
    BY <1>2, <2>1, <2>3
  <2>6. /\ icache' \in Caches
        /\ \A j \in Inums : /\ icache'[j].ref = c2[j].ref /\ (icache'[j].valid <=> c2[j].valid)
                            /\ icache'[j].lock = IF j = d THEN NOBODY ELSE c2[j].lock
                            /\ icache'[j].node = c2[j].node
    BY <1>4, <2>4, <2>5 DEF Caches
  <2>7. QED
    BY <1>5, <2>2, <2>4, <2>6
<1>12. /\ dents' \in [Inums -> [Elements -> Pointers]]
       /\ \A j \in Inums, e \in Elements : dents'[j][e] = IF j = d /\ e = t.name THEN NONE ELSE dents[j][e]
  BY <1>2, <1>3, <1>4 DEF DirLink
<1>13. PICK x, k : x = [t EXCEPT !.dp = NONE] /\ k = "unlinked"
  OBVIOUS
<1>14. /\ x \in Locals /\ x.cur = NONE /\ x.ip = i /\ x.dp = NONE /\ x.put2 = NONE /\ x.op = t.op
       /\ x.name = t.name /\ x.rest = t.rest /\ x.new = t.new
  BY <1>1, <1>3, <1>4, <1>13 DEF Locals
<1>15. k \in Pcs /\ k = "unlinked"
  BY <1>13 DEF Pcs
<1>16. PICK u : u = Put(x, d, k)
  OBVIOUS
<1>17. /\ u \in Locals /\ u.pc = "put" /\ u.then = k /\ u.put = d /\ u.cur = NONE /\ u.ip = i /\ u.dp = NONE
       /\ u.put2 = NONE /\ u.op = t.op /\ u.name = t.name /\ u.rest = t.rest /\ u.new = t.new
  <2>1. d \in Pointers
    BY <1>4
  <2>2. QED
    BY <1>14, <1>15, <1>16, <2>1, PutLocals
<1>18. CallInv(u) /\ At(u) = k
  BY <1>4, <1>15, <1>17 DEF CallInv, OpAt, PointersAt, At, Putting, NameOps, LinkPlaces, ParentOps, CreateOps
<1>19. \A j \in Inums : /\ Held(u, j) = Held(t, j)
                        /\ HasLocked(u, j) <=> j = i
                        /\ HasLocked(t, j) <=> j = d
                        /\ Keeps(u, j) => Keeps(t, j) \/ j = i
  BY <1>1, <1>2, <1>3, <1>4, <1>15, <1>17, <1>18 DEF Held, Is, HasLocked, Keeps, NONE, Inums, CreateOps
<1>20. DiskMoves(p, u)
  <2>1. Moves(p, u)
    BY <1>2, <1>13, <1>16, <1>17 DEF Moves
  <2>2. LocksMoved(p, u)
    BY <1>1, <1>5, <1>11, <1>19 DEF LocksMoved, IInv, LockInv
  <2>3. CacheMoved
    <3>1. ASSUME NEW j \in Inums
          PROVE  /\ icache'[j].valid => icache'[j].node = dino'[j] /\ dino'[j].type # "free"
                 /\ icache'[j].lock # NOBODY => icache'[j].valid
      <4>1. CASE j = i
        BY <1>5, <1>8, <1>11, <4>1
      <4>2. CASE j = d
        BY <1>5, <1>6, <1>8, <1>11, <4>2
      <4>3. CASE j # i /\ j # d
        BY <1>8, <1>11, <4>3 DEF IInv, CacheInv
      <4>4. QED
        BY <4>1, <4>2, <4>3
    <3>2. QED
      BY <3>1 DEF CacheMoved
  <2>4. NodesKept
    <3>1. \A j \in Inums : Len(dino[j].addrs) \in Nat
      BY <1>3 DEF Nodes
    <3>2. QED
      BY <1>6, <1>8, <3>1 DEF NodesKept
  <2>5. /\ \A j \in Inums : Nobodys(p, j) \/ (dino'[j].nlink = dino[j].nlink /\ dents'[j] = dents[j])
    <3>1. ASSUME NEW j \in Inums \ {i, d} PROVE dino'[j].nlink = dino[j].nlink /\ dents'[j] = dents[j]
      <4>1. \A e \in Elements : dents'[j][e] = dents[j][e]
        BY <1>12, <3>1
      <4>2. QED
        BY <1>3, <1>8, <1>12, <3>1, <4>1
    <3>2. QED
      BY <1>5, <3>1 DEF Nobodys
  <2>6. FoundAt(u, dents')
    BY <1>15, <1>17 DEF FoundAt
  <2>7. FreeNodes'
    BY <1>5, <1>6, <1>8 DEF FreeNodes, IInv
  <2>8. At(u) # "dead" /\ At(t) # "dead" /\ u.pc # "free"
    BY <1>2, <1>3, <1>15, <1>17, <1>18
  <2>9. \A j \in Inums : icache'[j].ref + Held(t, j) = icache[j].ref + Held(u, j)
    BY <1>11, <1>19
  <2>10. /\ u.dp = NONE
         /\ \A j \in Inums : Keeps(u, j) => Keeps(t, j) \/ (Nobodys(p, j) /\ dino'[j].type # "free")
         /\ used' \subseteq Blocks /\ BlocksOwned' /\ icache' \in Caches
         /\ dents' \in [Inums -> [Elements -> Pointers]] /\ dino' \in [Inums -> Nodes] /\ CallInv(u)
         /\ UNCHANGED <<ftable, ofile, cwd, calls>> /\ t = th[p]
    BY <1>1, <1>2, <1>5, <1>8, <1>9, <1>11, <1>12, <1>17, <1>18, <1>19 DEF Nobodys
  <2>11. QED
    BY <2>10, <2>1, <2>2, <2>3, <2>4, <2>5, <2>6, <2>7, <2>8, <2>9 DEF DiskMoves
<1>21. Unlinks(p, u, i, d)
  <2>1. t = th[p] /\ t.pc = "unlink1" /\ t.ip = i /\ t.dp = d
    BY <1>1, <1>2
  <2>2. SameCall(th[p], u)
    BY <1>17, <2>1 DEF SameCall
  <2>3. /\ dino'[d].nlink = dino[d].nlink - (IF dino[i].type = "dir" THEN 1 ELSE 0) /\ dino'[d].type = dino[d].type
        /\ \A j \in Inums \ {d} : dino'[j] = dino[j]
    BY <1>6, <1>8
  <2>4. \A j \in Inums : /\ icache'[j].valid => icache[j].valid \/ j = i
                         /\ icache'[j].ref = icache[j].ref
    BY <1>11
  <2>5. \A j \in Inums, e \in Elements : dents'[j][e] = IF j = d /\ e = u.name THEN NONE ELSE dents[j][e]
    BY <1>12, <1>17
  <2>6. QED
    BY <1>4, <1>5, <1>7, <1>10, <1>15, <1>17, <2>1, <2>2, <2>3, <2>4, <2>5 DEF Unlinks
<1>22. QED
  BY <1>20, <1>21

\* p takes a link away from i, and gives i up.
Drops(p, u, i) ==
    /\ th[p].pc \in {"unlinked", "linkbad"} /\ th[p].cur = NONE /\ th[p].ip = i /\ th[p].dp = NONE
    /\ th[p].pc = "linkbad" <=> th[p].op = "linkdir"
    /\ SameCall(th[p], u) /\ u.pc = "put" /\ u.put = i /\ u.cur = NONE /\ u.ip = NONE /\ u.dp = NONE
    /\ u.put2 = NONE /\ u.then = "idle"
    /\ i \in Inums /\ dino'[i].nlink = dino[i].nlink - 1 /\ dino'[i].type = dino[i].type
    /\ (\A j \in Inums \ {i} : dino'[j] = dino[j]) /\ dents' = dents
    /\ \A j \in Inums : /\ icache'[j].valid => icache[j].valid \/ j = i
                        /\ icache'[j].ref = icache[j].ref

\* unlink(), or a link() that failed, takes the link away.
LEMMA DropsLink ==
    ASSUME IInv, NEW p \in Procs, Unlinked(p) \/ LinkBad(p)
    PROVE  \E u, i : DiskMoves(p, u) /\ Drops(p, u, i)
<1>1. PICK t, i, n : t = th[p] /\ i = t.ip /\ n = [Node(i) EXCEPT !.nlink = @ - 1]
  OBVIOUS
<1>2. /\ t.pc \in {"unlinked", "linkbad"} /\ (t.pc = "linkbad" => CanLock(i))
      /\ UNCHANGED <<dents, used, ftable, ofile, cwd, calls>>
      /\ dino' = [dino EXCEPT ![i] = n]
      /\ icache' = Updated(Locked(i, NOBODY), i, n)
      /\ th' = [th EXCEPT ![p] = Put([t EXCEPT !.ip = NONE], i, "idle")]
  BY <1>1 DEF Unlinked, LinkBad, DropLink, files, IUpdate
<1>3. /\ th \in [Procs -> Locals] /\ t \in Locals /\ CallInv(t) /\ At(t) = t.pc /\ icache \in Caches
      /\ dino \in [Inums -> Nodes]
      /\ dents \in [Inums -> [Elements -> Pointers]] /\ used \subseteq Blocks /\ t.name \in Elements
  BY <1>1, <1>2, LocalsHere DEF At, Putting, IInv, TypeOK
<1>4. /\ t.cur = NONE /\ t.put = NONE /\ t.put2 = NONE /\ t.dp = NONE /\ NONE \in Pointers
      /\ i \in Inums /\ i # NONE /\ i \in Pointers
      /\ t.pc = "linkbad" <=> t.op = "linkdir"
  BY <1>1, <1>2, <1>3, LocalsHere DEF CallInv, OpAt, PointersAt, At, Putting, NameOps, LinkPlaces, ParentOps, CreateOps
<1>5. /\ icache[i].lock \in {p, NOBODY} /\ p # NOBODY
      /\ Node(i) = dino[i] /\ dino[i].type # "free" /\ dino[i] \in Nodes
  <2>1. p # NOBODY /\ Node(i) = dino[i] /\ dino[i] \in Nodes
    BY <1>4, NodeOnDisk, ProcsAssumption
  <2>2. CASE t.pc = "linkbad"
    BY <1>2, <2>1, <2>2 DEF CanLock
  <2>3. CASE t.pc = "unlinked"
    BY <1>1, <1>3, <1>4, <2>1, <2>3 DEF IInv, LockInv, HasLocked, CacheInv
  <2>4. QED
    BY <1>2, <2>1, <2>2, <2>3
<1>6. n \in Nodes /\ n.type = dino[i].type /\ n.addrs = dino[i].addrs /\ n.nlink = dino[i].nlink - 1
  BY <1>1, <1>5 DEF Nodes
<1>7. dino' \in [Inums -> Nodes] /\ dino'[i] = n /\ \A j \in Inums \ {i} : dino'[j] = dino[j]
  BY <1>2, <1>3, <1>4, <1>6
<1>8. BlocksOwned' /\ used' \subseteq Blocks
  <2>1. \A j \in Inums : dino'[j].addrs = dino[j].addrs
    BY <1>6, <1>7
  <2>2. QED
    BY <1>2, <1>3, <2>1, BlocksStay DEF IInv
<1>9. /\ icache' \in Caches
      /\ \A j \in Inums : /\ icache'[j].ref = icache[j].ref
                          /\ icache'[j].lock = IF j = i THEN NOBODY ELSE icache[j].lock
                          /\ icache'[j].valid <=> j = i \/ icache[j].valid
                          /\ icache'[j].node = IF j = i THEN n ELSE icache[j].node
  <2>1. PICK c1 : c1 = Locked(i, NOBODY)
    OBVIOUS
  <2>2. /\ c1 \in Caches
        /\ \A j \in Inums : /\ c1[j].ref = icache[j].ref
                            /\ c1[j].lock = IF j = i THEN NOBODY ELSE icache[j].lock
                            /\ c1[j].valid <=> j = i \/ icache[j].valid
                            /\ c1[j].node = IF j = i THEN dino[i] ELSE icache[j].node
    BY <1>4, <2>1, LockedCache
  <2>3. icache' = Updated(c1, i, n) /\ n \in Nodes
    BY <1>2, <1>6, <2>1
  <2>4. /\ icache' \in Caches
        /\ \A j \in Inums : /\ icache'[j].ref = c1[j].ref /\ icache'[j].lock = c1[j].lock
                            /\ icache'[j].valid <=> c1[j].valid
                            /\ icache'[j].node = IF j = i THEN n ELSE c1[j].node
    BY <1>4, <2>2, <2>3, UpdatedCache
  <2>5. QED
    BY <2>2, <2>4
<1>10. PICK x : x = [t EXCEPT !.ip = NONE]
  OBVIOUS
<1>11. /\ x \in Locals /\ x.cur = NONE /\ x.ip = NONE /\ x.dp = NONE /\ x.put2 = NONE /\ x.op = t.op
       /\ x.name = t.name /\ x.rest = t.rest /\ x.new = t.new
  BY <1>1, <1>3, <1>4, <1>10 DEF Locals
<1>12. PICK u : u = Put(x, i, "idle")
  OBVIOUS
<1>13. /\ u \in Locals /\ u.pc = "put" /\ u.then = "idle" /\ u.put = i /\ u.cur = NONE /\ u.ip = NONE
       /\ u.dp = NONE /\ u.put2 = NONE /\ u.op = t.op /\ u.name = t.name /\ u.rest = t.rest /\ u.new = t.new
  <2>1. i \in Pointers /\ "idle" \in Pcs
    BY <1>4, GoesOnAt
  <2>2. QED
    BY <1>11, <1>12, <2>1, PutLocals
<1>14. CallInv(u) /\ At(u) = "idle"
  BY <1>4, <1>13 DEF CallInv, OpAt, PointersAt, At, Putting, NameOps, LinkPlaces, ParentOps, CreateOps
<1>15. \A j \in Inums : /\ Held(u, j) = Held(t, j)
                        /\ ~HasLocked(u, j)
                        /\ HasLocked(t, j) => j = i
                        /\ ~Keeps(u, j)
  BY <1>1, <1>2, <1>3, <1>4, <1>13, <1>14 DEF Held, Is, HasLocked, Keeps, NONE, Inums
<1>16. DiskMoves(p, u)
  <2>1. Moves(p, u)
    BY <1>2, <1>10, <1>12, <1>13 DEF Moves
  <2>2. LocksMoved(p, u)
    BY <1>1, <1>5, <1>9, <1>15 DEF LocksMoved, IInv, LockInv
  <2>3. CacheMoved
    BY <1>5, <1>6, <1>7, <1>9 DEF CacheMoved, IInv, CacheInv
  <2>4. NodesKept
    <3>1. \A j \in Inums : Len(dino[j].addrs) \in Nat
      BY <1>3 DEF Nodes
    <3>2. QED
      BY <1>6, <1>7, <3>1 DEF NodesKept
  <2>5. \A j \in Inums : Nobodys(p, j) \/ (dino'[j].nlink = dino[j].nlink /\ dents'[j] = dents[j])
    BY <1>2, <1>5, <1>7 DEF Nobodys
  <2>6. FoundAt(u, dents')
    BY <1>13 DEF FoundAt
  <2>7. FreeNodes'
    BY <1>5, <1>6, <1>7 DEF FreeNodes, IInv
  <2>8. At(u) # "dead" /\ At(t) # "dead" /\ u.pc # "free"
    BY <1>2, <1>3, <1>13, <1>14
  <2>9. \A j \in Inums : icache'[j].ref + Held(t, j) = icache[j].ref + Held(u, j)
    BY <1>9, <1>15
  <2>10. /\ (\A j \in Inums : ~Keeps(u, j)) /\ u.dp = NONE
         /\ used' \subseteq Blocks /\ BlocksOwned' /\ icache' \in Caches
         /\ dents' \in [Inums -> [Elements -> Pointers]] /\ dino' \in [Inums -> Nodes] /\ CallInv(u)
         /\ UNCHANGED <<ftable, ofile, cwd, calls>> /\ t = th[p]
    BY <1>1, <1>2, <1>3, <1>7, <1>8, <1>9, <1>13, <1>14, <1>15
  <2>11. QED
    BY <2>10, <2>1, <2>2, <2>3, <2>4, <2>5, <2>6, <2>7, <2>8, <2>9 DEF DiskMoves
<1>17. Drops(p, u, i)
  <2>1. t = th[p] /\ t.ip = i
    BY <1>1
  <2>2. QED
    BY <1>2, <1>4, <1>6, <1>7, <1>9, <1>13, <2>1 DEF Drops, SameCall
<1>18. QED
  BY <1>16, <1>17

\* p gives the file i a link and goes on to the new name.
AddsLink(p, u, i) ==
    /\ th[p].pc = "link" /\ th[p].op = "link" /\ th[p].cur = NONE /\ th[p].ip = i /\ th[p].dp = NONE
    /\ u.op = "linkdir" /\ u.pc \in {"walk", "put"} \cup NameOps /\ At(u) # "unlinked"
    /\ u.rest \in {th[p].rest, th[p].new.elems} /\ u.new = th[p].new /\ u.name = th[p].name
    /\ u.ip = i /\ u.dp = NONE
    /\ \A j \in Inums : PointsIn(u, j) \/ Held(u, j) # 0 => PointsIn(th[p], j) \/ Known(p, j)
    /\ i \in Inums /\ dino[i].type # "dir" /\ dino[i].type # "free"
    /\ dino'[i].nlink = dino[i].nlink + 1 /\ dino'[i].type = dino[i].type
    /\ (\A j \in Inums \ {i} : dino'[j] = dino[j]) /\ dents' = dents
    /\ \A j \in Inums : icache'[j].valid => icache[j].valid \/ j = i

\* link() of a file.
LEMMA LinkAdds ==
    ASSUME IInv, NEW p \in Procs, Link(p), Linkable(Node(th[p].ip))
    PROVE  \E u, i : DiskMoves(p, u) /\ AddsLink(p, u, i)
<1>1. PICK t, i, n, s, y : /\ t = th[p] /\ i = t.ip /\ n = [Node(i) EXCEPT !.nlink = @ + 1]
                           /\ s = Start(p, t.new) /\ y = [t EXCEPT !.op = "linkdir"]
  OBVIOUS
<1>2. /\ t.pc = "link" /\ CanLock(i) /\ Node(i).type # "dir"
      /\ UNCHANGED <<dents, used, ftable, ofile, cwd, calls>>
      /\ dino' = [dino EXCEPT ![i] = n]
      /\ icache' = IGet(Updated(Locked(i, NOBODY), i, n), s)
      /\ th' = [th EXCEPT ![p] = Walking(y, s, t.new.elems)]
  BY <1>1 DEF Link, AddLink, files, IUpdate, Linkable, Linked
<1>3. /\ th \in [Procs -> Locals] /\ t \in Locals /\ CallInv(t) /\ At(t) = t.pc /\ icache \in Caches
      /\ dino \in [Inums -> Nodes]
      /\ dents \in [Inums -> [Elements -> Pointers]] /\ used \subseteq Blocks
      /\ t.new.abs \in BOOLEAN /\ t.new.elems \in Seq(Elements)
  BY <1>1, <1>2, LocalsHere DEF At, Putting, IInv, TypeOK, Paths
<1>4. /\ t.cur = NONE /\ t.put = NONE /\ t.put2 = NONE /\ t.dp = NONE /\ NONE \in Pointers
      /\ i \in Inums /\ i # NONE /\ i \in Pointers /\ t.op = "link"
  BY <1>1, <1>2, <1>3, LocalsHere DEF CallInv, OpAt, PointersAt, At, Putting, NameOps, LinkPlaces, ParentOps, CreateOps
<1>5. /\ icache[i].lock = NOBODY /\ dino[i].type # "dir"
      /\ Node(i) = dino[i] /\ dino[i].type # "free" /\ dino[i] \in Nodes
  BY <1>2, <1>4, NodeOnDisk DEF CanLock
<1>6. n \in Nodes /\ n.type = dino[i].type /\ n.addrs = dino[i].addrs /\ n.nlink = dino[i].nlink + 1
  BY <1>1, <1>5 DEF Nodes
<1>7. dino' \in [Inums -> Nodes] /\ dino'[i] = n /\ \A j \in Inums \ {i} : dino'[j] = dino[j]
  BY <1>2, <1>3, <1>4, <1>6
<1>8. BlocksOwned' /\ used' \subseteq Blocks
  <2>1. \A j \in Inums : dino'[j].addrs = dino[j].addrs
    BY <1>6, <1>7
  <2>2. QED
    BY <1>2, <1>3, <2>1, BlocksStay DEF IInv
<1>9. s \in Inums /\ s \in {cwd[p], ROOTINO}
  <2>1. cwd[p] \in Inums
    BY <1>1, <1>2, <1>3, LocalsHere DEF IInv, DeadInv
  <2>2. QED
    BY <1>1, <1>3, <2>1, RootInum DEF Start
<1>10. /\ icache' \in Caches
       /\ \A j \in Inums : /\ icache'[j].ref = icache[j].ref + Is(s, j)
                           /\ icache'[j].lock = icache[j].lock
                           /\ icache'[j].valid <=> (j = i \/ icache[j].valid) /\ (j = s => icache[j].ref > 0)
                           /\ icache'[j].node = IF j = i THEN n ELSE icache[j].node
  <2>1. PICK c1 : c1 = Locked(i, NOBODY)
    OBVIOUS
  <2>2. /\ c1 \in Caches
        /\ \A j \in Inums : /\ c1[j].ref = icache[j].ref
                            /\ c1[j].lock = IF j = i THEN NOBODY ELSE icache[j].lock
                            /\ c1[j].valid <=> j = i \/ icache[j].valid
                            /\ c1[j].node = IF j = i THEN dino[i] ELSE icache[j].node
    BY <1>4, <2>1, LockedCache
  <2>3. PICK c2 : c2 = Updated(c1, i, n) /\ n \in Nodes
    BY <1>6
  <2>4. /\ c2 \in Caches
        /\ \A j \in Inums : /\ c2[j].ref = c1[j].ref /\ c2[j].lock = c1[j].lock
                            /\ c2[j].valid <=> c1[j].valid
                            /\ c2[j].node = IF j = i THEN n ELSE c1[j].node
    BY <1>4, <2>2, <2>3, UpdatedCache
  <2>5. icache' = IGet(c2, s)
    BY <1>2, <2>1, <2>3
  <2>6. /\ icache' \in Caches
        /\ \A j \in Inums : /\ icache'[j].ref = IF j = s THEN c2[j].ref + 1 ELSE c2[j].ref
                            /\ icache'[j].lock = c2[j].lock /\ icache'[j].node = c2[j].node
                            /\ icache'[j].valid <=> c2[j].valid /\ (j = s => c2[j].ref > 0)
    BY <1>9, <2>4, <2>5, IGetCache
  <2>7. \A j \in Inums : icache[j].ref \in Nat
    BY <1>3 DEF Caches
  <2>8. \A j \in Inums : icache'[j].ref = icache[j].ref + Is(s, j)
    BY <2>2, <2>4, <2>6, <2>7 DEF Is
  <2>9. QED
    BY <1>5, <2>2, <2>4, <2>6, <2>8
<1>11. PICK u : u = Walking(y, s, t.new.elems)
  OBVIOUS
<1>12. /\ y \in Locals /\ y.op = "linkdir" /\ y.cur = NONE /\ y.ip = i /\ y.dp = NONE /\ y.put = NONE
       /\ y.put2 = NONE /\ y.rest = t.rest /\ y.new = t.new /\ y.name = t.name
  BY <1>1, <1>3, <1>4 DEF Locals, ParentOps
<1>13. Walker(y)
  BY <1>4, <1>12 DEF Walker, ParentOps
<1>14. Walked(y, s, t.new.elems, u)
  BY <1>3, <1>9, <1>11, <1>13, WalkingTo
<1>15. \A j \in Inums : /\ Held(y, j) = Held(t, j) /\ Held(t, j) \in Nat /\ Is(s, j) \in Nat
                        /\ ~HasLocked(t, j)
                        /\ Keeps(y, j) => j = i
                        /\ icache[j].ref \in Nat
  BY <1>1, <1>2, <1>3, <1>4, <1>12 DEF Held, Is, HasLocked, Keeps, NONE, Inums, Caches
<1>16. /\ u \in Locals /\ CallInv(u) /\ u.dp = NONE /\ u.op = "linkdir" /\ u.ip = i
       /\ At(u) \notin {"dead", "dropdir", "unlinked"} /\ u.pc \in {"walk", "put"} \cup NameOps
       /\ u.rest \in {t.new.elems, t.rest} /\ u.new = t.new /\ u.name = t.name
       /\ \A j \in Inums : /\ Held(u, j) = Held(t, j) + Is(s, j) /\ ~HasLocked(u, j)
                           /\ Keeps(u, j) => j = i
                           /\ PointsIn(u, j) => PointsIn(y, j) \/ j = s
  BY <1>12, <1>14, <1>15 DEF Walked
<1>17. DiskMoves(p, u)
  <2>1. Moves(p, u)
    BY <1>2, <1>11, <1>16 DEF Moves
  <2>2. LocksMoved(p, u)
    BY <1>1, <1>10, <1>15, <1>16 DEF LocksMoved, IInv, LockInv
  <2>3. CacheMoved
    BY <1>5, <1>6, <1>7, <1>10, PointerRef DEF CacheMoved, IInv, CacheInv
  <2>4. NodesKept
    <3>1. \A j \in Inums : Len(dino[j].addrs) \in Nat
      BY <1>3 DEF Nodes
    <3>2. QED
      BY <1>6, <1>7, <3>1 DEF NodesKept
  <2>5. \A j \in Inums : Nobodys(p, j) \/ (dino'[j].nlink = dino[j].nlink /\ dents'[j] = dents[j])
    BY <1>2, <1>5, <1>7 DEF Nobodys
  <2>6. FoundAt(u, dents')
    BY <1>16 DEF FoundAt, At, NameOps
  <2>7. FreeNodes'
    BY <1>5, <1>6, <1>7 DEF FreeNodes, IInv
  <2>8. At(u) # "dead" /\ At(t) # "dead" /\ u.pc # "free"
    BY <1>2, <1>3, <1>16 DEF NameOps
  <2>9. \A j \in Inums : icache'[j].ref + Held(t, j) = icache[j].ref + Held(u, j)
    BY <1>10, <1>15, <1>16
  <2>10. /\ \A j \in Inums : Keeps(u, j) => Keeps(t, j) \/ (Nobodys(p, j) /\ dino'[j].type # "free")
         /\ used' \subseteq Blocks /\ BlocksOwned' /\ icache' \in Caches /\ u.dp = NONE
         /\ dents' \in [Inums -> [Elements -> Pointers]] /\ dino' \in [Inums -> Nodes] /\ CallInv(u)
         /\ UNCHANGED <<ftable, ofile, cwd, calls>> /\ t = th[p]
    BY <1>1, <1>2, <1>3, <1>5, <1>6, <1>7, <1>8, <1>10, <1>16 DEF Nobodys
  <2>11. QED
    BY <2>10, <2>1, <2>2, <2>3, <2>4, <2>5, <2>6, <2>7, <2>8, <2>9 DEF DiskMoves
<1>18. AddsLink(p, u, i)
  <2>1. t = th[p] /\ t.ip = i
    BY <1>1
  <2>2. ASSUME NEW j \in Inums, PointsIn(u, j) \/ Held(u, j) # 0 PROVE PointsIn(t, j) \/ Known(p, j)
    <3>1. PointsIn(y, j) => PointsIn(t, j)
      BY <1>4, <1>12, <2>1 DEF PointsIn
    <3>2. Held(t, j) # 0 => PointsIn(t, j)
      BY <1>4, <2>1 DEF PointsIn, Held, Is, NONE, Inums
    <3>3. Held(u, j) # 0 => Held(t, j) # 0 \/ j = s
      BY <1>15, <1>16 DEF Is
    <3>4. j = s => Known(p, j)
      BY <1>9 DEF Known
    <3>5. QED
      BY <1>16, <2>2, <3>1, <3>2, <3>3, <3>4
  <2>3. QED
    BY <1>2, <1>4, <1>5, <1>6, <1>7, <1>10, <1>16, <2>1, <2>2 DEF AddsLink
<1>19. QED
  BY <1>17, <1>18

\* p writes the new link to i in the directory d.
LinksMore(p, u, i, d) ==
    /\ th[p].pc = "linkdir" /\ th[p].op = "linkdir" /\ th[p].cur = NONE /\ th[p].ip = i /\ th[p].dp = d
    /\ SameCall(th[p], u) /\ u.pc = "put" /\ u.put = d /\ u.put2 = i /\ u.cur = NONE /\ u.ip = NONE
    /\ u.dp = NONE /\ u.then = "idle"
    /\ i \in Inums /\ d \in Inums /\ dents[d][u.name] = NONE /\ dino' = dino
    /\ \A j \in Inums, n \in Elements : dents'[j][n] = IF j = d /\ n = u.name THEN i ELSE dents[j][n]
    /\ \A j \in Inums : /\ icache'[j].valid => icache[j].valid \/ j = d
                        /\ icache'[j].ref = icache[j].ref

\* link() writes the new entry.
LEMMA LinkDirNew ==
    ASSUME IInv, NEW p \in Procs, LinkDir(p), DirLookup(th[p].dp, th[p].name) = NONE
    PROVE  \E u, i, d : DiskMoves(p, u) /\ LinksMore(p, u, i, d)
<1>1. PICK t, i, d : t = th[p] /\ i = t.ip /\ d = t.dp
  OBVIOUS
<1>2. /\ t.pc = "linkdir" /\ CanLock(d) /\ UNCHANGED <<dino, used, ftable, ofile, cwd, calls>>
      /\ dents[d][t.name] = NONE
      /\ icache' = Locked(d, NOBODY)
      /\ dents' = DirLink(dents, d, t.name, i)
      /\ th' = [th EXCEPT ![p] = Put([t EXCEPT !.ip = NONE, !.dp = NONE, !.put2 = i], d, "idle")]
  BY <1>1 DEF LinkDir, files, DirLookup
<1>3. /\ th \in [Procs -> Locals] /\ t \in Locals /\ CallInv(t) /\ At(t) = t.pc /\ icache \in Caches
      /\ dino \in [Inums -> Nodes]
      /\ dents \in [Inums -> [Elements -> Pointers]] /\ used \subseteq Blocks /\ t.name \in Elements
  BY <1>1, <1>2, LocalsHere DEF At, Putting, IInv, TypeOK
<1>4. /\ t.cur = NONE /\ t.put = NONE /\ t.put2 = NONE /\ t.op = "linkdir" /\ NONE \in Pointers
      /\ i \in Inums /\ i # NONE /\ i \in Pointers /\ d \in Inums /\ d # NONE /\ d \in Pointers
  BY <1>1, <1>2, <1>3, LocalsHere DEF CallInv, OpAt, PointersAt, At, Putting, NameOps, LinkPlaces, ParentOps, CreateOps
<1>5. icache[d].lock = NOBODY /\ p # NOBODY /\ dino[d].type # "free"
  BY <1>2, <1>4, NodeOnDisk, ProcsAssumption DEF CanLock
<1>6. /\ icache' \in Caches
      /\ \A j \in Inums : /\ icache'[j].ref = icache[j].ref
                          /\ icache'[j].lock = icache[j].lock
                          /\ icache'[j].valid <=> j = d \/ icache[j].valid
                          /\ icache'[j].node = IF j = d THEN dino[d] ELSE icache[j].node
  BY <1>2, <1>4, <1>5, LockedCache
<1>7. /\ dents' \in [Inums -> [Elements -> Pointers]]
      /\ \A j \in Inums, e \in Elements : dents'[j][e] = IF j = d /\ e = t.name THEN i ELSE dents[j][e]
  BY <1>2, <1>3, <1>4 DEF DirLink
<1>8. PICK x : x = [t EXCEPT !.ip = NONE, !.dp = NONE, !.put2 = i]
  OBVIOUS
<1>9. /\ x \in Locals /\ x.cur = NONE /\ x.ip = NONE /\ x.dp = NONE /\ x.put2 = i /\ x.op = t.op
      /\ x.name = t.name /\ x.rest = t.rest /\ x.new = t.new
  BY <1>1, <1>3, <1>4, <1>8 DEF Locals
<1>10. PICK u : u = Put(x, d, "idle")
  OBVIOUS
<1>11. /\ u \in Locals /\ u.pc = "put" /\ u.then = "idle" /\ u.put = d /\ u.cur = NONE /\ u.ip = NONE
       /\ u.dp = NONE /\ u.put2 = i /\ u.op = t.op /\ u.name = t.name /\ u.rest = t.rest /\ u.new = t.new
  <2>1. d \in Pointers /\ "idle" \in Pcs
    BY <1>4, GoesOnAt
  <2>2. QED
    BY <1>9, <1>10, <2>1, PutLocals
<1>12. CallInv(u) /\ At(u) = "idle"
  BY <1>4, <1>11 DEF CallInv, OpAt, PointersAt, At, Putting, NameOps, LinkPlaces, ParentOps, CreateOps
<1>13. \A j \in Inums : /\ Held(u, j) = Held(t, j)
                        /\ ~HasLocked(u, j) /\ ~HasLocked(t, j)
                        /\ ~Keeps(u, j)
  BY <1>1, <1>2, <1>3, <1>4, <1>11, <1>12 DEF Held, Is, HasLocked, Keeps, NONE, Inums
<1>14. DiskMoves(p, u)
  <2>1. Moves(p, u)
    BY <1>2, <1>8, <1>10, <1>11 DEF Moves
  <2>2. LocksMoved(p, u)
    BY <1>1, <1>6, <1>13 DEF LocksMoved, IInv, LockInv
  <2>3. CacheMoved
    BY <1>2, <1>5, <1>6 DEF CacheMoved, IInv, CacheInv
  <2>4. NodesKept
    <3>1. \A j \in Inums : Len(dino[j].addrs) \in Nat
      BY <1>3 DEF Nodes
    <3>2. QED
      BY <1>2, <3>1 DEF NodesKept
  <2>5. \A j \in Inums : Nobodys(p, j) \/ (dino'[j].nlink = dino[j].nlink /\ dents'[j] = dents[j])
    <3>1. ASSUME NEW j \in Inums \ {d} PROVE dents'[j] = dents[j]
      <4>1. \A e \in Elements : dents'[j][e] = dents[j][e]
        BY <1>7, <3>1
      <4>2. QED
        BY <1>3, <1>7, <3>1, <4>1
    <3>2. QED
      BY <1>2, <1>5, <3>1 DEF Nobodys
  <2>6. FoundAt(u, dents')
    BY <1>11 DEF FoundAt
  <2>7. FreeNodes' /\ BlocksOwned'
    BY <1>2, BlocksStay DEF FreeNodes, IInv
  <2>8. At(u) # "dead" /\ At(t) # "dead" /\ u.pc # "free"
    BY <1>2, <1>3, <1>11, <1>12
  <2>9. \A j \in Inums : icache'[j].ref + Held(t, j) = icache[j].ref + Held(u, j)
    BY <1>6, <1>13
  <2>10. /\ (\A j \in Inums : ~Keeps(u, j)) /\ u.dp = NONE
         /\ used' \subseteq Blocks /\ icache' \in Caches
         /\ dents' \in [Inums -> [Elements -> Pointers]] /\ dino' \in [Inums -> Nodes] /\ CallInv(u)
         /\ UNCHANGED <<ftable, ofile, cwd, calls>> /\ t = th[p]
    BY <1>1, <1>2, <1>3, <1>6, <1>7, <1>11, <1>12, <1>13
  <2>11. QED
    BY <2>10, <2>1, <2>2, <2>3, <2>4, <2>5, <2>6, <2>7, <2>8, <2>9 DEF DiskMoves
<1>15. LinksMore(p, u, i, d)
  <2>1. t = th[p] /\ t.ip = i /\ t.dp = d
    BY <1>1
  <2>2. QED
    BY <1>2, <1>4, <1>6, <1>7, <1>11, <2>1 DEF LinksMore, SameCall
<1>16. QED
  BY <1>14, <1>15

-----------------------------------------------------------------------------
(* The steps that change open files and current directories, and iput()     *)
(* when it frees the inode.                                                 *)

\* What the whole invariant asks of a step of p.
WholeMoves(p, u) ==
    /\ Moves(p, u) /\ OwnCwd(p) /\ CallInv(u)
    /\ dino' \in [Inums -> Nodes] /\ dents' \in [Inums -> [Elements -> Pointers]]
    /\ used' \subseteq Blocks /\ icache' \in Caches /\ calls' \in 0..MaxCalls
    /\ ftable' \in [Files -> [ref : Nat, ip : Pointers, off : 0..MAXFILE, writable : BOOLEAN]]
    /\ ofile' \in [Procs -> [Fds -> Files \cup {NONE}]]
    /\ \A i \in Inums : RefsMoved(p, u, i)
    /\ \A f \in Files : ftable'[f].ref = Cardinality(Descriptors(f))'
    /\ LocksMoved(p, u) /\ CacheMoved /\ FreeNodes' /\ KeptInv' /\ FilesInv'
    /\ FreeingMoved(p, u) /\ FoundMoved(p, u) /\ BlocksOwned'
    /\ \A q \in Procs \ {p} : ofile'[q] = ofile[q]
    /\ cwd'[p] = NONE <=> At(u) = "dead"
    /\ At(u) = "dead" => \A fd \in Fds : ofile'[p][fd] = NONE

\* Such a step keeps the invariant.
LEMMA WholeStep ==
    ASSUME IInv, NEW p, NEW u, WholeMoves(p, u)
    PROVE  IInv'
<1>1. /\ TypeOK /\ RefsCounted /\ LockInv /\ CacheInv /\ FreeNodes /\ KeptInv /\ FilesInv
      /\ FreeingInv /\ FoundInv /\ BlocksOwned
      /\ (\A q \in Procs : CallInv(th[q])) /\ (\A q \in Procs : DeadInv(q))
  BY DEF IInv
<1>2. /\ Moves(p, u) /\ OwnCwd(p) /\ icache' \in Caches /\ LocksMoved(p, u) /\ CacheMoved /\ CallInv(u)
      /\ FreeingMoved(p, u) /\ FoundMoved(p, u)
      /\ \A i \in Inums : RefsMoved(p, u, i)
      /\ \A f \in Files : ftable'[f].ref = Cardinality(Descriptors(f))'
  BY DEF WholeMoves
<1>3. TypeOK'
  BY <1>1, <1>2, MovesOne DEF TypeOK, WholeMoves, OwnCwd
<1>4. RefsCounted'
  <2>1. \A i \in Inums : icache'[i].ref = Cardinality({q \in Procs : cwd'[q] = i})
                              + Cardinality(OpenFiles(i)') + HeldByCalls(i)'
    BY <1>1, <1>2, RefsStep
  <2>2. QED
    BY <1>2, <2>1 DEF RefsCounted
<1>5. LockInv' /\ CacheInv' /\ FreeingInv' /\ FoundInv'
  BY <1>1, <1>2, LockStep, FreeingStep, FoundStep DEF CacheInv, CacheMoved
<1>6. \A q \in Procs : CallInv(th[q])'
  BY <1>1, <1>2, CallsStep
<1>7. \A q \in Procs : DeadInv(q)'
  <2>1. ASSUME NEW q \in Procs
        PROVE  /\ cwd'[q] = NONE <=> At(th'[q]) = "dead"
               /\ At(th'[q]) = "dead" => \A fd \in Fds : ofile'[q][fd] = NONE
    <3>1. CASE q = p
      BY <1>1, <1>2, <3>1, MovesOne DEF WholeMoves
    <3>2. CASE q # p
      <4>1. th'[q] = th[q] /\ ofile'[q] = ofile[q] /\ cwd'[q] = cwd[q]
        BY <1>1, <1>2, <3>2, MovesOne DEF WholeMoves, OwnCwd
      <4>2. QED
        BY <1>1, <4>1 DEF DeadInv
    <3>3. QED
      BY <3>1, <3>2
  <2>2. QED
    BY <2>1 DEF DeadInv, At, Putting
<1>8. QED
  BY <1>3, <1>4, <1>5, <1>6, <1>7 DEF IInv, WholeMoves

\* p frees the inode i.
Frees(p, u, i) ==
    /\ th[p].pc = "free" /\ th[p].put = i /\ i \in Inums
    /\ SameCall(th[p], u) /\ u.pc = "deref" /\ u.cur = th[p].cur /\ u.ip = th[p].ip /\ u.dp = th[p].dp
    /\ u.put = i /\ u.put2 = th[p].put2 /\ u.then = th[p].then
    /\ dino[i].type # "free" /\ dino' = [dino EXCEPT ![i] = Free] /\ dents' = [dents EXCEPT ![i] = NoDents]
    /\ Moves(p, u) /\ UNCHANGED <<ftable, cwd>>
    /\ \A j \in Inums : /\ icache'[j].valid => icache[j].valid /\ j # i
                        /\ icache'[j].ref = icache[j].ref

\* The blocks of the inode that is freed are no longer marked.
LEMMA BlocksFreed ==
    ASSUME IInv, NEW i \in Inums, dino' = [dino EXCEPT ![i] = Free],
           used' = used \ Range(dino[i].addrs)
    PROVE  BlocksOwned'
<1>1. dino \in [Inums -> Nodes] /\ BlocksOwned /\ dino[i].addrs \in Seq(Blocks)
      /\ Len(dino[i].addrs) <= MAXFILE + 1 /\ MAXFILE \in Nat
  BY SizeAssumption DEF IInv, TypeOK, Nodes, FreeNodes
<1>2. dino'[i].addrs = <<>> /\ DOMAIN <<>> = {} /\ \A j \in Inums \ {i} : dino'[j].addrs = dino[j].addrs
  BY <1>1 DEF Free
<1>3. Owned' = {x \in Owned : x[1] # i}
  <2>1. Owned' = {x \in Inums \X (1..(MAXFILE + 1)) : x[2] \in DOMAIN dino'[x[1]].addrs}
    BY DEF Owned
  <2>2. ASSUME NEW x \in Inums \X (1..(MAXFILE + 1)) PROVE x \in Owned' <=> x \in Owned /\ x[1] # i
    BY <1>2, <2>1 DEF Owned
  <2>3. QED
    BY <2>1, <2>2 DEF Owned
<1>4. \A x \in Owned' : BlockAt(x)' = BlockAt(x) /\ x \in Owned
  BY <1>2, <1>3 DEF Owned, BlockAt
<1>5. Range(dino[i].addrs) = {BlockAt(x) : x \in {y \in Owned : y[1] = i}}
  <2>1. ASSUME NEW k \in DOMAIN dino[i].addrs
        PROVE  <<i, k>> \in Owned /\ BlockAt(<<i, k>>) = dino[i].addrs[k]
    BY <1>1, <2>1 DEF Owned, BlockAt
  <2>2. ASSUME NEW x \in Owned, x[1] = i PROVE BlockAt(x) = dino[i].addrs[x[2]] /\ x[2] \in DOMAIN dino[i].addrs
    BY <2>2 DEF Owned, BlockAt
  <2>3. ASSUME NEW b \in Range(dino[i].addrs) PROVE \E x \in Owned : x[1] = i /\ BlockAt(x) = b
    <3>1. PICK k \in DOMAIN dino[i].addrs : b = dino[i].addrs[k]
      BY <2>3 DEF Range
    <3>2. QED
      BY <2>1, <3>1
  <2>4. ASSUME NEW x \in Owned, x[1] = i PROVE BlockAt(x) \in Range(dino[i].addrs)
    BY <2>2, <2>4 DEF Range
  <2>5. QED
    BY <2>3, <2>4
<1>6. used = {BlockAt(x) : x \in Owned} /\ \A x, y \in Owned : BlockAt(x) = BlockAt(y) => x = y
  BY <1>1 DEF BlocksOwned
<1>7. used' = {BlockAt(x) : x \in Owned'}
  BY <1>3, <1>5, <1>6
<1>8. used' = {BlockAt(x)' : x \in Owned'} /\ \A x, y \in Owned' : BlockAt(x)' = BlockAt(y)' => x = y
  BY <1>4, <1>6, <1>7
<1>9. QED
  BY <1>8 DEF BlocksOwned

\* itrunc() frees all the blocks of an inode: the direct ones, the listed ones and
\* the indirect block.
LEMMA TruncFrees ==
    ASSUME NEW n \in Nodes, Len(n.addrs) <= MAXFILE + 1
    PROVE  Direct(n) \cup Listed(n) \cup Indirect(n) = Range(n.addrs)
<1>1. n.addrs \in Seq(Blocks) /\ NDIRECT \in Nat /\ MAXFILE \in Nat
  BY SizeAssumption DEF Nodes
<1>2. ASSUME NEW k \in DOMAIN n.addrs
      PROVE  k \in 1..NDIRECT \/ k \in (NDIRECT + 2)..(MAXFILE + 1) \/ k \in {NDIRECT + 1}
  BY <1>1
<1>3. QED
  BY <1>2 DEF Direct, Listed, Indirect, BlocksOf, Range

\* iput() frees the inode.
LEMMA PutFreeFrees ==
    ASSUME IInv, NEW p \in Procs, PutFree(p)
    PROVE  \E u, i : WholeMoves(p, u) /\ Frees(p, u, i)
<1>1. PICK t, i, u : t = th[p] /\ i = t.put /\ u = [t EXCEPT !.pc = "deref"]
  OBVIOUS
<1>2. /\ t.pc = "free" /\ UNCHANGED <<ftable, ofile, cwd, calls>>
      /\ used' = ITrunc(i) /\ dents' = [dents EXCEPT ![i] = NoDents]
      /\ icache' = Freed(i) /\ dino' = [dino EXCEPT ![i] = Free]
  BY <1>1 DEF PutFree, files, IUpdate
<1>3. /\ th \in [Procs -> Locals] /\ t \in Locals /\ CallInv(t) /\ At(t) = t.then /\ icache \in Caches
      /\ calls \in 0..MaxCalls /\ Putting(t) /\ dino \in [Inums -> Nodes]
      /\ dents \in [Inums -> [Elements -> Pointers]] /\ used \subseteq Blocks /\ cwd \in [Procs -> Pointers]
      /\ ftable \in [Files -> [ref : Nat, ip : Pointers, off : 0..MAXFILE, writable : BOOLEAN]]
      /\ ofile \in [Procs -> [Fds -> Files \cup {NONE}]]
  BY <1>1, <1>2, LocalsHere DEF At, Putting, IInv, TypeOK
<1>4. th' = [th EXCEPT ![p] = u]
  BY <1>1, <1>3 DEF PutFree
<1>5. i \in Inums /\ i # NONE /\ p # NOBODY
  BY <1>1, <1>2, <1>3, LocalsHere, ProcsAssumption DEF CallInv, PointersAt, Putting
<1>6. /\ icache[i].lock = p /\ icache[i].valid /\ icache[i].node = dino[i] /\ dino[i].type # "free"
  BY <1>1, <1>2, <1>5 DEF IInv, LockInv, HasLocked, CacheInv
<1>7. /\ dino[i].nlink = 0 /\ OpenFiles(i) = {}
      /\ \A q \in Procs : cwd[q] # i /\ ~Keeps(th[q], i)
  BY <1>1, <1>2 DEF IInv, FreeingInv
<1>8. /\ u \in Locals /\ u.pc = "deref" /\ u.cur = t.cur /\ u.ip = t.ip /\ u.dp = t.dp /\ u.put = i
      /\ u.put2 = t.put2 /\ u.op = t.op /\ u.rest = t.rest /\ u.new = t.new /\ u.name = t.name
      /\ u.then = t.then
  BY <1>1, <1>3 DEF Locals, Pcs
<1>9. Putting(u) /\ At(u) = At(t) /\ CallInv(u)
  <2>1. Putting(u) /\ At(u) = t.then
    BY <1>8 DEF At, Putting
  <2>2. QED
    BY <1>1, <1>3, <1>8, <2>1 DEF CallInv, OpAt, PointersAt
<1>10. \A j \in Inums : /\ Held(u, j) = Held(t, j) /\ Held(t, j) \in Nat
                        /\ Keeps(u, j) <=> Keeps(t, j)
                        /\ HasLocked(u, j) => HasLocked(t, j)
                        /\ j # i => (HasLocked(u, j) <=> HasLocked(t, j))
  BY <1>1, <1>3, <1>8, <1>9 DEF Held, Is, Keeps, HasLocked
<1>11. ~HasLocked(u, i)
  BY <1>1, <1>5, <1>7, <1>8, <1>9 DEF HasLocked, Keeps
<1>12. Free \in Nodes /\ Free.type = "free" /\ Free.nlink = 0 /\ Len(Free.addrs) = 0
  <2>1. <<>> \in Seq(Blocks) /\ Len(<<>>) = 0
    OBVIOUS
  <2>2. QED
    BY <2>1 DEF Free, Nodes
<1>13. /\ icache' \in Caches
       /\ \A j \in Inums : /\ icache'[j].ref = icache[j].ref
                           /\ icache'[j].lock = IF j = i THEN NOBODY ELSE icache[j].lock
                           /\ icache'[j].valid <=> j # i /\ icache[j].valid
                           /\ j # i => icache'[j].node = icache[j].node
  <2>1. PICK r : r = [icache[i] EXCEPT !.node = Free, !.valid = FALSE, !.lock = NOBODY]
    OBVIOUS
  <2>2. icache' = [icache EXCEPT ![i] = r]
    BY <1>2, <1>3, <1>5, <2>1 DEF Freed, Caches
  <2>3. PICK x, n : x = icache[i] /\ n = Free /\ n \in Nodes /\ x \in [ref : Nat, valid : BOOLEAN, lock : Procs \cup {NOBODY}, node : Nodes]
    BY <1>3, <1>5, <1>12 DEF Caches
  <2>4. r = [x EXCEPT !.node = n, !.valid = FALSE, !.lock = NOBODY]
    BY <2>1, <2>3
  <2>5. /\ r \in [ref : Nat, valid : BOOLEAN, lock : Procs \cup {NOBODY}, node : Nodes]
        /\ r.ref = x.ref /\ r.lock = NOBODY /\ r.valid = FALSE
    BY <2>3, <2>4
  <2>6. QED
    BY <1>3, <1>5, <2>2, <2>3, <2>5 DEF Caches
<1>14. /\ dino' \in [Inums -> Nodes] /\ dino'[i] = Free /\ \A j \in Inums \ {i} : dino'[j] = dino[j]
  BY <1>2, <1>3, <1>5, <1>12
<1>15. /\ dents' \in [Inums -> [Elements -> Pointers]] /\ \A j \in Inums \ {i} : dents'[j] = dents[j]
  <2>1. NoDents \in [Elements -> Pointers]
    BY DEF NoDents, Pointers
  <2>2. QED
    BY <1>2, <1>3, <1>5, <2>1
<1>16. Moves(p, u) /\ OwnCwd(p)
  BY <1>2, <1>3, <1>4, <1>8 DEF Moves, OwnCwd
<1>17. \A j : OpenFiles(j)' = OpenFiles(j)
  BY <1>2 DEF OpenFiles
<1>18. ASSUME NEW j \in Inums PROVE RefsMoved(p, u, j)
  <2>1. icache'[j].ref + Held(t, j) = icache[j].ref + Held(u, j)
    BY <1>10, <1>13
  <2>2. PICK c, o : c = Is(cwd[p], j) /\ o = Cardinality(OpenFiles(j))
    OBVIOUS
  <2>3. c = Is(cwd'[p], j) /\ o = Cardinality(OpenFiles(j)')
    BY <1>2, <1>17, <2>2
  <2>4. RefsMoved(p, u, j) <=> icache'[j].ref + Held(t, j) + c + o = icache[j].ref + Held(u, j) + c + o
    BY <1>1, <2>2, <2>3 DEF RefsMoved
  <2>5. QED
    BY <2>1, <2>4
<1>19. \A f \in Files : ftable'[f].ref = Cardinality(Descriptors(f))'
  BY <1>2, SameDescriptors DEF IInv
<1>20. LocksMoved(p, u) /\ CacheMoved
  <2>1. LocksMoved(p, u)
    BY <1>1, <1>5, <1>6, <1>10, <1>11, <1>13 DEF LocksMoved, IInv, LockInv
  <2>2. CacheMoved
    BY <1>13, <1>14 DEF CacheMoved, IInv, CacheInv
  <2>3. QED
    BY <2>1, <2>2
<1>21. FreeNodes'
  <2>1. \A j \in Inums : dino[j].type = "free" => dino[j] = Free
    BY DEF IInv, FreeNodes
  <2>2. \A j \in Inums : Len(dino'[j].addrs) <= MAXFILE + 1
    BY <1>12, <1>14, SizeAssumption DEF IInv, FreeNodes
  <2>3. QED
    BY <1>14, <2>1, <2>2 DEF FreeNodes
<1>22. ASSUME NEW q \in Procs
       PROVE  /\ cwd'[q] = cwd[q] /\ th'[q].dp = th[q].dp
              /\ \A j \in Inums : Keeps(th'[q], j) <=> Keeps(th[q], j)
  BY <1>1, <1>2, <1>3, <1>4, <1>8, <1>10
<1>23. KeptInv'
  <2>1. ASSUME NEW q \in Procs, cwd[q] # NONE PROVE dino'[cwd[q]].type = "dir"
    <3>1. cwd[q] \in Inums /\ cwd[q] # i /\ dino[cwd[q]].type = "dir"
      BY <1>7, <2>1, LocalsHere DEF IInv, KeptInv
    <3>2. QED
      BY <1>14, <3>1
  <2>2. ASSUME NEW q \in Procs, th[q].dp # NONE PROVE dino'[th[q].dp].type = "dir"
    <3>1. th[q].dp \in Inums /\ th[q].dp # i /\ dino[th[q].dp].type = "dir"
      BY <1>7, <2>2, LocalsHere DEF IInv, KeptInv, Keeps
    <3>2. QED
      BY <1>14, <3>1
  <2>3. ASSUME NEW q \in Procs, NEW j \in Inums, Keeps(th[q], j) PROVE dino'[j].type # "free"
    <3>1. j # i /\ dino[j].type # "free"
      BY <1>7, <2>3 DEF IInv, KeptInv
    <3>2. QED
      BY <1>14, <3>1
  <2>4. /\ \A q \in Procs : cwd'[q] # NONE => dino'[cwd'[q]].type = "dir"
        /\ \A q \in Procs : th'[q].dp # NONE => dino'[th'[q].dp].type = "dir"
        /\ \A q \in Procs, j \in Inums : Keeps(th'[q], j) => dino'[j].type # "free"
    BY <1>22, <2>1, <2>2, <2>3
  <2>5. QED
    BY <2>4 DEF KeptInv, Keeps, At, Putting
<1>24. FilesInv'
  <2>1. ASSUME NEW f \in Files, ftable[f].ref > 0
        PROVE  /\ ftable[f].ip # NONE /\ dino'[ftable[f].ip].type # "free"
               /\ ftable[f].off <= Len(dino'[ftable[f].ip].addrs)
    <3>1. /\ ftable[f].ip # NONE /\ dino[ftable[f].ip].type # "free"
          /\ ftable[f].off <= Len(dino[ftable[f].ip].addrs)
      BY <2>1 DEF IInv, FilesInv
    <3>2. ftable[f].ip \in Inums
      BY <1>3, <3>1 DEF Pointers
    <3>3. ftable[f].ip # i
      BY <1>7, <2>1 DEF OpenFiles
    <3>4. QED
      BY <1>14, <3>1, <3>2, <3>3
  <2>2. QED
    BY <1>2, <2>1 DEF FilesInv
<1>25. FreeingMoved(p, u)
  <2>1. \A j \in Inums : Nobodys(p, j) \/ dino'[j].nlink = dino[j].nlink
    BY <1>6, <1>14 DEF Nobodys
  <2>2. u.pc # "free"
    BY <1>8
  <2>3. \A j \in Inums : /\ Keeps(u, j) => Keeps(th[p], j)
                         /\ cwd'[p] = j => cwd[p] = j
    BY <1>1, <1>2, <1>10
  <2>4. QED
    BY <1>17, <2>1, <2>2, <2>3 DEF FreeingMoved
<1>26. FoundMoved(p, u)
  <2>1. FoundAt(t, dents)
    BY <1>1 DEF IInv, FoundInv, FoundAt
  <2>2. ASSUME Putting(u) /\ u.then = "dropdir" PROVE dents'[u.dp][u.name] = u.put
    <3>1. t.dp \in Inums /\ t.dp # i
      <4>1. t.dp # NONE
        BY <1>3, <1>8, <2>2 DEF CallInv, PointersAt
      <4>2. QED
        BY <1>1, <1>7, <4>1, LocalsHere DEF Keeps
    <3>2. dents[t.dp][t.name] = i
      BY <1>1, <1>3, <1>8, <2>1, <2>2 DEF FoundAt
    <3>3. QED
      BY <1>8, <1>15, <3>1, <3>2
  <2>3. FoundAt(u, dents')
    BY <1>8, <2>2 DEF FoundAt
  <2>4. QED
    BY <1>6, <1>15, <2>3 DEF FoundMoved, Nobodys
<1>27. BlocksOwned' /\ used' \subseteq Blocks
  <2>1. used' = used \ Range(dino[i].addrs)
    BY <1>2, <1>3, <1>5, <1>6, TruncFrees DEF ITrunc, IInv, FreeNodes
  <2>2. QED
    BY <1>2, <1>3, <1>5, <2>1, BlocksFreed
<1>28. /\ cwd'[p] = NONE <=> At(u) = "dead"
       /\ At(u) = "dead" => \A fd \in Fds : ofile'[p][fd] = NONE
  BY <1>1, <1>2, <1>9 DEF IInv, DeadInv
<1>29. WholeMoves(p, u)
  <2>1. /\ calls' \in 0..MaxCalls
        /\ ftable' \in [Files -> [ref : Nat, ip : Pointers, off : 0..MAXFILE, writable : BOOLEAN]]
        /\ ofile' \in [Procs -> [Fds -> Files \cup {NONE}]]
        /\ \A q \in Procs \ {p} : ofile'[q] = ofile[q]
    BY <1>2, <1>3
  <2>2. QED
    BY <2>1, <1>9, <1>13, <1>14, <1>15, <1>16, <1>18, <1>19, <1>20, <1>21, <1>23, <1>24, <1>25, <1>26,
       <1>27, <1>28 DEF WholeMoves
<1>30. Frees(p, u, i)
  <2>1. t = th[p] /\ t.put = i
    BY <1>1
  <2>2. QED
    BY <1>2, <1>5, <1>6, <1>8, <1>13, <1>16, <2>1 DEF Frees, SameCall
<1>31. QED
  BY <1>29, <1>30

\* Two finite sets that differ in x only.
DifferIn(S, T, x) ==
    IsFiniteSet(S) /\ IsFiniteSet(T) /\ \A y : y # x => (y \in S <=> y \in T)

\* Their cardinalities differ by one at most.
LEMMA DifferCount ==
    ASSUME NEW S, NEW T, NEW x, DifferIn(S, T, x)
    PROVE  /\ Cardinality(S) \in Nat /\ Cardinality(T) \in Nat
           /\ Cardinality(T) + (IF x \in S THEN 1 ELSE 0) = Cardinality(S) + (IF x \in T THEN 1 ELSE 0)
<1>1. /\ IsFiniteSet(S) /\ IsFiniteSet(T) /\ \A y : y # x => (y \in S <=> y \in T)
  BY DEF DifferIn
<1>2. Cardinality(S) \in Nat /\ Cardinality(T) \in Nat
  BY <1>1, FS_CardinalityType
<1>3. CASE x \in S <=> x \in T
  <2>1. S = T
    BY <1>1, <1>3
  <2>2. QED
    BY <1>2, <1>3, <2>1
<1>4. CASE x \in S /\ x \notin T
  <2>1. T = S \ {x}
    BY <1>1, <1>4
  <2>2. Cardinality(T) = Cardinality(S) - 1
    BY <1>1, <1>4, <2>1, FS_RemoveElement
  <2>3. QED
    BY <1>2, <1>4, <2>2
<1>5. CASE x \notin S /\ x \in T
  <2>1. T = S \cup {x}
    BY <1>1, <1>5
  <2>2. Cardinality(T) = Cardinality(S) + 1
    BY <1>1, <1>5, <2>1, FS_AddElement
  <2>3. QED
    BY <1>2, <1>5, <2>2
<1>6. QED
  BY <1>3, <1>4, <1>5

\* The descriptors are finitely many.
LEMMA DescriptorsFinite ==
    /\ IsFiniteSet(Procs \X Fds) /\ IsFiniteSet(Fds) /\ Fds \in SUBSET Nat
    /\ \A f : IsFiniteSet(Descriptors(f)) /\ Cardinality(Descriptors(f)) \in Nat
    /\ \A f : IsFiniteSet(Descriptors(f)') /\ Cardinality(Descriptors(f)') \in Nat
<1>1. NOFILE \in Nat
  BY SizeAssumption
<1>2. IsFiniteSet(Fds) /\ Fds \in SUBSET Nat
  BY <1>1, FS_Interval DEF Fds
<1>3. IsFiniteSet(Procs \X Fds)
  BY <1>2, ProcsAssumption, FS_Product
<1>4. \A f : Descriptors(f) \in SUBSET (Procs \X Fds) /\ Descriptors(f)' \in SUBSET (Procs \X Fds)
  BY DEF Descriptors
<1>5. QED
  BY <1>2, <1>3, <1>4, FS_Subset, FS_CardinalityType

\* The descriptor fd of p becomes v.
SetsFd(p, fd, v) == p \in Procs /\ fd \in Fds /\ ofile' = [ofile EXCEPT ![p][fd] = v]

\* The count of descriptors when one of them changes.
LEMMA DescriptorCount ==
    ASSUME TypeOK, NEW p, NEW fd, NEW v, SetsFd(p, fd, v), NEW f
    PROVE  Cardinality(Descriptors(f)') + Is(ofile[p][fd], f) = Cardinality(Descriptors(f)) + Is(v, f)
<1>1. /\ ofile \in [Procs -> [Fds -> Files \cup {NONE}]] /\ p \in Procs /\ fd \in Fds
      /\ ofile' = [ofile EXCEPT ![p][fd] = v]
  BY DEF TypeOK, SetsFd
<1>2. \A x \in Procs \X Fds : ofile'[x[1]][x[2]] = IF x = <<p, fd>> THEN v ELSE ofile[x[1]][x[2]]
  BY <1>1
<1>3. PICK S, T, x : S = Descriptors(f) /\ T = Descriptors(f)' /\ x = <<p, fd>>
  OBVIOUS
<1>4. /\ S = {y \in Procs \X Fds : ofile[y[1]][y[2]] = f} /\ T = {y \in Procs \X Fds : ofile'[y[1]][y[2]] = f}
      /\ x \in Procs \X Fds /\ x[1] = p /\ x[2] = fd
  BY <1>1, <1>3 DEF Descriptors
<1>5. /\ x \in S <=> ofile[p][fd] = f
      /\ x \in T <=> v = f
  BY <1>2, <1>3, <1>4
<1>6. DifferIn(S, T, x)
  <2>1. \A y : y # x => (y \in S <=> y \in T)
    BY <1>2, <1>3, <1>4
  <2>2. QED
    BY <1>3, <2>1, DescriptorsFinite DEF DifferIn
<1>7. Cardinality(T) + (IF x \in S THEN 1 ELSE 0) = Cardinality(S) + (IF x \in T THEN 1 ELSE 0)
  BY <1>6, DifferCount
<1>8. QED
  BY <1>3, <1>5, <1>7 DEF Is

\* A file with a descriptor is open.
LEMMA DescriptorRef ==
    ASSUME IInv, NEW p \in Procs, NEW fd \in Fds, ofile[p][fd] # NONE
    PROVE  /\ ofile[p][fd] \in Files /\ ftable[ofile[p][fd]].ref \in Nat /\ ftable[ofile[p][fd]].ref > 0
           /\ ftable[ofile[p][fd]].ip \in Inums
           /\ ofile[p][fd] \in OpenFiles(ftable[ofile[p][fd]].ip)
<1>1. PICK f : f = ofile[p][fd]
  OBVIOUS
<1>2. f \in Files /\ ftable[f].ref \in Nat
  BY <1>1 DEF IInv, TypeOK
<1>3. <<p, fd>> \in Descriptors(f)
  BY <1>1 DEF Descriptors
<1>4. Cardinality(Descriptors(f)) # 0
  BY <1>3, DescriptorsFinite, FS_EmptySet
<1>5. ftable[f].ref > 0
  BY <1>2, <1>4 DEF IInv, RefsCounted
<1>6. ftable[f].ip \in Inums
  BY <1>2, <1>5 DEF IInv, TypeOK, FilesInv, Pointers
<1>7. QED
  BY <1>1, <1>2, <1>5, <1>6 DEF OpenFiles

\* The open files of an inode when one entry of the table changes.
LEMMA OpenFilesCount ==
    ASSUME NEW f \in Files,
           \A g \in Files \ {f} : ftable'[g].ref = ftable[g].ref /\ ftable'[g].ip = ftable[g].ip,
           NEW i
    PROVE  Cardinality(OpenFiles(i)') + (IF f \in OpenFiles(i) THEN 1 ELSE 0)
             = Cardinality(OpenFiles(i)) + (IF f \in OpenFiles(i)' THEN 1 ELSE 0)
<1>1. PICK S, T : S = OpenFiles(i) /\ T = OpenFiles(i)'
  OBVIOUS
<1>2. \A y : y # f => (y \in S <=> y \in T)
  BY <1>1 DEF OpenFiles
<1>3. DifferIn(S, T, f)
  BY <1>1, <1>2, OpenFilesFinite DEF DifferIn
<1>4. QED
  BY <1>1, <1>3, DifferCount

\* The table of open files has this type.
FileTable == [Files -> [ref : Nat, ip : Pointers, off : 0..MAXFILE, writable : BOOLEAN]]

\* The step of p changes open files, its descriptors, its current directory and
\* its locals; it ends with no inode that it keeps.
FilesMoves(p, u) ==
    /\ Moves(p, u) /\ OwnCwd(p) /\ UNCHANGED <<dino, dents, used>>
    /\ icache' \in Caches /\ calls' \in 0..MaxCalls
    /\ ftable' \in FileTable /\ ofile' \in [Procs -> [Fds -> Files \cup {NONE}]]
    /\ CallInv(u) /\ u.dp = NONE /\ u.pc \notin {"free", "unlink1"} /\ At(u) # "dropdir"
    /\ \A i \in Inums : ~Keeps(u, i)
    /\ \A i \in Inums : RefsMoved(p, u, i)
    /\ \A f \in Files : ftable'[f].ref = Cardinality(Descriptors(f))'
    /\ LocksMoved(p, u) /\ CacheMoved
    /\ cwd'[p] # NONE => cwd'[p] = cwd[p] \/ dino[cwd'[p]].type = "dir"
    /\ FilesInv'
    /\ \A i \in Inums : /\ cwd'[p] = i => Nobodys(p, i) \/ \E q \in Procs : cwd[q] = i
                        /\ OpenFiles(i)' # {} => Nobodys(p, i) \/ OpenFiles(i) # {}
    /\ \A q \in Procs \ {p} : ofile'[q] = ofile[q]
    /\ cwd'[p] = NONE <=> At(u) = "dead"
    /\ At(u) = "dead" => \A fd \in Fds : ofile'[p][fd] = NONE

\* Such a step keeps the invariant.
LEMMA FilesWhole ==
    ASSUME IInv, NEW p, NEW u, FilesMoves(p, u)
    PROVE  WholeMoves(p, u)
<1>1. TypeOK /\ KeptInv /\ FreeNodes /\ BlocksOwned
  BY DEF IInv
<1>2. Moves(p, u) /\ OwnCwd(p) /\ UNCHANGED <<dino, dents, used>>
  BY DEF FilesMoves
<1>3. NodesKept
  <2>1. \A j \in Inums : Len(dino[j].addrs) \in Nat
    BY <1>1 DEF TypeOK, Nodes
  <2>2. QED
    BY <1>2, <2>1 DEF NodesKept
<1>4. KeepsMoved(p, u)
  BY <1>2 DEF FilesMoves, KeepsMoved
<1>5. KeptInv'
  BY <1>1, <1>2, <1>3, <1>4, KeptStep
<1>6. FreeNodes' /\ BlocksOwned'
  BY <1>1, <1>2, BlocksStay DEF FreeNodes
<1>7. FreeingMoved(p, u)
  BY <1>2 DEF FilesMoves, FreeingMoved
<1>8. FoundMoved(p, u)
  BY <1>2 DEF FilesMoves, FoundMoved, FoundAt, At
<1>9. dino' \in [Inums -> Nodes] /\ dents' \in [Inums -> [Elements -> Pointers]] /\ used' \subseteq Blocks
  BY <1>1, <1>2 DEF TypeOK
<1>10. QED
  BY <1>5, <1>6, <1>7, <1>8, <1>9 DEF FilesMoves, WholeMoves, FileTable

\* What such a step means for the tree of directories: p has no pointers but
\* those that iput() was given, and comes to know no inode it did not know.
FilesModest(p, u) ==
    /\ PathInv => PathOk(u)
    /\ \A i \in Inums :
         /\ ~PointsIn(u, i) /\ ~Owes(th[p], i) /\ ~Fresh(p, i)
         /\ cwd'[p] = i => PointsIn(th[p], i) \/ \E q \in Procs : cwd[q] = i
         /\ OpenFiles(i)' # {} => PointsIn(th[p], i) \/ OpenFiles(i) # {}
         /\ Held(u, i) # 0 => Held(th[p], i) # 0 \/ cwd[p] = i \/ OpenFiles(i) # {}
         /\ icache'[i].valid => icache[i].valid \/ PointsIn(th[p], i) \/ OpenFiles(i) # {}

\* open() takes a descriptor and an entry of the file table.
LEMMA FOpenFiles ==
    ASSUME IInv, NEW p \in Procs, FOpen(p), ~(FreeFiles = {} \/ FreeFds(p) = {})
    PROVE  \E u : FilesMoves(p, u) /\ FilesModest(p, u)
<1>1. PICK t, i, f, fd, u : t = th[p] /\ i = t.ip /\ f = Min(FreeFiles) /\ fd = Min(FreeFds(p)) /\ u = Idle
  OBVIOUS
<1>2. PICK w : w = (t.op # "open")
  OBVIOUS
<1>3. /\ t.pc = "fopen" /\ UNCHANGED <<dino, dents, used, cwd, calls>>
      /\ icache' = [icache EXCEPT ![i].lock = NOBODY]
      /\ ftable' = [ftable EXCEPT ![f] = [ref |-> 1, ip |-> i, off |-> 0, writable |-> w]]
      /\ ofile' = [ofile EXCEPT ![p][fd] = f]
      /\ th' = [th EXCEPT ![p] = u]
  BY <1>1, <1>2 DEF FOpen, disk
<1>4. /\ th \in [Procs -> Locals] /\ t \in Locals /\ CallInv(t) /\ At(t) = "fopen" /\ icache \in Caches
      /\ calls \in 0..MaxCalls /\ cwd \in [Procs -> Pointers] /\ ftable \in FileTable
      /\ ofile \in [Procs -> [Fds -> Files \cup {NONE}]] /\ TypeOK /\ MAXFILE \in Nat
  BY <1>1, <1>3, LocalsHere, SizeAssumption DEF At, Putting, IInv, TypeOK, FileTable
<1>5. /\ t.cur = NONE /\ t.dp = NONE /\ t.put = NONE /\ t.put2 = NONE /\ t.op \in {"open", "openw", "create"}
      /\ i \in Inums /\ i # NONE /\ i \in Pointers /\ w \in BOOLEAN
  BY <1>1, <1>2, <1>3, <1>4, LocalsHere DEF CallInv, OpAt, PointersAt, At, Putting, NameOps, LinkPlaces, ParentOps, CreateOps
<1>6. f \in Files /\ ftable[f].ref = 0
  <2>1. FreeFiles \in SUBSET Nat
    BY OpenFilesFinite DEF FreeFiles
  <2>2. QED
    BY <1>1, <2>1, Least DEF FreeFiles
<1>7. fd \in Fds /\ ofile[p][fd] = NONE
  <2>1. FreeFds(p) \in SUBSET Nat
    BY DescriptorsFinite DEF FreeFds
  <2>2. QED
    BY <1>1, <2>1, Least DEF FreeFds
<1>8. /\ HasLocked(t, i) /\ icache[i].lock = p /\ dino[i].type # "free" /\ LocksOne(p, i, NOBODY, NONE)
  <2>1. HasLocked(t, i)
    BY <1>1, <1>4 DEF HasLocked
  <2>2. LocksOne(p, i, NOBODY, NONE)
    BY <1>1, <1>3, <1>5, <2>1, UnlockedOne
  <2>3. icache[i].lock = p
    BY <1>1, <1>5, <2>1 DEF IInv, LockInv
  <2>4. QED
    BY <2>1, <2>2, <2>3 DEF LocksOne
<1>9. /\ ftable' \in FileTable /\ ftable'[f].ref = 1 /\ ftable'[f].ip = i /\ ftable'[f].off = 0
      /\ \A g \in Files \ {f} : ftable'[g] = ftable[g]
  <2>1. [ref |-> 1, ip |-> i, off |-> 0, writable |-> w] \in [ref : Nat, ip : Pointers, off : 0..MAXFILE, writable : BOOLEAN]
    BY <1>4, <1>5
  <2>2. QED
    BY <1>3, <1>4, <1>6, <2>1 DEF FileTable
<1>10. /\ ofile' \in [Procs -> [Fds -> Files \cup {NONE}]] /\ \A q \in Procs \ {p} : ofile'[q] = ofile[q]
  BY <1>3, <1>4, <1>6, <1>7
<1>11. /\ u \in Locals /\ CallInv(u) /\ At(u) = "idle" /\ u.dp = NONE /\ u.pc = "idle"
       /\ \A j \in Inums : ~HasLocked(u, j) /\ ~Keeps(u, j) /\ Held(u, j) = 0 /\ ~PointsIn(u, j)
  <2>1. u.cur = NONE /\ u.ip = NONE /\ u.dp = NONE /\ u.pc = "idle"
    BY <1>1 DEF Idle
  <2>2. QED
    BY <1>1, <2>1, IdleLocals DEF PointsIn, NONE, Inums
<1>12. \A j \in Inums : Held(t, j) = Is(i, j) /\ (HasLocked(t, j) <=> j = i)
  BY <1>1, <1>3, <1>4, <1>5 DEF Held, Is, HasLocked, NONE, Inums
<1>13. \A j : /\ f \in OpenFiles(j)' <=> j = i
              /\ f \notin OpenFiles(j)
  BY <1>6, <1>9 DEF OpenFiles
<1>14. ASSUME NEW j \in Inums PROVE RefsMoved(p, u, j)
  <2>1. Cardinality(OpenFiles(j)') + (IF f \in OpenFiles(j) THEN 1 ELSE 0)
             = Cardinality(OpenFiles(j)) + (IF f \in OpenFiles(j)' THEN 1 ELSE 0)
    BY <1>6, <1>9, OpenFilesCount
  <2>2. PICK o, o2 \in Nat : o = Cardinality(OpenFiles(j)) /\ o2 = Cardinality(OpenFiles(j)')
    BY OpenFilesFinite
  <2>3. o2 = o + Is(i, j)
    BY <1>13, <2>1, <2>2 DEF Is
  <2>4. icache'[j].ref = icache[j].ref /\ icache[j].ref \in Nat
    BY <1>4, <1>8 DEF LocksOne, Is, NONE, Inums, Caches
  <2>5. PICK c \in Nat : c = Is(cwd[p], j) /\ c = Is(cwd'[p], j)
    BY <1>3 DEF Is
  <2>6. Is(i, j) \in Nat
    BY DEF Is
  <2>7. RefsMoved(p, u, j) <=> icache[j].ref + Is(i, j) + c + o = icache[j].ref + 0 + c + o2
    BY <1>1, <1>11, <1>12, <2>2, <2>4, <2>5 DEF RefsMoved
  <2>8. QED
    BY <2>3, <2>4, <2>6, <2>7
<1>15. ASSUME NEW g \in Files PROVE ftable'[g].ref = Cardinality(Descriptors(g))'
  <2>1. Cardinality(Descriptors(g)') + Is(NONE, g) = Cardinality(Descriptors(g)) + Is(f, g)
    <3>1. TypeOK /\ SetsFd(p, fd, f)
      BY <1>3, <1>4, <1>7 DEF SetsFd
    <3>2. Cardinality(Descriptors(g)') + Is(ofile[p][fd], g) = Cardinality(Descriptors(g)) + Is(f, g)
      BY <3>1, DescriptorCount
    <3>3. QED
      BY <1>7, <3>2
  <2>2. PICK k, l \in Nat : k = Cardinality(Descriptors(g)) /\ l = Cardinality(Descriptors(g)')
    BY DescriptorsFinite
  <2>3. ftable[g].ref = k
    BY <2>2 DEF IInv, RefsCounted
  <2>4. NONE # g
    BY SizeAssumption DEF NONE, Files
  <2>5. l = k + Is(f, g)
    BY <2>1, <2>2, <2>4 DEF Is
  <2>6. QED
    BY <1>6, <1>9, <2>2, <2>3, <2>5 DEF Is
<1>16. LocksMoved(p, u)
  BY <1>1, <1>8, <1>11, <1>12, ProcsAssumption DEF LocksMoved, LocksOne, IInv, LockInv
<1>17. CacheMoved
  <2>1. icache[i].valid
    BY <1>5, <1>8, ProcsAssumption DEF IInv, CacheInv
  <2>2. QED
    BY <1>3, <1>8, <2>1 DEF CacheMoved, LocksOne, IInv, CacheInv, NONE, Inums
<1>18. FilesInv'
  <2>1. ASSUME NEW g \in Files, ftable'[g].ref > 0
        PROVE  /\ ftable'[g].ip # NONE /\ dino'[ftable'[g].ip].type # "free"
               /\ ftable'[g].off <= Len(dino'[ftable'[g].ip].addrs)
    <3>1. CASE g = f
      <4>1. Len(dino[i].addrs) \in Nat
        BY <1>4, <1>5 DEF TypeOK, Nodes
      <4>2. QED
        BY <1>3, <1>5, <1>8, <1>9, <3>1, <4>1
    <3>2. CASE g # f
      BY <1>3, <1>9, <2>1, <3>2 DEF IInv, FilesInv
    <3>3. QED
      BY <3>1, <3>2
  <2>2. QED
    BY <2>1 DEF FilesInv
<1>19. \A j \in Inums : OpenFiles(j)' # {} => j = i \/ OpenFiles(j) # {}
  BY <1>9 DEF OpenFiles
<1>20. cwd[p] # NONE
  BY <1>1, <1>4 DEF IInv, DeadInv
<1>21. FilesMoves(p, u)
  <2>1. Moves(p, u) /\ OwnCwd(p)
    BY <1>3, <1>4, <1>11 DEF Moves, OwnCwd
  <2>2. icache' \in Caches /\ Nobodys(p, i)
    BY <1>8 DEF LocksOne, Nobodys
  <2>3. UNCHANGED <<dino, dents, used, cwd>> /\ calls' \in 0..MaxCalls
    BY <1>3, <1>4
  <2>4. QED
    BY <1>9, <1>10, <1>11, <1>14, <1>15, <1>16, <1>17, <1>18, <1>19, <1>20, <2>1, <2>2, <2>3 DEF FilesMoves
<1>22. FilesModest(p, u)
  <2>1. PathOk(u)
    <3>1. u.rest = <<>> /\ u.new.elems = <<>> /\ u.name = "f" /\ <<>> \in Seq(Names \cup {"."})
      BY <1>1 DEF Idle, NoPath
    <3>2. QED
      BY <3>1 DEF PathOk
  <2>2. PointsIn(t, i) /\ \A j \in Inums : ~Owes(t, j) /\ ~Fresh(p, j)
    BY <1>1, <1>3, <1>4, <1>5 DEF PointsIn, Owes, Fresh
  <2>3. \A j \in Inums : icache'[j].valid => icache[j].valid \/ j = i
    BY <1>8 DEF LocksOne
  <2>4. QED
    BY <1>1, <1>3, <1>11, <1>19, <2>1, <2>2, <2>3 DEF FilesModest
<1>23. QED
  BY <1>21, <1>22

\* The locals of a call that has nothing left but to put i, if it is not NONE,
\* and goes on at k.
Ending(u, i, k) ==
    /\ u \in Locals /\ CallInv(u) /\ At(u) = k /\ u.pc \notin {"free", "unlink1", "link1"} /\ u.dp = NONE
    /\ PathOk(u)
    /\ \A j \in Inums : ~HasLocked(u, j) /\ ~Keeps(u, j) /\ ~PointsIn(u, j) /\ Held(u, j) = Is(i, j)

\* close() and exit() end so.
LEMMA EndLocals ==
    ASSUME NEW k \in {"idle", "exit", "dead"}
    PROVE  /\ Ending([Idle EXCEPT !.pc = k], NONE, k)
           /\ \A i \in Inums : Ending(Put(Idle, i, k), i, k)
<1>1. k \in Pcs /\ "put" \in Pcs /\ <<>> \in Seq(Names \cup {"."})
  BY DEF Pcs
<1>2. PICK y : y = Idle
  OBVIOUS
<1>3. /\ y \in Locals /\ y.op = "none" /\ y.cur = NONE /\ y.ip = NONE /\ y.dp = NONE /\ y.put = NONE
      /\ y.put2 = NONE /\ y.rest = <<>> /\ y.new.elems = <<>> /\ y.name = "f"
  <2>1. y \in Locals
    BY <1>2, IdleLocals
  <2>2. QED
    BY <1>2, <2>1 DEF Idle, NoPath
<1>4. PICK u : u = [y EXCEPT !.pc = k]
  OBVIOUS
<1>5. Ending(u, NONE, k)
  <2>1. /\ u \in Locals /\ u.pc = k /\ u.op = "none" /\ u.cur = NONE /\ u.ip = NONE /\ u.dp = NONE /\ u.put = NONE
        /\ u.put2 = NONE /\ u.rest = <<>> /\ u.new.elems = <<>> /\ u.name = "f"
    BY <1>1, <1>3, <1>4 DEF Locals
  <2>2. CallInv(u) /\ At(u) = k
    BY <2>1 DEF CallInv, OpAt, PointersAt, At, Putting, NameOps, LinkPlaces, ParentOps, CreateOps
  <2>3. \A j \in Inums : ~HasLocked(u, j) /\ ~Keeps(u, j) /\ ~PointsIn(u, j) /\ Held(u, j) = Is(NONE, j)
    BY <2>1, <2>2 DEF HasLocked, Keeps, PointsIn, Held, Is, NONE, Inums
  <2>4. QED
    BY <1>1, <2>1, <2>2, <2>3 DEF Ending, PathOk
<1>6. ASSUME NEW i \in Inums PROVE Ending(Put(y, i, k), i, k)
  <2>1. i \in Pointers /\ i # NONE
    BY DEF Pointers, NONE, Inums
  <2>2. PICK v : v = Put(y, i, k)
    OBVIOUS
  <2>3. /\ v \in Locals /\ v.pc = "put" /\ v.then = k /\ v.op = "none" /\ v.cur = NONE /\ v.ip = NONE /\ v.dp = NONE
        /\ v.put = i /\ v.put2 = NONE /\ v.rest = <<>> /\ v.new.elems = <<>> /\ v.name = "f"
    BY <1>1, <1>3, <2>1, <2>2, PutLocals
  <2>4. CallInv(v) /\ At(v) = k
    BY <2>1, <2>3 DEF CallInv, OpAt, PointersAt, At, Putting, NameOps, LinkPlaces, ParentOps, CreateOps
  <2>5. \A j \in Inums : ~HasLocked(v, j) /\ ~Keeps(v, j) /\ ~PointsIn(v, j) /\ Held(v, j) = Is(i, j)
    BY <2>3, <2>4 DEF HasLocked, Keeps, PointsIn, Held, Is, NONE, Inums
  <2>6. QED
    BY <1>1, <2>2, <2>3, <2>4, <2>5 DEF Ending, PathOk
<1>7. QED
  BY <1>2, <1>4, <1>5, <1>6

\* A process in user space, in exit() or after it has no pointers.
LEMMA IdleHere ==
    ASSUME IInv, NEW p \in Procs, th[p].pc \in {"idle", "exit", "dead"}
    PROVE  /\ At(th[p]) = th[p].pc /\ th[p].dp = NONE /\ th[p] \in Locals /\ CallInv(th[p])
           /\ \A j \in Inums : /\ ~HasLocked(th[p], j) /\ ~Keeps(th[p], j) /\ ~PointsIn(th[p], j)
                               /\ ~Owes(th[p], j) /\ ~Fresh(p, j) /\ Held(th[p], j) = 0
<1>1. PICK t : t = th[p]
  OBVIOUS
<1>2. t \in Locals /\ CallInv(t) /\ At(t) = t.pc /\ t.pc \in {"idle", "exit", "dead"} /\ ~Putting(t)
  BY <1>1, LocalsHere DEF At, Putting
<1>3. t.cur = NONE /\ t.ip = NONE /\ t.dp = NONE /\ t.put = NONE /\ t.put2 = NONE
  BY <1>2 DEF CallInv, PointersAt, NameOps, LinkPlaces, ParentOps, CreateOps
<1>4. \A j \in Inums : /\ ~HasLocked(t, j) /\ ~Keeps(t, j) /\ ~PointsIn(t, j)
                       /\ ~Owes(t, j) /\ Held(t, j) = 0
  BY <1>2, <1>3 DEF HasLocked, Keeps, PointsIn, Owes, Held, Is, NONE, Inums
<1>5. \A j \in Inums : ~Fresh(p, j)
  BY <1>1, <1>2 DEF Fresh
<1>6. QED
  BY <1>1, <1>2, <1>3, <1>4, <1>5

\* fileclose() of a descriptor, by close() or by exit().
LEMMA FileCloseFiles ==
    ASSUME IInv, NEW p \in Procs, NEW fd \in Fds, NEW k \in {"idle", "exit"}, th[p].pc = k,
           ofile[p][fd] # NONE, FileClose(p, fd, k), calls' \in 0..MaxCalls
    PROVE  \E u : FilesMoves(p, u) /\ FilesModest(p, u)
<1>1. PICK f, i, t : f = ofile[p][fd] /\ i = ftable[f].ip /\ t = th[p]
  OBVIOUS
<1>2. /\ UNCHANGED <<dino, dents, used, icache, cwd>> /\ ofile' = [ofile EXCEPT ![p][fd] = NONE]
  BY DEF FileClose, disk
<1>3. /\ th \in [Procs -> Locals] /\ icache \in Caches /\ cwd \in [Procs -> Pointers] /\ ftable \in FileTable
      /\ ofile \in [Procs -> [Fds -> Files \cup {NONE}]] /\ TypeOK
  BY DEF IInv, TypeOK, FileTable
<1>4. f \in Files /\ ftable[f].ref \in Nat /\ ftable[f].ref > 0 /\ i \in Inums /\ f \in OpenFiles(i)
  BY <1>1, DescriptorRef
<1>5. /\ At(t) = k /\ t.pc = k
      /\ \A j \in Inums : /\ ~HasLocked(t, j) /\ ~Keeps(t, j) /\ ~PointsIn(t, j)
                          /\ ~Owes(t, j) /\ ~Fresh(p, j) /\ Held(t, j) = 0
  BY <1>1, IdleHere
<1>6. PICK u, e : /\ th' = [th EXCEPT ![p] = u] /\ Ending(u, e, k) /\ (e = NONE \/ e = i)
                  /\ ftable' \in FileTable /\ ftable'[f].ref = ftable[f].ref - 1
                  /\ e = i <=> ftable[f].ref = 1
                  /\ ftable[f].ref > 1 => ftable'[f].ip = i /\ ftable'[f].off = ftable[f].off
                  /\ \A g \in Files \ {f} : ftable'[g] = ftable[g]
  <2>1. CASE ftable[f].ref > 1
    <3>1. PICK r : r = ftable[f].ref - 1
      OBVIOUS
    <3>2. ftable' = [ftable EXCEPT ![f].ref = r] /\ r \in Nat
      BY <1>1, <1>3, <1>4, <2>1, <3>1 DEF FileClose, FileTable
    <3>3. /\ ftable' \in FileTable /\ ftable'[f].ref = r /\ ftable'[f].ip = i /\ ftable'[f].off = ftable[f].off
          /\ \A g \in Files \ {f} : ftable'[g] = ftable[g]
      BY <1>1, <1>3, <1>4, <3>2 DEF FileTable
    <3>4. th' = [th EXCEPT ![p] = [Idle EXCEPT !.pc = k]]
      BY <1>1, <2>1 DEF FileClose
    <3>5. Ending([Idle EXCEPT !.pc = k], NONE, k)
      BY EndLocals
    <3>6. NONE # i /\ ~(ftable[f].ref = 1)
      BY <1>4, <2>1 DEF NONE, Inums
    <3>7. QED
      BY <2>1, <3>1, <3>3, <3>4, <3>5, <3>6
  <2>2. CASE ftable[f].ref = 1
    <3>1. ftable' = [ftable EXCEPT ![f] = NoFile] /\ th' = [th EXCEPT ![p] = Put(Idle, i, k)]
      BY <1>1, <2>2 DEF FileClose
    <3>2. NoFile \in [ref : Nat, ip : Pointers, off : 0..MAXFILE, writable : BOOLEAN] /\ NoFile.ref = 0
      BY SizeAssumption DEF NoFile, Pointers
    <3>3. /\ ftable' \in FileTable /\ ftable'[f].ref = 0
          /\ \A g \in Files \ {f} : ftable'[g] = ftable[g]
      BY <1>3, <1>4, <3>1, <3>2 DEF FileTable
    <3>4. Ending(Put(Idle, i, k), i, k)
      BY <1>4, EndLocals
    <3>5. ftable'[f].ref = ftable[f].ref - 1 /\ ~(ftable[f].ref > 1)
      BY <2>2, <3>3
    <3>6. PICK u, e : u = Put(Idle, i, k) /\ e = i
      OBVIOUS
    <3>7. Ending(u, e, k) /\ th' = [th EXCEPT ![p] = u]
      BY <3>1, <3>4, <3>6
    <3>8. QED
      BY <2>2, <3>3, <3>5, <3>6, <3>7
  <2>3. QED
    BY <1>4, <2>1, <2>2
<1>7. /\ u \in Locals /\ CallInv(u) /\ At(u) = k /\ u.pc \notin {"free", "unlink1", "link1"} /\ u.dp = NONE
      /\ PathOk(u)
      /\ \A j \in Inums : ~HasLocked(u, j) /\ ~Keeps(u, j) /\ ~PointsIn(u, j) /\ Held(u, j) = Is(e, j)
  BY <1>6 DEF Ending
<1>8. /\ ofile' \in [Procs -> [Fds -> Files \cup {NONE}]] /\ \A q \in Procs \ {p} : ofile'[q] = ofile[q]
  BY <1>2, <1>3
<1>9. \A j \in Inums : /\ f \in OpenFiles(j) <=> j = i
                       /\ f \in OpenFiles(j)' <=> j = i /\ e = NONE
  <2>1. \A j : /\ f \in OpenFiles(j) <=> ftable[f].ref > 0 /\ ftable[f].ip = j
               /\ f \in OpenFiles(j)' <=> ftable'[f].ref > 0 /\ ftable'[f].ip = j
    BY <1>4 DEF OpenFiles
  <2>2. e = NONE <=> ftable[f].ref > 1
    BY <1>4, <1>6 DEF NONE, Inums
  <2>3. ftable'[f].ref > 0 <=> ftable[f].ref > 1
    BY <1>4, <1>6
  <2>4. QED
    BY <1>1, <1>4, <1>6, <2>1, <2>2, <2>3
<1>10. ASSUME NEW j \in Inums PROVE RefsMoved(p, u, j)
  <2>1. Cardinality(OpenFiles(j)') + (IF f \in OpenFiles(j) THEN 1 ELSE 0)
             = Cardinality(OpenFiles(j)) + (IF f \in OpenFiles(j)' THEN 1 ELSE 0)
    BY <1>4, <1>6, OpenFilesCount
  <2>2. PICK o, o2 \in Nat : o = Cardinality(OpenFiles(j)) /\ o2 = Cardinality(OpenFiles(j)')
    BY OpenFilesFinite
  <2>3. o = o2 + Is(e, j) /\ Is(e, j) \in Nat
    BY <1>4, <1>6, <1>9, <2>1, <2>2 DEF Is, NONE, Inums
  <2>4. icache'[j].ref = icache[j].ref /\ icache[j].ref \in Nat
    BY <1>2, <1>3 DEF Caches
  <2>5. PICK c \in Nat : c = Is(cwd[p], j) /\ c = Is(cwd'[p], j)
    BY <1>2 DEF Is
  <2>6. RefsMoved(p, u, j) <=> icache[j].ref + 0 + c + o = icache[j].ref + Is(e, j) + c + o2
    BY <1>1, <1>5, <1>7, <2>2, <2>4, <2>5 DEF RefsMoved
  <2>7. QED
    BY <2>3, <2>4, <2>6
<1>11. ASSUME NEW g \in Files PROVE ftable'[g].ref = Cardinality(Descriptors(g))'
  <2>1. SetsFd(p, fd, NONE)
    BY <1>2 DEF SetsFd
  <2>2. Cardinality(Descriptors(g)') + Is(ofile[p][fd], g) = Cardinality(Descriptors(g)) + Is(NONE, g)
    BY <1>3, <2>1, DescriptorCount
  <2>3. PICK m, l \in Nat : m = Cardinality(Descriptors(g)) /\ l = Cardinality(Descriptors(g)')
    BY DescriptorsFinite
  <2>4. ftable[g].ref = m
    BY <2>3 DEF IInv, RefsCounted
  <2>5. NONE # g
    BY SizeAssumption DEF NONE, Files
  <2>6. m = l + Is(f, g)
    BY <1>1, <2>2, <2>3, <2>5 DEF Is
  <2>7. QED
    BY <1>4, <1>6, <2>3, <2>4, <2>6 DEF Is
<1>12. LocksMoved(p, u) /\ CacheMoved
  BY <1>1, <1>2, <1>5, <1>7 DEF LocksMoved, CacheMoved, IInv, LockInv, CacheInv
<1>13. FilesInv'
  <2>1. ASSUME NEW g \in Files, ftable'[g].ref > 0
        PROVE  /\ ftable'[g].ip # NONE /\ dino'[ftable'[g].ip].type # "free"
               /\ ftable'[g].off <= Len(dino'[ftable'[g].ip].addrs)
    <3>1. ftable'[g].ip = ftable[g].ip /\ ftable'[g].off = ftable[g].off /\ ftable[g].ref > 0
      BY <1>1, <1>4, <1>6, <2>1
    <3>2. QED
      BY <1>2, <3>1 DEF IInv, FilesInv
  <2>2. QED
    BY <2>1 DEF FilesInv
<1>14. \A j \in Inums : OpenFiles(j)' # {} => OpenFiles(j) # {}
  <2>1. ASSUME NEW j \in Inums, NEW g \in OpenFiles(j)' PROVE g \in OpenFiles(j)
    BY <1>6, <1>9, <2>1 DEF OpenFiles
  <2>2. QED
    BY <2>1
<1>15. cwd[p] # NONE
  BY <1>1, <1>5 DEF IInv, DeadInv
<1>16. FilesMoves(p, u)
  <2>1. Moves(p, u) /\ OwnCwd(p) /\ icache' \in Caches
    BY <1>2, <1>3, <1>6, <1>7 DEF Moves, OwnCwd
  <2>2. At(u) # "dead" /\ At(u) # "dropdir" /\ UNCHANGED <<dino, dents, used, cwd>>
    BY <1>2, <1>7
  <2>3. QED
    BY <1>6, <1>7, <1>8, <1>10, <1>11, <1>12, <1>13, <1>14, <1>15, <2>1, <2>2 DEF FilesMoves
<1>17. FilesModest(p, u)
  <2>1. \A j \in Inums : Held(u, j) # 0 => OpenFiles(j) # {}
    BY <1>4, <1>6, <1>7 DEF Is, NONE, Inums
  <2>2. QED
    BY <1>1, <1>2, <1>5, <1>7, <1>14, <2>1 DEF FilesModest
<1>18. QED
  BY <1>16, <1>17

\* exit() puts the current directory.
LEMMA ExitEnds ==
    ASSUME IInv, NEW p \in Procs, ExitCloses(p), {fd \in Fds : ofile[p][fd] # NONE} = {}
    PROVE  \E u : FilesMoves(p, u) /\ FilesModest(p, u)
<1>1. PICK t, i, u : t = th[p] /\ i = cwd[p] /\ u = Put(Idle, i, "dead")
  OBVIOUS
<1>2. /\ t.pc = "exit" /\ UNCHANGED <<dino, dents, used, icache, ftable, ofile, calls>>
      /\ cwd' = [cwd EXCEPT ![p] = NONE] /\ th' = [th EXCEPT ![p] = u]
  BY <1>1 DEF ExitCloses, disk, files
<1>3. /\ th \in [Procs -> Locals] /\ icache \in Caches /\ cwd \in [Procs -> Pointers] /\ ftable \in FileTable
      /\ ofile \in [Procs -> [Fds -> Files \cup {NONE}]] /\ TypeOK /\ calls \in 0..MaxCalls /\ NONE \in Pointers
  BY DEF IInv, TypeOK, FileTable, Pointers
<1>4. /\ At(t) = "exit"
      /\ \A j \in Inums : /\ ~HasLocked(t, j) /\ ~Keeps(t, j) /\ ~PointsIn(t, j)
                          /\ ~Owes(t, j) /\ ~Fresh(p, j) /\ Held(t, j) = 0
  BY <1>1, <1>2, IdleHere
<1>5. i \in Inums /\ i # NONE
  BY <1>1, <1>4, LocalsHere DEF IInv, DeadInv
<1>6. /\ u \in Locals /\ CallInv(u) /\ At(u) = "dead" /\ u.pc \notin {"free", "unlink1", "link1"} /\ u.dp = NONE
      /\ PathOk(u)
      /\ \A j \in Inums : ~HasLocked(u, j) /\ ~Keeps(u, j) /\ ~PointsIn(u, j) /\ Held(u, j) = Is(i, j)
  <2>1. Ending(u, i, "dead")
    BY <1>1, <1>5, EndLocals
  <2>2. QED
    BY <2>1 DEF Ending
<1>7. cwd' \in [Procs -> Pointers] /\ cwd'[p] = NONE /\ \A q \in Procs \ {p} : cwd'[q] = cwd[q]
  BY <1>2, <1>3
<1>8. \A j : OpenFiles(j)' = OpenFiles(j)
  BY <1>2 DEF OpenFiles
<1>9. ASSUME NEW j \in Inums PROVE RefsMoved(p, u, j)
  <2>1. PICK o \in Nat : o = Cardinality(OpenFiles(j)) /\ o = Cardinality(OpenFiles(j)')
    BY <1>8, OpenFilesFinite
  <2>2. icache'[j].ref = icache[j].ref /\ icache[j].ref \in Nat /\ Is(i, j) \in Nat /\ Is(NONE, j) = 0
    BY <1>2, <1>3 DEF Caches, Is, NONE, Inums
  <2>3. RefsMoved(p, u, j) <=> icache[j].ref + 0 + Is(i, j) + o = icache[j].ref + Is(i, j) + 0 + o
    BY <1>1, <1>4, <1>6, <1>7, <2>1, <2>2 DEF RefsMoved
  <2>4. QED
    BY <2>1, <2>2, <2>3
<1>10. \A f \in Files : ftable'[f].ref = Cardinality(Descriptors(f))'
  BY <1>2, SameDescriptors DEF IInv
<1>11. LocksMoved(p, u) /\ CacheMoved /\ FilesInv'
  BY <1>1, <1>2, <1>4, <1>6 DEF LocksMoved, CacheMoved, IInv, LockInv, CacheInv, FilesInv
<1>12. FilesMoves(p, u)
  <2>1. Moves(p, u) /\ OwnCwd(p)
    BY <1>2, <1>6, <1>7 DEF Moves, OwnCwd
  <2>2. /\ icache' \in Caches /\ calls' \in 0..MaxCalls /\ ftable' \in FileTable
        /\ ofile' \in [Procs -> [Fds -> Files \cup {NONE}]] /\ UNCHANGED <<dino, dents, used>>
        /\ \A q \in Procs \ {p} : ofile'[q] = ofile[q]
        /\ \A fd \in Fds : ofile'[p][fd] = NONE
    BY <1>2, <1>3
  <2>3. \A j \in Inums : cwd'[p] # j
    BY <1>7 DEF NONE, Inums
  <2>4. QED
    BY <1>6, <1>7, <1>8, <1>9, <1>10, <1>11, <2>1, <2>2, <2>3 DEF FilesMoves
<1>13. FilesModest(p, u)
  <2>1. \A j \in Inums : cwd'[p] # j /\ (Held(u, j) # 0 => cwd[p] = j)
    BY <1>1, <1>6, <1>7 DEF NONE, Inums, Is
  <2>2. QED
    BY <1>1, <1>2, <1>4, <1>6, <1>8, <2>1 DEF FilesModest
<1>14. QED
  BY <1>12, <1>13

\* chdir() puts the old directory, or what is not a directory.
LEMMA ChdirFiles ==
    ASSUME IInv, NEW p \in Procs, Chdir(p)
    PROVE  \E u : FilesMoves(p, u) /\ FilesModest(p, u)
<1>1. PICK t, i, e : t = th[p] /\ i = t.ip /\ e = IF Node(i).type = "dir" THEN cwd[p] ELSE i
  OBVIOUS
<1>2. /\ t.pc = "chdir" /\ CanLock(i) /\ UNCHANGED <<dino, dents, used, ftable, ofile, calls>>
      /\ icache' = Locked(i, NOBODY)
      /\ cwd' = IF Node(i).type = "dir" THEN [cwd EXCEPT ![p] = i] ELSE cwd
      /\ th' = [th EXCEPT ![p] = Put([t EXCEPT !.ip = NONE], e, "idle")]
  BY <1>1 DEF Chdir, disk, files
<1>3. /\ th \in [Procs -> Locals] /\ icache \in Caches /\ cwd \in [Procs -> Pointers] /\ ftable \in FileTable
      /\ ofile \in [Procs -> [Fds -> Files \cup {NONE}]] /\ TypeOK /\ calls \in 0..MaxCalls /\ NONE \in Pointers
      /\ t \in Locals /\ CallInv(t) /\ At(t) = "chdir"
  BY <1>1, <1>2, LocalsHere DEF IInv, TypeOK, FileTable, Pointers, At, Putting
<1>4. /\ t.cur = NONE /\ t.dp = NONE /\ t.put = NONE /\ t.put2 = NONE /\ t.op = "chdir"
      /\ i \in Inums /\ i # NONE /\ i \in Pointers /\ PointsIn(t, i)
  BY <1>1, <1>2, <1>3, LocalsHere DEF CallInv, OpAt, PointersAt, At, Putting, NameOps, LinkPlaces, ParentOps, CreateOps, PointsIn
<1>5. cwd[p] \in Inums /\ cwd[p] \in Pointers /\ e \in Inums /\ e \in Pointers /\ e # NONE /\ cwd[p] # NONE
  BY <1>1, <1>3, <1>4, LocalsHere DEF IInv, DeadInv
<1>6. LocksOne(p, i, NOBODY, NONE) /\ Node(i) = dino[i]
  BY <1>2, <1>4, LockedOne, NodeOnDisk
<1>7. PICK x : x = [t EXCEPT !.ip = NONE]
  OBVIOUS
<1>8. /\ x \in Locals /\ x.cur = NONE /\ x.ip = NONE /\ x.dp = NONE /\ x.put2 = NONE /\ x.op = "chdir"
      /\ x.name = t.name /\ x.rest = t.rest /\ x.new = t.new
  BY <1>3, <1>4, <1>7 DEF Locals
<1>9. PICK u : u = Put(x, e, "idle")
  OBVIOUS
<1>10. /\ u \in Locals /\ u.pc = "put" /\ u.then = "idle" /\ u.put = e /\ u.cur = NONE /\ u.ip = NONE
       /\ u.dp = NONE /\ u.put2 = NONE /\ u.op = "chdir" /\ u.name = t.name /\ u.rest = t.rest /\ u.new = t.new
  <2>1. e \in Pointers /\ "idle" \in Pcs
    BY <1>5, GoesOnAt
  <2>2. QED
    BY <1>8, <1>9, <2>1, PutLocals
<1>11. CallInv(u) /\ At(u) = "idle"
  BY <1>5, <1>10 DEF CallInv, OpAt, PointersAt, At, Putting, NameOps, LinkPlaces, ParentOps, CreateOps
<1>12. \A j \in Inums : /\ ~HasLocked(u, j) /\ ~Keeps(u, j) /\ ~PointsIn(u, j) /\ Held(u, j) = Is(e, j)
                        /\ ~HasLocked(t, j) /\ Held(t, j) = Is(i, j) /\ ~Owes(t, j) /\ ~Fresh(p, j)
  <2>1. \A j \in Inums : ~HasLocked(u, j) /\ ~Keeps(u, j) /\ ~PointsIn(u, j) /\ Held(u, j) = Is(e, j)
    BY <1>10, <1>11 DEF HasLocked, Keeps, PointsIn, Held, Is, NONE, Inums
  <2>2. \A j \in Inums : ~HasLocked(t, j) /\ Held(t, j) = Is(i, j) /\ ~Owes(t, j) /\ ~Fresh(p, j)
    BY <1>1, <1>2, <1>3, <1>4 DEF HasLocked, Owes, Held, Is, Fresh, NONE, Inums
  <2>3. QED
    BY <2>1, <2>2
<1>13. cwd' \in [Procs -> Pointers] /\ \A q \in Procs \ {p} : cwd'[q] = cwd[q]
  BY <1>2, <1>3, <1>4
<1>14. /\ cwd'[p] \in {i, cwd[p]} /\ (cwd'[p] = cwd[p] \/ (cwd'[p] = i /\ dino[i].type = "dir"))
       /\ \A j \in Inums : Is(i, j) + Is(cwd[p], j) = Is(e, j) + Is(cwd'[p], j)
  <2>1. CASE Node(i).type = "dir"
    BY <1>1, <1>2, <1>3, <1>6, <2>1 DEF Is
  <2>2. CASE Node(i).type # "dir"
    BY <1>1, <1>2, <1>3, <1>6, <2>2 DEF Is
  <2>3. QED
    BY <2>1, <2>2
<1>15. \A j : OpenFiles(j)' = OpenFiles(j)
  BY <1>2 DEF OpenFiles
<1>16. ASSUME NEW j \in Inums PROVE RefsMoved(p, u, j)
  <2>1. PICK o \in Nat : o = Cardinality(OpenFiles(j)) /\ o = Cardinality(OpenFiles(j)')
    BY <1>15, OpenFilesFinite
  <2>2. icache'[j].ref = icache[j].ref /\ icache[j].ref \in Nat
    BY <1>3, <1>6 DEF LocksOne, Caches, Is, NONE, Inums
  <2>3. PICK a, b, c, d \in Nat : a = Is(i, j) /\ b = Is(cwd[p], j) /\ c = Is(e, j) /\ d = Is(cwd'[p], j)
    BY DEF Is
  <2>4. RefsMoved(p, u, j) <=> icache[j].ref + a + b + o = icache[j].ref + c + d + o
    BY <1>1, <1>12, <2>1, <2>2, <2>3 DEF RefsMoved
  <2>5. a + b = c + d
    BY <1>14, <2>3
  <2>6. QED
    BY <2>1, <2>2, <2>3, <2>4, <2>5
<1>17. \A f \in Files : ftable'[f].ref = Cardinality(Descriptors(f))'
  BY <1>2, SameDescriptors DEF IInv
<1>18. LocksMoved(p, u)
  BY <1>1, <1>2, <1>6, <1>12 DEF LocksMoved, LocksOne, CanLock, IInv, LockInv
<1>19. CacheMoved
  BY <1>2, <1>6, PointerRef DEF CacheMoved, LocksOne, IInv, CacheInv, NONE, Inums
<1>20. FilesInv'
  BY <1>2 DEF IInv, FilesInv
<1>21. FilesMoves(p, u)
  <2>1. Moves(p, u) /\ OwnCwd(p) /\ Nobodys(p, i)
    BY <1>2, <1>6, <1>7, <1>9, <1>10, <1>13 DEF Moves, OwnCwd, Nobodys, LocksOne
  <2>2. /\ icache' \in Caches /\ calls' \in 0..MaxCalls /\ ftable' \in FileTable
        /\ ofile' \in [Procs -> [Fds -> Files \cup {NONE}]] /\ UNCHANGED <<dino, dents, used>>
        /\ \A q \in Procs \ {p} : ofile'[q] = ofile[q]
    BY <1>2, <1>3, <1>6 DEF LocksOne
  <2>3. cwd'[p] # NONE /\ u.pc \notin {"free", "unlink1"} /\ At(u) \notin {"dropdir", "dead"}
    BY <1>4, <1>5, <1>10, <1>11, <1>14
  <2>4. \A j \in Inums : cwd'[p] = j => Nobodys(p, j) \/ \E q \in Procs : cwd[q] = j
    BY <1>14, <2>1
  <2>5. cwd'[p] # NONE => cwd'[p] = cwd[p] \/ dino[cwd'[p]].type = "dir"
    BY <1>14
  <2>6. QED
    BY <1>10, <1>11, <1>12, <1>15, <1>16, <1>17, <1>18, <1>19, <1>20, <2>1, <2>2, <2>3, <2>4, <2>5 DEF FilesMoves
<1>22. FilesModest(p, u)
  <2>1. PathInv => PathOk(u)
    BY <1>1, <1>10 DEF PathInv, PathOk
  <2>2. \A j \in Inums : cwd'[p] = j => PointsIn(t, j) \/ \E q \in Procs : cwd[q] = j
    BY <1>4, <1>14
  <2>3. \A j \in Inums : Held(u, j) # 0 => Held(t, j) # 0 \/ cwd[p] = j
    BY <1>1, <1>12 DEF Is
  <2>4. \A j \in Inums : icache'[j].valid => icache[j].valid \/ PointsIn(t, j)
    BY <1>4, <1>6 DEF LocksOne
  <2>5. QED
    BY <1>1, <1>12, <1>15, <2>1, <2>2, <2>3, <2>4 DEF FilesModest
<1>23. QED
  BY <1>21, <1>22

\* A process makes a call on an open file.
LEMMA UsesHere ==
    ASSUME IInv, NEW p \in Procs, NEW fd \in Fds, Uses(p, fd)
    PROVE  /\ th[p].pc = "idle" /\ calls' \in 0..MaxCalls /\ ofile[p][fd] # NONE
           /\ th[p] \in Locals /\ th = [th EXCEPT ![p] = th[p]] /\ cwd[p] # NONE
<1>1. th[p].pc = "idle" /\ ofile[p][fd] # NONE
  BY DEF Uses
<1>2. calls' \in 0..MaxCalls
  BY SizeAssumption DEF Uses, IInv, TypeOK
<1>3. th \in [Procs -> Locals]
  BY DEF IInv, TypeOK
<1>4. At(th[p]) = "idle"
  BY <1>1 DEF At, Putting
<1>5. cwd[p] # NONE
  BY <1>4 DEF IInv, DeadInv
<1>6. QED
  BY <1>1, <1>2, <1>3, <1>5

\* dup() of a descriptor.
LEMMA DupFiles ==
    ASSUME IInv, NEW p \in Procs, NEW fd \in Fds, Dup(p, fd)
    PROVE  \E u : FilesMoves(p, u) /\ FilesModest(p, u)
<1>1. PICK f, fd2, u, r : f = ofile[p][fd] /\ fd2 = Min(FreeFds(p)) /\ u = th[p] /\ r = ftable[f].ref + 1
  OBVIOUS
<1>2. /\ u.pc = "idle" /\ calls' \in 0..MaxCalls /\ f # NONE /\ u \in Locals /\ th = [th EXCEPT ![p] = u]
      /\ cwd[p] # NONE
  BY <1>1, UsesHere DEF Dup
<1>3. /\ UNCHANGED <<dino, dents, used, icache, cwd, th>> /\ FreeFds(p) # {}
      /\ ofile' = [ofile EXCEPT ![p][fd2] = f] /\ ftable' = [ftable EXCEPT ![f].ref = @ + 1]
  BY <1>1 DEF Dup, disk, FileDup
<1>4. /\ icache \in Caches /\ cwd \in [Procs -> Pointers] /\ ftable \in FileTable
      /\ ofile \in [Procs -> [Fds -> Files \cup {NONE}]] /\ TypeOK
  BY DEF IInv, TypeOK, FileTable
<1>5. fd2 \in Fds /\ ofile[p][fd2] = NONE
  <2>1. FreeFds(p) \in SUBSET Nat
    BY DescriptorsFinite DEF FreeFds
  <2>2. QED
    BY <1>1, <1>3, <2>1, Least DEF FreeFds
<1>6. f \in Files /\ ftable[f].ref \in Nat /\ ftable[f].ref > 0
  BY <1>1, <1>2, DescriptorRef
<1>7. /\ ftable' \in FileTable /\ ftable'[f].ref = r /\ ftable'[f].ip = ftable[f].ip /\ ftable'[f].off = ftable[f].off
      /\ r \in Nat /\ r > 0 /\ \A g \in Files \ {f} : ftable'[g] = ftable[g]
  <2>1. r \in Nat /\ r > 0 /\ ftable' = [ftable EXCEPT ![f].ref = r]
    BY <1>1, <1>3, <1>4, <1>6 DEF FileTable
  <2>2. QED
    BY <1>4, <1>6, <2>1 DEF FileTable
<1>8. /\ ofile' \in [Procs -> [Fds -> Files \cup {NONE}]] /\ \A q \in Procs \ {p} : ofile'[q] = ofile[q]
  BY <1>3, <1>4, <1>5, <1>6
<1>9. /\ At(u) = "idle" /\ u.dp = NONE /\ CallInv(u)
      /\ \A j \in Inums : /\ ~HasLocked(u, j) /\ ~Keeps(u, j) /\ ~PointsIn(u, j)
                          /\ ~Owes(u, j) /\ ~Fresh(p, j) /\ Held(u, j) = 0
  BY <1>1, <1>2, IdleHere
<1>10. \A j : OpenFiles(j)' = OpenFiles(j)
  <2>1. \A g \in Files : (ftable'[g].ref > 0 <=> ftable[g].ref > 0) /\ ftable'[g].ip = ftable[g].ip
    BY <1>6, <1>7
  <2>2. QED
    BY <2>1 DEF OpenFiles
<1>11. ASSUME NEW j \in Inums PROVE RefsMoved(p, u, j)
  <2>1. PICK o \in Nat : o = Cardinality(OpenFiles(j)) /\ o = Cardinality(OpenFiles(j)')
    BY <1>10, OpenFilesFinite
  <2>2. PICK c \in Nat : c = Is(cwd[p], j) /\ c = Is(cwd'[p], j)
    BY <1>3 DEF Is
  <2>3. icache'[j].ref = icache[j].ref
    BY <1>3
  <2>4. RefsMoved(p, u, j) <=> icache[j].ref + 0 + c + o = icache[j].ref + 0 + c + o
    BY <1>1, <1>9, <2>1, <2>2, <2>3 DEF RefsMoved
  <2>5. QED
    BY <2>4
<1>12. ASSUME NEW g \in Files PROVE ftable'[g].ref = Cardinality(Descriptors(g))'
  <2>1. SetsFd(p, fd2, f)
    BY <1>3, <1>5 DEF SetsFd
  <2>2. Cardinality(Descriptors(g)') + Is(ofile[p][fd2], g) = Cardinality(Descriptors(g)) + Is(f, g)
    BY <1>4, <2>1, DescriptorCount
  <2>3. PICK m, l \in Nat : m = Cardinality(Descriptors(g)) /\ l = Cardinality(Descriptors(g)')
    BY DescriptorsFinite
  <2>4. ftable[g].ref = m
    BY <2>3 DEF IInv, RefsCounted
  <2>5. NONE # g
    BY SizeAssumption DEF NONE, Files
  <2>6. l = m + Is(f, g)
    BY <1>5, <2>2, <2>3, <2>5 DEF Is
  <2>7. QED
    BY <1>1, <1>6, <1>7, <2>3, <2>4, <2>6 DEF Is
<1>13. LocksMoved(p, u) /\ CacheMoved
  BY <1>1, <1>3, <1>9 DEF LocksMoved, CacheMoved, IInv, LockInv, CacheInv
<1>14. FilesInv'
  <2>1. ASSUME NEW g \in Files, ftable'[g].ref > 0
        PROVE  /\ ftable'[g].ip # NONE /\ dino'[ftable'[g].ip].type # "free"
               /\ ftable'[g].off <= Len(dino'[ftable'[g].ip].addrs)
    <3>1. ftable'[g].ip = ftable[g].ip /\ ftable'[g].off = ftable[g].off /\ ftable[g].ref > 0
      BY <1>6, <1>7, <2>1
    <3>2. QED
      BY <1>3, <3>1 DEF IInv, FilesInv
  <2>2. QED
    BY <2>1 DEF FilesInv
<1>15. FilesMoves(p, u)
  <2>1. Moves(p, u) /\ OwnCwd(p) /\ icache' \in Caches
    BY <1>2, <1>3, <1>4 DEF Moves, OwnCwd
  <2>2. UNCHANGED <<dino, dents, used, cwd>> /\ u.pc \notin {"free", "unlink1"}
    BY <1>2, <1>3
  <2>3. QED
    BY <1>2, <1>7, <1>8, <1>9, <1>10, <1>11, <1>12, <1>13, <1>14, <2>1, <2>2 DEF FilesMoves
<1>16. FilesModest(p, u)
  BY <1>1, <1>3, <1>9, <1>10 DEF FilesModest, PathInv
<1>17. QED
  BY <1>15, <1>16

\* read() of an open file.
LEMMA ReadFiles ==
    ASSUME IInv, NEW p \in Procs, NEW fd \in Fds, Read(p, fd)
    PROVE  \E u : FilesMoves(p, u) /\ FilesModest(p, u)
<1>1. PICK f, i, u, r : f = ofile[p][fd] /\ i = ftable[f].ip /\ u = th[p] /\ r = ReadTo(ftable[f].off, Size(Node(i).addrs))
  OBVIOUS
<1>2. /\ u.pc = "idle" /\ calls' \in 0..MaxCalls /\ f # NONE /\ u \in Locals /\ th = [th EXCEPT ![p] = u]
      /\ cwd[p] # NONE
  BY <1>1, UsesHere DEF Read
<1>3. /\ UNCHANGED <<dino, dents, used, ofile, cwd, th>> /\ CanLock(i) /\ icache' = Locked(i, NOBODY)
      /\ ftable' = [ftable EXCEPT ![f].off = ReadTo(@, Size(Node(i).addrs))]
  BY <1>1 DEF Read, disk
<1>4. /\ icache \in Caches /\ cwd \in [Procs -> Pointers] /\ ftable \in FileTable
      /\ ofile \in [Procs -> [Fds -> Files \cup {NONE}]] /\ TypeOK
  BY DEF IInv, TypeOK, FileTable
<1>5. f \in Files /\ ftable[f].ref > 0 /\ i \in Inums /\ f \in OpenFiles(i)
  BY <1>1, <1>2, DescriptorRef
<1>6. r \in 0..MAXFILE /\ r <= Len(dino[i].addrs)
  <2>1. PICK o, z, l : o = ftable[f].off /\ z = Size(dino[i].addrs) /\ l = Len(dino[i].addrs)
    OBVIOUS
  <2>2. o \in 0..MAXFILE /\ l \in Nat /\ o <= l /\ z \in Nat /\ z <= l /\ z <= MAXFILE /\ MAXFILE \in Nat
    <3>1. o <= l
      BY <1>1, <1>5, <2>1 DEF IInv, FilesInv
    <3>2. o \in 0..MAXFILE /\ l <= MAXFILE + 1 /\ MAXFILE \in Nat
      BY <1>4, <1>5, <2>1, SizeAssumption DEF FileTable, IInv, FreeNodes
    <3>3. dino[i].addrs \in Seq(Blocks)
      BY <1>4, <1>5 DEF TypeOK, Nodes
    <3>4. QED
      BY <2>1, <3>1, <3>2, <3>3, SizeMeans
  <2>3. r = IF o < z THEN o + 1 ELSE o
    BY <1>1, <1>5, <2>1, NodeOnDisk DEF ReadTo
  <2>4. QED
    BY <2>1, <2>2, <2>3
<1>7. /\ ftable' \in FileTable /\ ftable'[f].ref = ftable[f].ref /\ ftable'[f].ip = i /\ ftable'[f].off = r
      /\ \A g \in Files \ {f} : ftable'[g] = ftable[g]
  <2>1. ftable' = [ftable EXCEPT ![f].off = r]
    BY <1>1, <1>3, <1>4, <1>5 DEF FileTable
  <2>2. QED
    BY <1>1, <1>4, <1>5, <1>6, <2>1 DEF FileTable
<1>8. LocksOne(p, i, NOBODY, NONE)
  BY <1>3, <1>5, LockedOne
<1>9. /\ At(u) = "idle" /\ u.dp = NONE /\ CallInv(u)
      /\ \A j \in Inums : /\ ~HasLocked(u, j) /\ ~Keeps(u, j) /\ ~PointsIn(u, j)
                          /\ ~Owes(u, j) /\ ~Fresh(p, j) /\ Held(u, j) = 0
  BY <1>1, <1>2, IdleHere
<1>10. (\A j : OpenFiles(j)' = OpenFiles(j)) /\ \A g \in Files : ftable'[g].ref = Cardinality(Descriptors(g))'
  <2>1. \A g \in Files : ftable'[g].ref = ftable[g].ref /\ ftable'[g].ip = ftable[g].ip
    BY <1>1, <1>7
  <2>2. QED
    BY <1>3, <2>1, SameOpenFiles, SameDescriptors DEF IInv
<1>11. ASSUME NEW j \in Inums PROVE RefsMoved(p, u, j)
  <2>1. PICK o \in Nat : o = Cardinality(OpenFiles(j)) /\ o = Cardinality(OpenFiles(j)')
    BY <1>10, OpenFilesFinite
  <2>2. PICK c \in Nat : c = Is(cwd[p], j) /\ c = Is(cwd'[p], j)
    BY <1>3 DEF Is
  <2>3. icache'[j].ref = icache[j].ref
    BY <1>4, <1>8 DEF LocksOne, Is, NONE, Inums, Caches
  <2>4. RefsMoved(p, u, j) <=> icache[j].ref + 0 + c + o = icache[j].ref + 0 + c + o
    BY <1>1, <1>9, <2>1, <2>2, <2>3 DEF RefsMoved
  <2>5. QED
    BY <2>4
<1>12. LocksMoved(p, u)
  <2>1. \A j \in Inums : icache'[j].lock = icache[j].lock
    BY <1>3, <1>8 DEF LocksOne, CanLock
  <2>2. \A j \in Inums : icache[j].lock # p
    BY <1>1, <1>9 DEF IInv, LockInv
  <2>3. QED
    BY <1>9, <2>1, <2>2 DEF LocksMoved
<1>13. CacheMoved
  BY <1>3, <1>8 DEF CacheMoved, LocksOne, IInv, CacheInv, NONE, Inums
<1>14. FilesInv'
  <2>1. ASSUME NEW g \in Files, ftable'[g].ref > 0
        PROVE  /\ ftable'[g].ip # NONE /\ dino'[ftable'[g].ip].type # "free"
               /\ ftable'[g].off <= Len(dino'[ftable'[g].ip].addrs)
    <3>1. ftable'[g].ip = ftable[g].ip /\ ftable[g].ref > 0
      BY <1>1, <1>5, <1>7, <2>1
    <3>2. /\ ftable[g].ip # NONE /\ dino[ftable[g].ip].type # "free"
          /\ ftable[g].off <= Len(dino[ftable[g].ip].addrs)
      BY <3>1 DEF IInv, FilesInv
    <3>3. g # f => ftable'[g].off = ftable[g].off
      BY <1>7
    <3>4. QED
      BY <1>1, <1>3, <1>6, <1>7, <3>1, <3>2, <3>3
  <2>2. QED
    BY <2>1 DEF FilesInv
<1>15. FilesMoves(p, u)
  <2>1. Moves(p, u) /\ OwnCwd(p) /\ icache' \in Caches
    BY <1>2, <1>3, <1>4, <1>8 DEF Moves, OwnCwd, LocksOne
  <2>2. /\ UNCHANGED <<dino, dents, used, cwd, ofile>> /\ u.pc \notin {"free", "unlink1"}
        /\ ofile' \in [Procs -> [Fds -> Files \cup {NONE}]]
    BY <1>2, <1>3, <1>4
  <2>3. QED
    BY <1>2, <1>7, <1>9, <1>10, <1>11, <1>12, <1>13, <1>14, <2>1, <2>2 DEF FilesMoves
<1>16. FilesModest(p, u)
  <2>1. \A j \in Inums : icache'[j].valid => icache[j].valid \/ OpenFiles(j) # {}
    BY <1>5, <1>8 DEF LocksOne
  <2>2. QED
    BY <1>1, <1>3, <1>9, <1>10, <2>1 DEF FilesModest, PathInv
<1>17. QED
  BY <1>15, <1>16

\* The count of descriptors when the process q gets those of p.
LEMMA ForkedCount ==
    ASSUME IInv, NEW p \in Procs, NEW q \in Procs, p # q, \A fd \in Fds : ofile[q][fd] = NONE,
           ofile' = [ofile EXCEPT ![q] = ofile[p]], NEW f \in Files
    PROVE  /\ Cardinality({fd \in Fds : ofile[p][fd] = f}) \in Nat
           /\ Cardinality(Descriptors(f)') = Cardinality(Descriptors(f)) + Cardinality({fd \in Fds : ofile[p][fd] = f})
<1>1. PICK D, S, T : /\ D = {fd \in Fds : ofile[p][fd] = f} /\ S = Descriptors(f) /\ T = {q} \X D
  OBVIOUS
<1>2. ofile \in [Procs -> [Fds -> Files \cup {NONE}]] /\ f # NONE
  BY SizeAssumption DEF IInv, TypeOK, NONE, Files
<1>3. /\ IsFiniteSet(D) /\ IsFiniteSet(S) /\ IsFiniteSet({q}) /\ Cardinality({q}) = 1
  BY <1>1, DescriptorsFinite, FS_Subset, FS_Singleton
<1>4. IsFiniteSet(T) /\ Cardinality(T) = 1 * Cardinality(D) /\ Cardinality(D) \in Nat /\ Cardinality(S) \in Nat
  BY <1>1, <1>3, FS_Product, FS_CardinalityType
<1>5. Descriptors(f)' = S \cup T
  <2>1. Descriptors(f)' = {x \in Procs \X Fds : ofile'[x[1]][x[2]] = f}
    BY DEF Descriptors
  <2>2. \A x \in Procs \X Fds : ofile'[x[1]][x[2]] = IF x[1] = q THEN ofile[p][x[2]] ELSE ofile[x[1]][x[2]]
    BY <1>2
  <2>3. \A x \in Procs \X Fds : /\ x \in S <=> ofile[x[1]][x[2]] = f
                                /\ x \in T <=> x[1] = q /\ ofile[p][x[2]] = f
    BY <1>1 DEF Descriptors
  <2>4. S \subseteq Procs \X Fds /\ T \subseteq Procs \X Fds
    BY <1>1 DEF Descriptors
  <2>5. \A x \in Procs \X Fds : x \in S => x[1] # q
    BY <1>2, <2>3
  <2>6. QED
    BY <2>1, <2>2, <2>3, <2>4, <2>5
<1>6. S \cap T = {}
  <2>1. ASSUME NEW x \in S, x \in T PROVE FALSE
    <3>1. x \in Procs \X Fds /\ ofile[x[1]][x[2]] = f /\ x[1] = q
      BY <1>1, <2>1 DEF Descriptors
    <3>2. QED
      BY <1>2, <3>1
  <2>2. QED
    BY <2>1
<1>7. Cardinality(S \cup T) = Cardinality(S) + Cardinality(T) - Cardinality(S \cap T)
  BY <1>3, <1>4, FS_Union
<1>8. Cardinality(S \cap T) = 0
  BY <1>6, FS_EmptySet
<1>9. PICK a, b \in Nat : a = Cardinality(S) /\ b = Cardinality(D)
  BY <1>4
<1>10. QED
  BY <1>1, <1>4, <1>5, <1>7, <1>8, <1>9

\* fork(): the process q starts with the files and the directory of p.
LEMMA ForkFiles ==
    ASSUME IInv, NEW p \in Procs, NEW q \in Procs, Fork(p, q)
    PROVE  \E u : FilesMoves(q, u) /\ FilesModest(q, u)
<1>1. PICK i, t, u : i = cwd[p] /\ t = th[q] /\ u = Idle
  OBVIOUS
<1>2. /\ th[p].pc = "idle" /\ t.pc = "dead" /\ UNCHANGED <<dino, dents, used>>
      /\ ofile' = [ofile EXCEPT ![q] = ofile[p]] /\ cwd' = [cwd EXCEPT ![q] = i]
      /\ icache' = IGet(icache, i) /\ th' = [th EXCEPT ![q] = u] /\ p # q
      /\ ftable' = [f \in Files |-> [ftable[f] EXCEPT !.ref = @ + Cardinality({fd \in Fds : ofile[p][fd] = f})]]
  BY <1>1 DEF Fork, disk
<1>3. /\ th \in [Procs -> Locals] /\ icache \in Caches /\ cwd \in [Procs -> Pointers] /\ ftable \in FileTable
      /\ ofile \in [Procs -> [Fds -> Files \cup {NONE}]] /\ TypeOK /\ NONE \in Pointers
  BY DEF IInv, TypeOK, FileTable, Pointers
<1>4. calls' \in 0..MaxCalls
  BY SizeAssumption DEF Fork, IInv, TypeOK
<1>5. /\ At(t) = "dead"
      /\ \A j \in Inums : /\ ~HasLocked(t, j) /\ ~Keeps(t, j) /\ ~PointsIn(t, j)
                          /\ ~Owes(t, j) /\ ~Fresh(q, j) /\ Held(t, j) = 0
  BY <1>1, <1>2, IdleHere
<1>6. i \in Inums /\ i # NONE /\ cwd[q] = NONE /\ \A fd \in Fds : ofile[q][fd] = NONE
  <2>1. At(th[p]) = "idle"
    BY <1>2, IdleHere
  <2>2. QED
    BY <1>1, <1>5, <2>1, LocalsHere DEF IInv, DeadInv
<1>7. /\ u \in Locals /\ CallInv(u) /\ At(u) = "idle" /\ u.pc \notin {"free", "unlink1", "link1"} /\ u.dp = NONE
      /\ PathOk(u)
      /\ \A j \in Inums : ~HasLocked(u, j) /\ ~Keeps(u, j) /\ ~PointsIn(u, j) /\ Held(u, j) = 0
  <2>1. u.cur = NONE /\ u.ip = NONE /\ u.dp = NONE /\ u.pc = "idle"
        /\ u.rest = <<>> /\ u.new.elems = <<>> /\ u.name = "f" /\ <<>> \in Seq(Names \cup {"."})
    BY <1>1 DEF Idle, NoPath
  <2>2. \A j \in Inums : ~PointsIn(u, j)
    BY <2>1 DEF PointsIn, NONE, Inums
  <2>3. QED
    BY <1>1, <2>1, <2>2, IdleLocals DEF PathOk
<1>8. /\ icache' \in Caches
      /\ \A j \in Inums : /\ icache'[j].ref = IF j = i THEN icache[j].ref + 1 ELSE icache[j].ref
                          /\ icache'[j].lock = icache[j].lock /\ icache'[j].node = icache[j].node
                          /\ icache'[j].valid <=> icache[j].valid /\ (j = i => icache[j].ref > 0)
  BY <1>2, <1>3, <1>6, IGetCache
<1>9. icache[i].ref > 0
  BY <1>1, <1>6, PointerRef
<1>10. cwd' \in [Procs -> Pointers] /\ cwd'[q] = i /\ \A r \in Procs \ {q} : cwd'[r] = cwd[r]
  BY <1>1, <1>2, <1>3
<1>11. ofile' \in [Procs -> [Fds -> Files \cup {NONE}]] /\ \A r \in Procs \ {q} : ofile'[r] = ofile[r]
  BY <1>2, <1>3
<1>12. ASSUME NEW f \in Files
       PROVE  /\ ftable'[f] \in [ref : Nat, ip : Pointers, off : 0..MAXFILE, writable : BOOLEAN]
              /\ ftable'[f].ref = Cardinality(Descriptors(f)') /\ ftable'[f].ref >= ftable[f].ref
              /\ ftable'[f].ip = ftable[f].ip /\ ftable'[f].off = ftable[f].off
              /\ ftable[f].ref = 0 => ftable'[f].ref = 0
  <2>1. PICK k : k = Cardinality({fd \in Fds : ofile[p][fd] = f})
    OBVIOUS
  <2>2. k \in Nat /\ Cardinality(Descriptors(f)') = Cardinality(Descriptors(f)) + k
    BY <1>2, <1>6, <2>1, ForkedCount
  <2>3. ftable[f].ref = Cardinality(Descriptors(f)) /\ ftable[f].ref \in Nat
    BY <1>3 DEF IInv, RefsCounted, FileTable
  <2>4. PICK x : x = ftable[f]
    OBVIOUS
  <2>5. x \in [ref : Nat, ip : Pointers, off : 0..MAXFILE, writable : BOOLEAN]
    BY <1>3, <2>4 DEF FileTable
  <2>6. PICK m : m = x.ref + k
    OBVIOUS
  <2>7. m \in Nat /\ ftable'[f] = [x EXCEPT !.ref = m]
    BY <1>2, <2>1, <2>2, <2>4, <2>5, <2>6
  <2>8. /\ ftable'[f] \in [ref : Nat, ip : Pointers, off : 0..MAXFILE, writable : BOOLEAN]
        /\ ftable'[f].ref = m /\ ftable'[f].ip = x.ip /\ ftable'[f].off = x.off
    BY <2>5, <2>7
  <2>9. m = Cardinality(Descriptors(f)') /\ m >= x.ref
    BY <2>2, <2>3, <2>4, <2>6
  <2>10. ASSUME x.ref = 0 PROVE k = 0
    <3>1. {fd \in Fds : ofile[p][fd] = f} = {}
      <4>1. ASSUME NEW fd \in Fds, ofile[p][fd] = f PROVE FALSE
        <5>1. f # NONE
          BY SizeAssumption DEF NONE, Files
        <5>2. ftable[f].ref > 0
          BY <4>1, <5>1, DescriptorRef
        <5>3. QED
          BY <2>4, <2>10, <5>2
      <4>2. QED
        BY <4>1
    <3>2. QED
      BY <2>1, <3>1, FS_EmptySet
  <2>11. QED
    BY <2>4, <2>6, <2>8, <2>9, <2>10
<1>13. ftable' \in FileTable
  BY <1>2, <1>12 DEF FileTable
<1>14. \A j : OpenFiles(j)' = OpenFiles(j)
  <2>1. \A f \in Files : (ftable'[f].ref > 0 <=> ftable[f].ref > 0) /\ ftable'[f].ip = ftable[f].ip
    <3>1. ASSUME NEW f \in Files PROVE (ftable'[f].ref > 0 <=> ftable[f].ref > 0) /\ ftable'[f].ip = ftable[f].ip
      <4>1. ftable[f].ref \in Nat /\ ftable'[f].ref \in Nat
        BY <1>3, <1>13 DEF FileTable
      <4>2. QED
        BY <1>12, <4>1
    <3>2. QED
      BY <3>1
  <2>2. QED
    BY <2>1 DEF OpenFiles
<1>15. ASSUME NEW j \in Inums PROVE RefsMoved(q, u, j)
  <2>1. PICK o \in Nat : o = Cardinality(OpenFiles(j)) /\ o = Cardinality(OpenFiles(j)')
    BY <1>14, OpenFilesFinite
  <2>2. icache'[j].ref = icache[j].ref + Is(i, j) /\ icache[j].ref \in Nat /\ Is(i, j) \in Nat
    BY <1>3, <1>8 DEF Is, Caches
  <2>3. Is(cwd[q], j) = 0 /\ Is(cwd'[q], j) = Is(i, j)
    BY <1>6, <1>10 DEF Is, NONE, Inums
  <2>4. RefsMoved(q, u, j) <=> icache[j].ref + Is(i, j) + 0 + 0 + o = icache[j].ref + 0 + Is(i, j) + o
    BY <1>1, <1>5, <1>7, <2>1, <2>2, <2>3 DEF RefsMoved
  <2>5. QED
    BY <2>1, <2>2, <2>4
<1>16. LocksMoved(q, u)
  <2>1. \A j \in Inums : icache[j].lock # q
    BY <1>1, <1>5 DEF IInv, LockInv
  <2>2. QED
    BY <1>7, <1>8, <2>1 DEF LocksMoved
<1>17. CacheMoved
  BY <1>2, <1>8, <1>9 DEF CacheMoved, IInv, CacheInv
<1>18. FilesInv'
  <2>1. ASSUME NEW g \in Files, ftable'[g].ref > 0
        PROVE  /\ ftable'[g].ip # NONE /\ dino'[ftable'[g].ip].type # "free"
               /\ ftable'[g].off <= Len(dino'[ftable'[g].ip].addrs)
    <3>1. ftable[g].ref > 0
      <4>1. ftable[g].ref \in Nat
        BY <1>3 DEF FileTable
      <4>2. QED
        BY <1>12, <2>1, <4>1
    <3>2. ftable'[g].ip = ftable[g].ip /\ ftable'[g].off = ftable[g].off
      BY <1>12
    <3>3. QED
      BY <1>2, <3>1, <3>2 DEF IInv, FilesInv
  <2>2. QED
    BY <2>1 DEF FilesInv
<1>19. FilesMoves(q, u)
  <2>1. Moves(q, u) /\ OwnCwd(q)
    BY <1>2, <1>7, <1>10 DEF Moves, OwnCwd
  <2>2. UNCHANGED <<dino, dents, used>> /\ icache' \in Caches /\ cwd'[q] # NONE /\ At(u) \notin {"dead", "dropdir"}
    BY <1>2, <1>6, <1>7, <1>8, <1>10
  <2>3. dino[i].type = "dir"
    BY <1>1, <1>6 DEF IInv, KeptInv
  <2>4. \A f \in Files : ftable'[f].ref = Cardinality(Descriptors(f))'
    BY <1>12
  <2>5. \A j \in Inums : cwd'[q] = j => \E r \in Procs : cwd[r] = j
    BY <1>1, <1>10
  <2>6. cwd'[q] # NONE => cwd'[q] = cwd[q] \/ dino[cwd'[q]].type = "dir"
    BY <1>10, <2>3
  <2>7. QED
    BY <1>4, <1>7, <1>11, <1>13, <1>14, <1>15, <1>16, <1>17, <1>18, <2>1, <2>2, <2>4, <2>5, <2>6 DEF FilesMoves
<1>20. FilesModest(q, u)
  <2>1. \A j \in Inums : cwd'[q] = j => \E r \in Procs : cwd[r] = j
    BY <1>1, <1>10
  <2>2. \A j \in Inums : icache'[j].valid => icache[j].valid
    BY <1>8
  <2>3. QED
    BY <1>1, <1>5, <1>7, <1>14, <2>1, <2>2 DEF FilesModest
<1>21. QED
  BY <1>19, <1>20

\* A file may grow; nothing else changes that the tree of directories is about.
Grows ==
    /\ UNCHANGED <<th, cwd, dents>> /\ \A j : OpenFiles(j)' = OpenFiles(j)
    /\ \A j \in Inums : /\ dino'[j].type = dino[j].type /\ dino'[j].nlink = dino[j].nlink
                        /\ icache'[j].ref = icache[j].ref
                        /\ icache'[j].valid => icache[j].valid \/ OpenFiles(j) # {}

\* write() of an open file.
LEMMA WriteGrows ==
    ASSUME IInv, NEW p \in Procs, NEW fd \in Fds, Write(p, fd)
    PROVE  (\E u : WholeMoves(p, u)) /\ Grows
<1>1. PICK f, i, u, o, n : f = ofile[p][fd] /\ i = ftable[f].ip /\ u = th[p] /\ o = ftable[f].off
                           /\ n = Written(Node(i), o)
  OBVIOUS
<1>2. /\ u.pc = "idle" /\ calls' \in 0..MaxCalls /\ f # NONE /\ u \in Locals /\ th = [th EXCEPT ![p] = u]
      /\ cwd[p] # NONE
  BY <1>1, UsesHere DEF Write
<1>3. /\ UNCHANGED <<dents, ofile, cwd, th>> /\ CanLock(i) /\ o < MAXFILE
      /\ HasRoom(Node(i).addrs, o)
      /\ icache' = Updated(Locked(i, NOBODY), i, n) /\ dino' = [dino EXCEPT ![i] = n]
      /\ used' = used \cup Range(n.addrs) /\ ftable' = [ftable EXCEPT ![f].off = @ + 1]
  BY <1>1 DEF Write, IUpdate
<1>4. /\ icache \in Caches /\ cwd \in [Procs -> Pointers] /\ ftable \in FileTable /\ dino \in [Inums -> Nodes]
      /\ ofile \in [Procs -> [Fds -> Files \cup {NONE}]] /\ TypeOK /\ dents \in [Inums -> [Elements -> Pointers]]
  BY DEF IInv, TypeOK, FileTable
<1>5. f \in Files /\ ftable[f].ref > 0 /\ i \in Inums /\ f \in OpenFiles(i)
  BY <1>1, <1>2, DescriptorRef
<1>6. Node(i) = dino[i] /\ dino[i] \in Nodes /\ icache[i].lock = NOBODY /\ dino[i].type # "free"
  BY <1>3, <1>5, NodeOnDisk DEF CanLock
<1>7. PICK l : l = Len(dino[i].addrs)
  OBVIOUS
<1>8. o \in Nat /\ l \in Nat /\ o <= l /\ MAXFILE \in Nat
  <2>1. o <= l
    BY <1>1, <1>5, <1>7 DEF IInv, FilesInv
  <2>2. o \in 0..MAXFILE /\ MAXFILE \in Nat
    BY <1>1, <1>4, <1>5, SizeAssumption DEF FileTable
  <2>3. l \in Nat
    BY <1>6, <1>7 DEF Nodes
  <2>4. QED
    BY <2>1, <2>2, <2>3
<1>9. PICK s : s = BMap(dino[i].addrs, o)
  OBVIOUS
<1>10. n = [dino[i] EXCEPT !.addrs = s] /\ n.addrs = s /\ n.type = dino[i].type /\ n.nlink = dino[i].nlink
  <2>1. n = [dino[i] EXCEPT !.addrs = s]
    BY <1>1, <1>6, <1>9 DEF Written, Nodes
  <2>2. QED
    BY <1>6, <2>1 DEF Nodes
<1>11. dino'[i] = n /\ \A j \in Inums \ {i} : dino'[j] = dino[j]
  BY <1>3, <1>4, <1>5
<1>12. /\ BlocksOwned' /\ used' \subseteq Blocks /\ s \in Seq(Blocks)
       /\ Len(s) <= MAXFILE + 1 /\ Len(s) >= l /\ o + 1 <= Len(s)
  <2>1. dino'[i].addrs = BMap(dino[i].addrs, o) /\ used' = used \cup Range(BMap(dino[i].addrs, o))
    BY <1>3, <1>9, <1>10, <1>11
  <2>2. HasRoom(dino[i].addrs, o) /\ o < MAXFILE /\ o <= Len(dino[i].addrs)
    BY <1>3, <1>6, <1>7, <1>8
  <2>3. \A j \in Inums \ {i} : dino'[j].addrs = dino[j].addrs
    BY <1>11
  <2>4. /\ BlocksOwned' /\ used' \subseteq Blocks
        /\ dino'[i].addrs \in Seq(Blocks) /\ Len(dino'[i].addrs) <= MAXFILE + 1
        /\ Len(dino'[i].addrs) >= Len(dino[i].addrs)
        /\ o + 1 <= Len(dino'[i].addrs)
    BY <1>5, <1>8, <2>1, <2>2, <2>3, BlocksMapped
  <2>5. QED
    BY <1>7, <1>9, <2>1, <2>4
<1>13. n \in Nodes /\ dino' \in [Inums -> Nodes]
  <2>1. n \in Nodes
    BY <1>6, <1>10, <1>12 DEF Nodes
  <2>2. QED
    BY <1>3, <1>4, <1>5, <2>1
<1>14. /\ icache' \in Caches
       /\ \A j \in Inums : /\ icache'[j].ref = icache[j].ref
                           /\ icache'[j].lock = icache[j].lock
                           /\ icache'[j].valid <=> j = i \/ icache[j].valid
                           /\ icache'[j].node = IF j = i THEN n ELSE icache[j].node
  <2>1. PICK c1 : c1 = Locked(i, NOBODY)
    OBVIOUS
  <2>2. /\ c1 \in Caches
        /\ \A j \in Inums : /\ c1[j].ref = icache[j].ref
                            /\ c1[j].lock = IF j = i THEN NOBODY ELSE icache[j].lock
                            /\ c1[j].valid <=> j = i \/ icache[j].valid
                            /\ c1[j].node = IF j = i THEN dino[i] ELSE icache[j].node
    BY <1>5, <2>1, LockedCache
  <2>3. icache' = Updated(c1, i, n)
    BY <1>3, <2>1
  <2>4. /\ icache' \in Caches
        /\ \A j \in Inums : /\ icache'[j].ref = c1[j].ref /\ icache'[j].lock = c1[j].lock
                            /\ icache'[j].valid <=> c1[j].valid
                            /\ icache'[j].node = IF j = i THEN n ELSE c1[j].node
    <3>1. i \in Inums /\ n \in Nodes /\ c1 \in Caches
      BY <1>5, <1>13, <2>2
    <3>2. QED
      BY <2>3, <3>1, UpdatedCache
  <2>5. QED
    BY <1>6, <2>2, <2>4
<1>15. o + 1 \in 0..MAXFILE /\ o + 1 <= Len(s)
  BY <1>3, <1>8, <1>12
<1>16. /\ ftable' \in FileTable /\ ftable'[f].ref = ftable[f].ref /\ ftable'[f].ip = i /\ ftable'[f].off = o + 1
       /\ \A g \in Files \ {f} : ftable'[g] = ftable[g]
  <2>1. PICK r : r = o + 1
    OBVIOUS
  <2>2. ftable' = [ftable EXCEPT ![f].off = r] /\ r \in 0..MAXFILE
    BY <1>1, <1>3, <1>4, <1>5, <1>15, <2>1 DEF FileTable
  <2>3. QED
    BY <1>1, <1>4, <1>5, <2>1, <2>2 DEF FileTable
<1>17. /\ At(u) = "idle" /\ u.dp = NONE /\ CallInv(u)
       /\ \A j \in Inums : /\ ~HasLocked(u, j) /\ ~Keeps(u, j) /\ ~PointsIn(u, j)
                           /\ ~Owes(u, j) /\ ~Fresh(p, j) /\ Held(u, j) = 0
  BY <1>1, <1>2, IdleHere
<1>18. (\A j : OpenFiles(j)' = OpenFiles(j)) /\ \A g \in Files : ftable'[g].ref = Cardinality(Descriptors(g))'
  <2>1. \A g \in Files : ftable'[g].ref = ftable[g].ref /\ ftable'[g].ip = ftable[g].ip
    BY <1>1, <1>16
  <2>2. QED
    BY <1>3, <2>1, SameOpenFiles, SameDescriptors DEF IInv
<1>19. ASSUME NEW j \in Inums PROVE RefsMoved(p, u, j)
  <2>1. PICK k \in Nat : k = Cardinality(OpenFiles(j)) /\ k = Cardinality(OpenFiles(j)')
    BY <1>18, OpenFilesFinite
  <2>2. PICK c \in Nat : c = Is(cwd[p], j) /\ c = Is(cwd'[p], j)
    BY <1>3 DEF Is
  <2>3. icache'[j].ref = icache[j].ref
    BY <1>14
  <2>4. RefsMoved(p, u, j) <=> icache[j].ref + 0 + c + k = icache[j].ref + 0 + c + k
    BY <1>1, <1>17, <2>1, <2>2, <2>3 DEF RefsMoved
  <2>5. QED
    BY <2>4
<1>20. LocksMoved(p, u)
  <2>1. \A j \in Inums : icache[j].lock # p
    BY <1>1, <1>17 DEF IInv, LockInv
  <2>2. QED
    BY <1>14, <1>17, <2>1 DEF LocksMoved
<1>21. CacheMoved
  BY <1>6, <1>10, <1>11, <1>14 DEF CacheMoved, IInv, CacheInv
<1>22. NodesKept
  <2>1. \A j \in Inums : Len(dino[j].addrs) \in Nat
    BY <1>4 DEF Nodes
  <2>2. dino'[i].type = dino[i].type /\ Len(dino'[i].addrs) >= Len(dino[i].addrs)
    BY <1>7, <1>10, <1>11, <1>12
  <2>3. \A j \in Inums : dino'[j].type = dino[j].type /\ Len(dino'[j].addrs) >= Len(dino[j].addrs)
    BY <1>11, <2>1, <2>2
  <2>4. QED
    BY <2>3 DEF NodesKept
<1>23. FilesInv'
  <2>1. ASSUME NEW g \in Files, ftable'[g].ref > 0
        PROVE  /\ ftable'[g].ip # NONE /\ dino'[ftable'[g].ip].type # "free"
               /\ ftable'[g].off <= Len(dino'[ftable'[g].ip].addrs)
    <3>1. ftable'[g].ip = ftable[g].ip /\ ftable[g].ref > 0
      BY <1>1, <1>5, <1>16, <2>1
    <3>2. PICK j, a : j = ftable[g].ip /\ a = ftable[g].off
      OBVIOUS
    <3>3. j # NONE /\ dino[j].type # "free" /\ a <= Len(dino[j].addrs)
      BY <3>1, <3>2 DEF IInv, FilesInv
    <3>4. j \in Inums /\ a \in Int
      BY <1>4, <1>8, <3>2, <3>3 DEF FileTable, Pointers
    <3>5. PICK k, m \in Nat : k = Len(dino[j].addrs) /\ m = Len(dino'[j].addrs)
      BY <1>4, <1>13, <3>4 DEF Nodes
    <3>6. dino'[j].type = dino[j].type /\ m >= k
      BY <1>22, <3>3, <3>4, <3>5 DEF NodesKept
    <3>7. CASE g = f
      BY <1>1, <1>10, <1>11, <1>15, <1>16, <3>1, <3>2, <3>3, <3>6, <3>7
    <3>8. CASE g # f
      BY <1>16, <3>1, <3>2, <3>3, <3>4, <3>5, <3>6, <3>8
    <3>9. QED
      BY <3>7, <3>8
  <2>2. QED
    BY <2>1 DEF FilesInv
<1>24. Moves(p, u) /\ OwnCwd(p)
  BY <1>2, <1>3, <1>4 DEF Moves, OwnCwd
<1>25. KeptInv'
  <2>1. KeepsMoved(p, u)
    BY <1>3, <1>17 DEF KeepsMoved
  <2>2. QED
    BY <1>4, <1>22, <1>24, <2>1, KeptStep DEF IInv
<1>26. FreeNodes'
  BY <1>6, <1>10, <1>11, <1>12 DEF FreeNodes, IInv
<1>27. FreeingMoved(p, u) /\ FoundMoved(p, u)
  <2>1. \A j \in Inums : dino'[j].nlink = dino[j].nlink
    BY <1>10, <1>11
  <2>2. FoundAt(u, dents') /\ u.pc # "free"
    BY <1>2 DEF FoundAt, Putting
  <2>3. QED
    BY <1>3, <1>17, <1>18, <2>1, <2>2 DEF FreeingMoved, FoundMoved
<1>28. WholeMoves(p, u)
  <2>1. /\ calls' \in 0..MaxCalls
        /\ ftable' \in [Files -> [ref : Nat, ip : Pointers, off : 0..MAXFILE, writable : BOOLEAN]]
        /\ ofile' \in [Procs -> [Fds -> Files \cup {NONE}]] /\ dents' \in [Inums -> [Elements -> Pointers]]
        /\ (\A q \in Procs \ {p} : ofile'[q] = ofile[q]) /\ cwd'[p] # NONE /\ At(u) # "dead"
    BY <1>2, <1>3, <1>4, <1>16, <1>17 DEF FileTable
  <2>2. QED
    BY <2>1, <1>12, <1>13, <1>14, <1>17, <1>18, <1>19, <1>20, <1>21, <1>23, <1>24, <1>25, <1>26, <1>27 DEF WholeMoves
<1>29. Grows
  <2>1. OpenFiles(i) # {}
    BY <1>5
  <2>2. QED
    BY <1>3, <1>10, <1>11, <1>14, <1>18, <2>1 DEF Grows
<1>30. QED
  BY <1>28, <1>29

\* close() is fileclose() of one descriptor.
LEMMA CloseFiles ==
    ASSUME IInv, NEW p \in Procs, NEW fd \in Fds, Close(p, fd)
    PROVE  \E u : FilesMoves(p, u) /\ FilesModest(p, u)
<1>1. Uses(p, fd) /\ FileClose(p, fd, "idle")
  BY DEF Close
<1>2. th[p].pc = "idle" /\ calls' \in 0..MaxCalls /\ ofile[p][fd] # NONE
  BY <1>1, UsesHere
<1>3. QED
  BY <1>1, <1>2, FileCloseFiles

\* exit() closes a descriptor or ends.
LEMMA ExitMoves ==
    ASSUME IInv, NEW p \in Procs, ExitCloses(p)
    PROVE  \E u : FilesMoves(p, u) /\ FilesModest(p, u)
<1>1. PICK open : open = {fd \in Fds : ofile[p][fd] # NONE}
  OBVIOUS
<1>2. CASE open = {}
  BY <1>1, <1>2, ExitEnds
<1>3. CASE open # {}
  <2>1. th[p].pc = "exit" /\ UNCHANGED calls /\ FileClose(p, Min(open), "exit")
    BY <1>1, <1>3 DEF ExitCloses
  <2>2. Min(open) \in Fds /\ ofile[p][Min(open)] # NONE
    <3>1. open \in SUBSET Nat
      BY <1>1, DescriptorsFinite
    <3>2. Min(open) \in open
      BY <1>3, <3>1, Least
    <3>3. QED
      BY <1>1, <3>2
  <2>3. calls' \in 0..MaxCalls
    BY <2>1 DEF IInv, TypeOK
  <2>4. PICK fd : fd = Min(open)
    OBVIOUS
  <2>5. fd \in Fds /\ ofile[p][fd] # NONE /\ FileClose(p, fd, "exit")
    BY <2>1, <2>2, <2>4
  <2>6. QED
    BY <2>1, <2>3, <2>5, FileCloseFiles
<1>4. QED
  BY <1>2, <1>3

-----------------------------------------------------------------------------
(* The invariant holds. *)

\* The steps of p, by what they change: locals and the cache; open files and
\* current directories; links and names; the inode that is freed; a file that
\* grows.
DiskKind(p, u) ==
    \E i, d : \/ Allocates(p, u, i) \/ LinksFirst(p, u, i, d) \/ Unlinks(p, u, i, d)
              \/ Drops(p, u, i) \/ AddsLink(p, u, i) \/ LinksMore(p, u, i, d)
StepKind(p, u) ==
    \/ Plain(p, u) /\ Modest(p, u)
    \/ FilesMoves(p, u) /\ FilesModest(p, u)
    \/ DiskMoves(p, u) /\ DiskKind(p, u)
    \/ WholeMoves(p, u) /\ \E i : Frees(p, u, i)
    \/ WholeMoves(p, u) /\ Grows

\* A step of a call, on its own locals and on one inode or two, is of a kind.
LEMMA CallKind ==
    ASSUME IInv, NEW p \in Procs,
           \/ Walk(p) \/ Open(p) \/ Create(p) \/ CreateLink(p) \/ Exists(p)
           \/ FOpen(p) \/ Made(p) \/ Unlink(p) \/ UnlinkEntry(p) \/ Unlinked(p)
           \/ DropDir(p) \/ Link(p) \/ LinkDir(p) \/ LinkBad(p) \/ Chdir(p)
           \/ PutLock(p) \/ PutFree(p) \/ PutDeref(p)
           \/ Exit(p) \/ ExitCloses(p)
    PROVE  \E u : StepKind(p, u)
<1>1. CASE Walk(p)
  BY <1>1, WalkPlain DEF StepKind
<1>2. CASE Open(p)
  BY <1>2, OpenPlain DEF StepKind
<1>3. CASE Create(p)
  <2>1. CASE DirLookup(th[p].dp, th[p].name) = NONE
    BY <1>3, <2>1, CreateNew DEF StepKind, DiskKind
  <2>2. CASE DirLookup(th[p].dp, th[p].name) # NONE
    BY <1>3, <2>2, CreateFound DEF StepKind
  <2>3. QED
    BY <2>1, <2>2
<1>4. CASE CreateLink(p)
  BY <1>4, CreateLinkNew DEF StepKind, DiskKind
<1>5. CASE Exists(p)
  BY <1>5, ExistsPlain DEF StepKind
<1>6. CASE FOpen(p)
  <2>1. CASE FreeFiles = {} \/ FreeFds(p) = {}
    BY <1>6, <2>1, FOpenFull DEF StepKind
  <2>2. CASE ~(FreeFiles = {} \/ FreeFds(p) = {})
    BY <1>6, <2>2, FOpenFiles DEF StepKind
  <2>3. QED
    BY <2>1, <2>2
<1>7. CASE Made(p)
  BY <1>7, MadePlain DEF StepKind
<1>8. CASE Unlink(p)
  BY <1>8, UnlinkPlain DEF StepKind
<1>9. CASE UnlinkEntry(p)
  <2>1. CASE Node(th[p].ip).type = "dir" /\ ~IsDirEmpty(th[p].ip)
    BY <1>9, <2>1, UnlinkFull DEF StepKind
  <2>2. CASE ~(Node(th[p].ip).type = "dir" /\ ~IsDirEmpty(th[p].ip))
    BY <1>9, <2>2, UnlinkErases DEF StepKind, DiskKind
  <2>3. QED
    BY <2>1, <2>2
<1>10. CASE Unlinked(p) \/ LinkBad(p)
  BY <1>10, DropsLink DEF StepKind, DiskKind
<1>11. CASE DropDir(p)
  BY <1>11, DropDirPlain DEF StepKind
<1>12. CASE Link(p)
  <2>1. CASE Linkable(Node(th[p].ip))
    BY <1>12, <2>1, LinkAdds DEF StepKind, DiskKind
  <2>2. CASE ~Linkable(Node(th[p].ip))
    BY <1>12, <2>2, LinkOfDir DEF StepKind
  <2>3. QED
    BY <2>1, <2>2
<1>13. CASE LinkDir(p)
  <2>1. CASE DirLookup(th[p].dp, th[p].name) = NONE
    BY <1>13, <2>1, LinkDirNew DEF StepKind, DiskKind
  <2>2. CASE DirLookup(th[p].dp, th[p].name) # NONE
    BY <1>13, <2>2, LinkDirFound DEF StepKind
  <2>3. QED
    BY <2>1, <2>2
<1>14. CASE Chdir(p)
  BY <1>14, ChdirFiles DEF StepKind
<1>15. CASE PutLock(p)
  BY <1>15, PutLockPlain DEF StepKind
<1>16. CASE PutFree(p)
  BY <1>16, PutFreeFrees DEF StepKind
<1>17. CASE PutDeref(p)
  BY <1>17, PutDerefPlain DEF StepKind
<1>18. CASE Exit(p)
  BY <1>18, ExitPlain DEF StepKind
<1>19. CASE ExitCloses(p)
  BY <1>19, ExitMoves DEF StepKind
<1>20. QED
  BY <1>1, <1>2, <1>3, <1>4, <1>5, <1>6, <1>7, <1>8, <1>9, <1>10, <1>11, <1>12, <1>13, <1>14,
     <1>15, <1>16, <1>17, <1>18, <1>19

\* Every step is of a kind.
LEMMA NextKind ==
    ASSUME IInv, Next
    PROVE  \E p, u : StepKind(p, u)
<1>1. CASE \E p \in Procs, r \in Requests : Call(p, r[1], r[2], r[3])
  BY <1>1, CallPlain DEF StepKind
<1>2. CASE \E p \in Procs : \/ Walk(p) \/ Open(p) \/ Create(p) \/ CreateLink(p) \/ Exists(p)
                            \/ FOpen(p) \/ Made(p) \/ Unlink(p) \/ UnlinkEntry(p) \/ Unlinked(p)
                            \/ DropDir(p) \/ Link(p) \/ LinkDir(p) \/ LinkBad(p) \/ Chdir(p)
                            \/ PutLock(p) \/ PutFree(p) \/ PutDeref(p)
                            \/ Exit(p) \/ ExitCloses(p)
  BY <1>2, CallKind
<1>3. ASSUME NEW p \in Procs, NEW fd \in Fds, Close(p, fd) \/ Dup(p, fd) \/ Read(p, fd) \/ Write(p, fd)
      PROVE  \E u : StepKind(p, u)
  <2>1. CASE Close(p, fd)
    BY <2>1, CloseFiles DEF StepKind
  <2>2. CASE Dup(p, fd)
    BY <2>2, DupFiles DEF StepKind
  <2>3. CASE Read(p, fd)
    BY <2>3, ReadFiles DEF StepKind
  <2>4. CASE Write(p, fd)
    BY <2>4, WriteGrows DEF StepKind
  <2>5. QED
    BY <1>3, <2>1, <2>2, <2>3, <2>4
<1>4. ASSUME NEW p \in Procs, NEW q \in Procs, Fork(p, q)
      PROVE  \E u : StepKind(q, u)
  BY <1>4, ForkFiles DEF StepKind
<1>5. QED
  BY <1>1, <1>2, <1>3, <1>4 DEF Next

\* Every step keeps the invariant.
LEMMA NextInv ==
    ASSUME IInv, [Next]_vars
    PROVE  IInv'
<1>1. CASE Next
  <2>1. PICK p, u : StepKind(p, u)
    BY <1>1, NextKind
  <2>2. Plain(p, u) \/ DiskMoves(p, u) \/ WholeMoves(p, u) \/ FilesMoves(p, u)
    BY <2>1 DEF StepKind
  <2>3. QED
    BY <2>2, PlainStep, DiskStep, WholeStep, FilesWhole
<1>2. CASE UNCHANGED vars
  <2>1. UNCHANGED <<dino, icache, dents, used, ftable, ofile, cwd, th, calls>>
    BY <1>2 DEF vars
  <2>2. TypeOK' /\ LockInv' /\ CacheInv' /\ FreeNodes' /\ KeptInv' /\ FilesInv' /\ FoundInv'
    BY <2>1 DEF IInv, TypeOK, LockInv, CacheInv, FreeNodes, KeptInv, FilesInv, FoundInv
  <2>3. RefsCounted' /\ FreeingInv'
    <3>1. /\ \A i : OpenFiles(i)' = OpenFiles(i) /\ HeldByCalls(i)' = HeldByCalls(i)
          /\ \A f : Descriptors(f)' = Descriptors(f)
      BY <2>1 DEF OpenFiles, HeldByCalls, Descriptors
    <3>2. RefsCounted'
      BY <2>1, <3>1 DEF IInv, RefsCounted
    <3>3. FreeingInv'
      BY <2>1, <3>1 DEF IInv, FreeingInv
    <3>4. QED
      BY <3>2, <3>3
  <2>4. BlocksOwned'
    BY <2>1 DEF IInv, BlocksOwned, Owned, BlockAt
  <2>5. \A p \in Procs : CallInv(th[p])' /\ DeadInv(p)'
    BY <2>1 DEF IInv, DeadInv
  <2>6. QED
    BY <2>2, <2>3, <2>4, <2>5 DEF IInv
<1>3. QED
  BY <1>1, <1>2

\* The initial state, by variable.
LEMMA InitTypes ==
    ASSUME Init
    PROVE  /\ dino \in [Inums -> Nodes] /\ icache \in Caches
           /\ dents \in [Inums -> [Elements -> Pointers]] /\ used \subseteq Blocks
           /\ ftable \in [Files -> [ref : Nat, ip : Pointers, off : 0..MAXFILE, writable : BOOLEAN]]
           /\ ofile \in [Procs -> [Fds -> Files \cup {NONE}]]
           /\ cwd \in [Procs -> {1, 2}] /\ cwd \in [Procs -> Pointers]
           /\ th \in [Procs -> Locals] /\ calls \in 0..MaxCalls
<1>1. {1, 2, 3} \subseteq Inums /\ {1, 2, 3, 4, 5} \subseteq Blocks /\ NONE \notin Inums /\ NONE \notin Blocks
  BY DiskAssumption DEF Inums, Blocks, NONE
<1>2. <<1>> \in Seq(Blocks) /\ <<2>> \in Seq(Blocks) /\ TwoBlocks \in Seq(Blocks) /\ <<>> \in Seq(Blocks)
  BY <1>1 DEF TwoBlocks
<1>3. dino \in [Inums -> Nodes]
  <2>1. /\ [type |-> "dir", nlink |-> 2, addrs |-> <<1>>] \in Nodes
        /\ [type |-> "dir", nlink |-> 1, addrs |-> <<2>>] \in Nodes
        /\ [type |-> "file", nlink |-> 1, addrs |-> TwoBlocks] \in Nodes
        /\ Free \in Nodes
    BY <1>2 DEF Nodes, Free
  <2>2. QED
    BY <2>1 DEF Init
<1>4. cwd \in [Procs -> {1, 2}] /\ cwd \in [Procs -> Pointers]
  <2>1. cwd \in [Procs -> {1, 2}]
    BY DEF Init
  <2>2. {1, 2} \subseteq Pointers
    BY <1>1 DEF Pointers
  <2>3. QED
    BY <2>1, <2>2
<1>5. icache \in Caches
  <2>1. \A i : Cardinality({p \in Procs : cwd[p] = i}) \in Nat
    <3>1. \A i : {p \in Procs : cwd[p] = i} \subseteq Procs
      OBVIOUS
    <3>2. QED
      BY <3>1, ProcsAssumption, FS_Subset, FS_CardinalityType
  <2>2. Free \in Nodes
    BY <1>2 DEF Nodes, Free
  <2>3. icache = [i \in Inums |-> [ref |-> Cardinality({p \in Procs : cwd[p] = i}),
                                   valid |-> FALSE, lock |-> NOBODY, node |-> Free]]
    BY DEF Init
  <2>4. QED
    BY <2>1, <2>2, <2>3 DEF Caches
<1>6. dents \in [Inums -> [Elements -> Pointers]]
  <2>1. {1, 2, 3, NONE} \subseteq Pointers
    BY <1>1 DEF Pointers
  <2>2. NoDents \in [Elements -> Pointers]
    BY <2>1 DEF NoDents
  <2>3. /\ [NoDents EXCEPT !["."] = 1, ![".."] = 1, !["d"] = 2, !["f"] = 3] \in [Elements -> Pointers]
        /\ [NoDents EXCEPT !["."] = 2, ![".."] = 1] \in [Elements -> Pointers]
    BY <2>1, <2>2
  <2>4. QED
    BY <2>2, <2>3 DEF Init
<1>7. used \subseteq Blocks
  BY <1>1, <1>2 DEF Init, Range
<1>8. ftable \in [Files -> [ref : Nat, ip : Pointers, off : 0..MAXFILE, writable : BOOLEAN]]
  <2>1. NoFile \in [ref : Nat, ip : Pointers, off : 0..MAXFILE, writable : BOOLEAN]
    BY SizeAssumption DEF NoFile, Pointers, NONE
  <2>2. QED
    BY <2>1 DEF Init
<1>9. ofile \in [Procs -> [Fds -> Files \cup {NONE}]]
  BY DEF Init
<1>10. th \in [Procs -> Locals]
  BY IdleLocals DEF Init
<1>11. calls \in 0..MaxCalls
  BY SizeAssumption DEF Init
<1>12. QED
  BY <1>3, <1>4, <1>5, <1>6, <1>7, <1>8, <1>9, <1>10, <1>11

\* The inodes of the initial state.
LEMMA InitNodes ==
    ASSUME Init
    PROVE  /\ {1, 2, 3} \subseteq Inums
           /\ dino[1] = [type |-> "dir", nlink |-> 2, addrs |-> <<1>>]
           /\ dino[2] = [type |-> "dir", nlink |-> 1, addrs |-> <<2>>]
           /\ dino[3] = [type |-> "file", nlink |-> 1, addrs |-> TwoBlocks]
           /\ \A i \in Inums \ {1, 2, 3} : dino[i] = Free
<1>1. {1, 2, 3} \subseteq Inums
  BY DiskAssumption DEF Inums
<1>2. QED
  BY <1>1 DEF Init

\* The invariant holds initially.
LEMMA InitInv ==
    ASSUME Init
    PROVE  IInv
<1>1. TypeOK
  BY InitTypes DEF TypeOK
<1>2. /\ cwd \in [Procs -> {1, 2}] /\ th = [p \in Procs |-> Idle]
      /\ ftable = [f \in Files |-> NoFile] /\ ofile = [p \in Procs |-> [fd \in Fds |-> NONE]]
      /\ icache = [i \in Inums |-> [ref |-> Cardinality({p \in Procs : cwd[p] = i}),
                                    valid |-> FALSE, lock |-> NOBODY, node |-> Free]]
      /\ used = {1, 2} \cup Range(TwoBlocks)
  BY DEF Init
<1>3. NONE \notin Inums /\ NONE \notin Files /\ Cardinality({}) = 0
  BY FS_EmptySet DEF Inums, Files, NONE
<1>4. RefsCounted
  <2>1. ASSUME NEW i \in Inums
        PROVE  icache[i].ref = Cardinality({p \in Procs : cwd[p] = i})
                               + Cardinality(OpenFiles(i)) + HeldByCalls(i)
    <3>1. Cardinality(OpenFiles(i)) = 0
      <4>1. OpenFiles(i) = {}
        BY <1>2 DEF OpenFiles, NoFile
      <4>2. QED
        BY <1>3, <4>1
    <3>2. HeldByCalls(i) = 0
      <4>1. /\ {p \in Procs : th[p].cur = i} = {} /\ {p \in Procs : th[p].ip = i} = {}
            /\ {p \in Procs : th[p].dp = i} = {} /\ {p \in Procs : th[p].put = i} = {}
            /\ {p \in Procs : th[p].put2 = i} = {}
        BY <1>2, <1>3 DEF Idle
      <4>2. QED
        BY <1>3, <4>1 DEF HeldByCalls
    <3>3. PICK c : c = Cardinality({p \in Procs : cwd[p] = i})
      OBVIOUS
    <3>4. icache[i].ref = c /\ icache[i].ref \in Nat
      BY <1>1, <1>2, <3>3 DEF TypeOK, Caches
    <3>5. QED
      BY <3>1, <3>2, <3>3, <3>4
  <2>2. ASSUME NEW f \in Files PROVE ftable[f].ref = Cardinality(Descriptors(f))
    <3>1. Descriptors(f) = {}
      BY <1>2, <1>3 DEF Descriptors
    <3>2. QED
      BY <1>2, <1>3, <3>1 DEF NoFile
  <2>3. QED
    BY <2>1, <2>2 DEF RefsCounted
<1>5. LockInv
  BY <1>2, ProcsAssumption DEF LockInv, HasLocked, At, Putting, Idle
<1>6. CacheInv
  BY <1>2 DEF CacheInv
<1>7. FreeNodes
  <2>1. \A k \in {0, 1, 2, 3} : k <= MAXFILE + 1
    BY SizeAssumption
  <2>2. Len(<<1>>) = 1 /\ Len(<<2>>) = 1 /\ Len(TwoBlocks) \in {2, 3} /\ Len(<<>>) = 0
    BY DEF TwoBlocks
  <2>3. ASSUME NEW i \in Inums PROVE Len(dino[i].addrs) <= MAXFILE + 1
    <3>1. dino[i].addrs \in {<<1>>, <<2>>, TwoBlocks, <<>>}
      BY InitNodes DEF Free
    <3>2. Len(dino[i].addrs) \in {0, 1, 2, 3}
      BY <2>2, <3>1
    <3>3. QED
      BY <2>1, <3>2
  <2>4. QED
    BY <2>3, InitNodes DEF FreeNodes
<1>8. KeptInv
  <2>1. \A p \in Procs : dino[cwd[p]].type = "dir"
    BY <1>2, InitNodes
  <2>2. \A p \in Procs : th[p].dp = NONE /\ \A i \in Inums : ~Keeps(th[p], i)
    BY <1>2, IdleLocals DEF Idle
  <2>3. QED
    BY <2>1, <2>2 DEF KeptInv
<1>9. FilesInv
  BY <1>2 DEF FilesInv, NoFile
<1>10. FreeingInv /\ FoundInv
  BY <1>2 DEF FreeingInv, FoundInv, Putting, Idle
<1>11. BlocksOwned
  <2>1. PICK s : s = TwoBlocks
    OBVIOUS
  <2>2. /\ DOMAIN <<1>> = {1} /\ DOMAIN <<2>> = {1} /\ DOMAIN <<>> = {}
        /\ DOMAIN s \subseteq 1..3 /\ \A k \in DOMAIN s : s[k] = k + 2
    BY <2>1 DEF TwoBlocks
  <2>3. {1, 2, 3} \subseteq 1..(MAXFILE + 1)
    BY SizeAssumption
  <2>4. ASSUME NEW x PROVE x \in Owned <=> x \in {<<1, 1>>, <<2, 1>>} \cup {<<3, k>> : k \in DOMAIN s}
    <3>1. ASSUME NEW i \in Inums, NEW k \in 1..(MAXFILE + 1)
          PROVE  k \in DOMAIN dino[i].addrs <=> (i \in {1, 2} /\ k = 1) \/ (i = 3 /\ k \in DOMAIN s)
      BY <2>1, <2>2, InitNodes DEF Free
    <3>2. QED
      BY <2>2, <2>3, <3>1, InitNodes DEF Owned
  <2>5. /\ BlockAt(<<1, 1>>) = 1 /\ BlockAt(<<2, 1>>) = 2
        /\ \A k \in DOMAIN s : BlockAt(<<3, k>>) = s[k]
    BY <2>1, InitNodes DEF BlockAt
  <2>6. used = {BlockAt(x) : x \in Owned}
    <3>1. ASSUME NEW b \in used PROVE \E x \in Owned : BlockAt(x) = b
      BY <1>2, <2>1, <2>4, <2>5 DEF Range
    <3>2. ASSUME NEW x \in Owned PROVE BlockAt(x) \in used
      BY <1>2, <2>1, <2>4, <2>5 DEF Range
    <3>3. QED
      BY <3>1, <3>2
  <2>7. ASSUME NEW x \in Owned, NEW y \in Owned, BlockAt(x) = BlockAt(y) PROVE x = y
    BY <2>2, <2>4, <2>5, <2>7
  <2>8. QED
    BY <2>6, <2>7 DEF BlocksOwned
<1>12. \A p \in Procs : CallInv(th[p]) /\ DeadInv(p)
  <2>1. ASSUME NEW p \in Procs PROVE CallInv(th[p]) /\ DeadInv(p)
    <3>1. th[p] = Idle /\ cwd[p] # NONE
      BY <1>2 DEF NONE
    <3>2. QED
      BY <3>1, IdleLocals DEF DeadInv
  <2>2. QED
    BY <2>1
<1>13. QED
  BY <1>1, <1>4, <1>5, <1>6, <1>7, <1>8, <1>9, <1>10, <1>11, <1>12 DEF IInv

\* The invariant holds in every reachable state, whatever the paths.
THEOREM Invariant == Spec => []IInv
<1>1. Init => IInv
  BY InitInv
<1>2. IInv /\ [Next]_vars => IInv'
  BY NextInv
<1>3. QED
  BY <1>1, <1>2, PTL DEF Spec

\* Every variable of the file system keeps its type.
THEOREM TypeCorrect == Spec => []TypeOK
<1>1. IInv => TypeOK
  BY DEF IInv
<1>2. QED
  BY <1>1, Invariant, PTL

\* A cached inode's reference count is the number of current directories, open
\* files and locals that point to it, and an open file's the number of its
\* descriptors: iget(), idup(), iput(), filedup() and fileclose() lose none.
THEOREM RefsAreCounted == Spec => []RefsCounted
<1>1. IInv => RefsCounted
  BY DEF IInv
<1>2. QED
  BY <1>1, Invariant, PTL

\* A valid entry of the inode cache is the inode on disk: every change is
\* followed by iupdate() before the lock is released, and iput() and iget()
\* invalidate the entry before the inode is used again.
THEOREM CacheIsCoherent == Spec => []CacheCoherent
<1>1. IInv => CacheCoherent
  BY DEF IInv, CacheInv, CacheCoherent
<1>2. QED
  BY <1>1, Invariant, PTL

\* The bitmap marks exactly the blocks of the inodes, the indirect blocks and
\* what they list included, and no block is in two places: what balloc() gives is
\* nobody's, and itrunc() frees all that bmap() took.
THEOREM BlocksAreOwned == Spec => []BlocksOwned
<1>1. IInv => BlocksOwned
  BY DEF IInv
<1>2. QED
  BY <1>1, Invariant, PTL

-----------------------------------------------------------------------------
(* The tree of directories. *)

\* Names are not . or ..
LEMMA NamesAndDots ==
    /\ Names \subseteq Elements /\ "." \in Elements /\ ".." \in Elements
    /\ "." \notin Names /\ ".." \notin Names
    /\ Elements = Names \cup {".", ".."}
  BY DEF Names, Dots, Elements

\* Links can be counted.
LEMMA LinksFinite ==
    /\ IsFiniteSet(Inums) /\ IsFiniteSet(Inums \X Names)
    /\ \A i : IsFiniteSet(Entries(i)) /\ IsFiniteSet(Subdirs(i)) /\ IsFiniteSet(Owing(i))
    /\ \A i : IsFiniteSet(Entries(i)') /\ IsFiniteSet(Subdirs(i)') /\ IsFiniteSet(Owing(i)')
<1>1. IsFiniteSet(Inums)
  BY DiskAssumption, FS_Interval DEF Inums
<1>2. IsFiniteSet(Names)
  <2>1. IsFiniteSet({"d"}) /\ Names = {"d"} \cup {"f"}
    BY FS_Singleton DEF Names
  <2>2. QED
    BY <2>1, FS_AddElement
<1>3. IsFiniteSet(Inums \X Names)
  BY <1>1, <1>2, FS_Product
<1>4. \A i : /\ Entries(i) \in SUBSET (Inums \X Names) /\ Entries(i)' \in SUBSET (Inums \X Names)
             /\ Subdirs(i) \in SUBSET Inums /\ Subdirs(i)' \in SUBSET Inums
             /\ Owing(i) \in SUBSET Procs /\ Owing(i)' \in SUBSET Procs
  BY DEF Entries, Subdirs, Owing
<1>5. QED
  BY <1>1, <1>3, <1>4, ProcsAssumption, FS_Subset

\* The number of links that an inode needs, as its three parts.
LEMMA NeedParts ==
    ASSUME NEW i
    PROVE  /\ \E a, b, c \in Nat : /\ a = Cardinality(Entries(i)) /\ b = Cardinality(Subdirs(i))
                                   /\ c = Cardinality(Owing(i))
                                   /\ Need(i) = a + b + c + (IF i = ROOTINO THEN 1 ELSE 0)
           /\ \E a, b, c \in Nat : /\ a = Cardinality(Entries(i)') /\ b = Cardinality(Subdirs(i)')
                                   /\ c = Cardinality(Owing(i)')
                                   /\ Need(i)' = a + b + c + (IF i = ROOTINO THEN 1 ELSE 0)
<1>1. /\ Cardinality(Entries(i)) \in Nat /\ Cardinality(Subdirs(i)) \in Nat /\ Cardinality(Owing(i)) \in Nat
      /\ Cardinality(Entries(i)') \in Nat /\ Cardinality(Subdirs(i)') \in Nat /\ Cardinality(Owing(i)') \in Nat
  BY LinksFinite, FS_CardinalityType
<1>2. QED
  BY <1>1 DEF Need

\* An inode that nothing new leads to needs no more links than before.
LEMMA NeedLess ==
    ASSUME NEW i, Entries(i)' \subseteq Entries(i), Subdirs(i)' \subseteq Subdirs(i),
           Owing(i)' \subseteq Owing(i)
    PROVE  Need(i)' <= Need(i) /\ Need(i) \in Nat /\ Need(i)' \in Nat
<1>1. PICK a, b, c \in Nat : /\ a = Cardinality(Entries(i)) /\ b = Cardinality(Subdirs(i))
                             /\ c = Cardinality(Owing(i))
                             /\ Need(i) = a + b + c + (IF i = ROOTINO THEN 1 ELSE 0)
  BY NeedParts
<1>2. PICK x, y, z \in Nat : /\ x = Cardinality(Entries(i)') /\ y = Cardinality(Subdirs(i)')
                             /\ z = Cardinality(Owing(i)')
                             /\ Need(i)' = x + y + z + (IF i = ROOTINO THEN 1 ELSE 0)
  BY NeedParts
<1>3. x <= a /\ y <= b /\ z <= c
  BY <1>1, <1>2, LinksFinite, FS_Subset
<1>4. QED
  BY <1>1, <1>2, <1>3

\* An inode that is named has a link and is in use; one without links has no
\* name, is nobody's .. and is not the root.
LEMMA LinksMean ==
    ASSUME IInv, LinksInv, NEW i \in Inums
    PROVE  /\ Entries(i) # {} => dino[i].nlink >= 1
           /\ dino[i].nlink >= 1 => dino[i].type # "free"
           /\ dino[i].nlink = 0 => /\ Entries(i) = {} /\ Subdirs(i) = {} /\ Owing(i) = {} /\ i # ROOTINO
                                   /\ Need(i) = 0
           /\ dino[i].nlink \in Int
<1>1. PICK a, b, c \in Nat : /\ a = Cardinality(Entries(i)) /\ b = Cardinality(Subdirs(i))
                             /\ c = Cardinality(Owing(i))
                             /\ Need(i) = a + b + c + (IF i = ROOTINO THEN 1 ELSE 0)
  BY NeedParts
<1>2. PICK l \in Int : l = dino[i].nlink
  BY DEF IInv, TypeOK, Nodes
<1>3. l >= a + b + c + (IF i = ROOTINO THEN 1 ELSE 0)
  BY <1>1, <1>2 DEF LinksInv
<1>4. (a = 0 <=> Entries(i) = {}) /\ (b = 0 <=> Subdirs(i) = {}) /\ (c = 0 <=> Owing(i) = {})
  BY <1>1, LinksFinite, FS_EmptySet
<1>5. dino[i].nlink >= 1 => dino[i].type # "free"
  BY DEF IInv, FreeNodes, Free
<1>6. QED
  BY <1>1, <1>2, <1>3, <1>4, <1>5

\* The entry . of a directory that a call has reached.
LEMMA DotIsSelf ==
    ASSUME IInv, TreeInv, NEW p \in Procs, NEW d \in Inums, PointsIn(th[p], d) \/ cwd[p] = d,
           dino[d].type = "dir", ~Fresh(p, d)
    PROVE  dents[d]["."] = d /\ \A q \in Procs : ~Fresh(q, d)
<1>1. ASSUME NEW q \in Procs, Fresh(q, d) PROVE FALSE
  <2>1. q # p /\ NewInode(q, d)
    BY <1>1 DEF TreeInv, FreshInv
  <2>2. QED
    BY <2>1 DEF NewInode, PointsTo
<1>2. QED
  BY <1>1 DEF TreeInv, DentsInv

\* The inodes a call can get to are in use, are known to more than their
\* creator, and nobody frees them.
LEMMA KnownLive ==
    ASSUME IInv, TreeInv, NEW p \in Procs, NEW i \in Inums, Known(p, i), th[p].pc # "link1"
    PROVE  /\ dino[i].type # "free" /\ \A q \in Procs : ~Fresh(q, i)
           /\ \A q \in Procs \ {p} : ~(th[q].pc = "free" /\ th[q].put = i)
<1>1. CASE i = ROOTINO
  <2>1. dino[i].type = "dir" /\ dino[i].nlink # 0
    BY <1>1, LinksMean DEF TreeInv, LinksInv
  <2>2. QED
    BY <2>1 DEF TreeInv, FreshInv, NewInode, IInv, FreeingInv
<1>2. CASE cwd[p] = i
  <2>1. dino[i].type # "free"
    BY <1>2 DEF TreeInv, LiveInv, PointsTo
  <2>2. \A q \in Procs : ~Fresh(q, i)
    BY <1>2 DEF TreeInv, FreshInv, NewInode, PointsTo
  <2>3. \A q \in Procs \ {p} : ~(th[q].pc = "free" /\ th[q].put = i)
    BY <1>2 DEF IInv, FreeingInv
  <2>4. QED
    BY <2>1, <2>2, <2>3
<1>3. CASE Entries(i) # {}
  <2>1. dino[i].type # "free" /\ dino[i].nlink # 0
    BY <1>3, LinksMean DEF TreeInv
  <2>2. QED
    BY <1>3, <2>1 DEF TreeInv, FreshInv, NewInode, IInv, FreeingInv
<1>4. CASE PointsIn(th[p], i)
  <2>1. dino[i].type # "free"
    BY <1>4 DEF TreeInv, LiveInv, PointsTo
  <2>2. \A q \in Procs : ~Fresh(q, i)
    BY <1>4 DEF TreeInv, FreshInv, NewInode, PointsTo, Fresh
  <2>3. ASSUME NEW q \in Procs \ {p}, th[q].pc = "free", th[q].put = i PROVE FALSE
    <3>1. icache[i].ref = 1
      BY <2>3 DEF TreeInv, LastInv
    <3>2. Held(th[p], i) = 0
      BY <2>3, <3>1, OnlyRef
    <3>3. Held(th[p], i) # 0
      BY <1>4 DEF PointsIn, Held, Is
    <3>4. QED
      BY <3>2, <3>3
  <2>4. QED
    BY <2>1, <2>2, <2>3
<1>5. ASSUME NEW d \in Inums, NEW n \in Elements, PointsIn(th[p], d), dents[d][n] = i,
             n = th[p].name \/ (th[p].rest # <<>> /\ n = Head(th[p].rest))
      PROVE  Entries(i) # {} \/ PointsIn(th[p], i)
  <2>1. n \in Names \cup {"."}
    <3>1. PathOk(th[p]) /\ th[p] \in Locals
      BY DEF TreeInv, PathInv, IInv, TypeOK
    <3>2. PICK s \in Seq(Names \cup {"."}) : s = th[p].rest
      BY <3>1 DEF PathOk
    <3>3. s # <<>> => Head(s) \in Names \cup {"."}
      OBVIOUS
    <3>4. CASE n = th[p].name
      BY <3>1, <3>4, NamesAndDots DEF PathOk
    <3>5. QED
      BY <1>5, <3>2, <3>3, <3>4
  <2>2. CASE n \in Names
    <3>1. <<d, n>> \in Inums \X Names /\ dents[<<d, n>>[1]][<<d, n>>[2]] = i
      BY <1>5, <2>2
    <3>2. <<d, n>> \in Entries(i)
      BY <3>1 DEF Entries
    <3>3. QED
      BY <3>2
  <2>3. CASE n = "."
    <3>1. dents[d] # NoDents /\ ~Fresh(p, d)
      BY <1>5, <2>3, NamesAndDots DEF NoDents, Inums, NONE, Fresh
    <3>2. dino[d].type = "dir"
      BY <3>1 DEF TreeInv, DentsInv
    <3>3. dents[d]["."] = d
      BY <1>5, <3>1, <3>2, DotIsSelf
    <3>4. QED
      BY <1>5, <2>3, <3>3
  <2>4. QED
    BY <2>1, <2>2, <2>3
<1>6. QED
  BY <1>1, <1>2, <1>3, <1>4, <1>5 DEF Known

\* The parts of the invariant, for a step of p whose locals become u.

\* The paths of the calls.
LEMMA PathStep ==
    ASSUME TypeOK, PathInv, NEW p, NEW u, Moves(p, u), PathOk(u)
    PROVE  PathInv'
<1>1. ASSUME NEW q \in Procs PROVE PathOk(th'[q])
  BY MovesOne DEF PathInv
<1>2. QED
  BY <1>1 DEF PathInv, PathOk

\* What p points to after the step.
PointsNow(p, u, i) == PointsIn(u, i) \/ cwd'[p] = i

\* No inode that is pointed to is free.
LEMMA LiveStep ==
    ASSUME TypeOK, LiveInv, NEW p, NEW u, Moves(p, u), OwnCwd(p),
           \A i \in Inums : PointsNow(p, u, i) => dino'[i].type # "free",
           \A q \in Procs \ {p}, i \in Inums : PointsTo(q, i) => dino'[i].type # "free"
    PROVE  LiveInv'
<1>1. ASSUME NEW q \in Procs, NEW i \in Inums, cwd'[q] = i \/ PointsIn(th'[q], i)
      PROVE  dino'[i].type # "free"
  <2>1. CASE q = p
    BY <1>1, <2>1, MovesOne DEF PointsNow
  <2>2. CASE q # p
    BY <1>1, <2>2, MovesOne DEF OwnCwd, PointsTo
  <2>3. QED
    BY <2>1, <2>2
<1>2. QED
  BY <1>1 DEF LiveInv, PointsTo, PointsIn

\* What the step must leave alone in an inode that is new to another process.
LeftNew(p, u, i) ==
    /\ ~PointsNow(p, u, i) /\ OpenFiles(i)' = {} /\ Entries(i)' = {} /\ ~icache'[i].valid
    /\ dents'[i] = dents[i] /\ dino'[i].nlink = dino[i].nlink /\ dino'[i].type = dino[i].type

\* New inodes stay new, and what p has allocated is new.
LEMMA FreshStep ==
    ASSUME TypeOK, FreshInv, NEW p, NEW u, Moves(p, u), OwnCwd(p),
           \A r \in Procs \ {p}, i \in Inums : Fresh(r, i) => LeftNew(p, u, i),
           \A i \in Inums : u.pc = "link1" /\ u.ip = i => NewInode(p, i)'
    PROVE  FreshInv'
<1>1. ASSUME NEW r \in Procs, NEW i \in Inums, th'[r].pc = "link1", th'[r].ip = i
      PROVE  NewInode(r, i)'
  <2>1. CASE r = p
    BY <1>1, <2>1, MovesOne
  <2>2. CASE r # p
    <3>1. th'[r] = th[r] /\ th'[p] = u /\ p \in Procs /\ \A q \in Procs \ {p} : th'[q] = th[q] /\ cwd'[q] = cwd[q]
      BY <2>2, MovesOne DEF OwnCwd
    <3>2. Fresh(r, i)
      BY <1>1, <3>1 DEF Fresh
    <3>3. LeftNew(p, u, i) /\ NewInode(r, i)
      BY <2>2, <3>2 DEF FreshInv
    <3>4. ASSUME NEW q \in Procs \ {r} PROVE cwd'[q] # i /\ ~PointsIn(th'[q], i)
      BY <3>1, <3>3 DEF LeftNew, PointsNow, NewInode, PointsTo
    <3>5. \A q \in Procs \ {r} : ~PointsTo(q, i)'
      BY <3>4 DEF PointsTo, PointsIn
    <3>6. /\ th'[r].dp # i /\ cwd'[r] # i /\ dents'[i] = NoDents /\ dino'[i].nlink = 0
          /\ (dino'[i].type = "dir" <=> th'[r].op = "mkdir") /\ th'[r].name \in Names
      BY <2>2, <3>1, <3>3 DEF LeftNew, NewInode
    <3>7. QED
      BY <3>3, <3>5, <3>6 DEF LeftNew, NewInode
  <2>3. QED
    BY <2>1, <2>2
<1>2. QED
  BY <1>1 DEF FreshInv, Fresh

\* iput() stays the only one that knows of the inode it frees.
LEMMA LastStep ==
    ASSUME TypeOK, NEW p, NEW u, Moves(p, u), u.pc = "free" => icache'[u.put].ref = 1,
           \A q \in Procs \ {p} : th[q].pc = "free" => icache'[th[q].put].ref = 1
    PROVE  LastInv'
<1>1. ASSUME NEW q \in Procs, th'[q].pc = "free" PROVE icache'[th'[q].put].ref = 1
  BY <1>1, MovesOne
<1>2. QED
  BY <1>1 DEF LastInv

\* The others that free an inode, before the step: nobody else knows it.
LEMMA LastKnown ==
    ASSUME IInv, TreeInv, NEW q \in Procs, th[q].pc = "free"
    PROVE  /\ th[q].put \in Inums /\ icache[th[q].put].ref = 1 /\ dino[th[q].put].nlink = 0
           /\ dino[th[q].put].type # "free"
           /\ OpenFiles(th[q].put) = {} /\ \A r \in Procs : cwd[r] # th[q].put /\ ~PointsIn(th[r], th[q].put)
           /\ \A r \in Procs \ {q} : Held(th[r], th[q].put) = 0
<1>1. PICK i : i = th[q].put
  OBVIOUS
<1>2. i \in Inums
  <2>1. th[q].put # NONE
    <3>1. CallInv(th[q])
      BY DEF IInv
    <3>2. QED
      BY <3>1 DEF CallInv, PointersAt, Putting
  <2>2. QED
    BY <1>1, <2>1, LocalsHere
<1>3. icache[i].ref = 1 /\ dino[i].nlink = 0
  BY <1>1 DEF TreeInv, LastInv, IInv, FreeingInv
<1>4. /\ OpenFiles(i) = {} /\ ~PointsIn(th[q], i) /\ (\A r \in Procs : cwd[r] # i)
      /\ \A r \in Procs \ {q} : Held(th[r], i) = 0
  BY <1>1, <1>2, <1>3, OnlyRef
<1>5. \A r \in Procs \ {q} : ~PointsIn(th[r], i)
  BY <1>4 DEF Held, Is, PointsIn
<1>6. dino[i].type # "free"
  <2>1. HasLocked(th[q], i)
    BY <1>1 DEF HasLocked
  <2>2. icache[i].lock = q
    BY <1>2, <2>1 DEF IInv, LockInv
  <2>3. QED
    BY <1>2, <2>2, ProcsAssumption DEF IInv, CacheInv
<1>7. QED
  BY <1>1, <1>2, <1>3, <1>4, <1>5, <1>6

\* The links that are owed.
LEMMA OwingStep ==
    ASSUME TypeOK, NEW p, NEW u, Moves(p, u), NEW i
    PROVE  /\ Owes(u, i) => Owing(i)' = Owing(i) \cup {p}
           /\ ~Owes(u, i) => Owing(i)' = Owing(i) \ {p}
           /\ p \in Owing(i) <=> Owes(th[p], i)
<1>1. p \in Procs /\ th'[p] = u /\ \A q \in Procs \ {p} : th'[q] = th[q]
  BY MovesOne
<1>2. Owing(i)' = {q \in Procs : Owes(th'[q], i)}
  BY DEF Owing, Owes, At, Putting
<1>3. QED
  BY <1>1, <1>2 DEF Owing

\* No inode that link() holds is a directory.
LEMMA LinkedFiles ==
    ASSUME TypeOK, LinksInv, NEW p, NEW u, Moves(p, u),
           u.op = "linkdir" /\ u.ip # NONE => dino'[u.ip].type # "dir",
           \A q \in Procs \ {p} : th[q].op = "linkdir" /\ th[q].ip # NONE => dino'[th[q].ip].type # "dir"
    PROVE  \A q \in Procs : th'[q].op = "linkdir" /\ th'[q].ip # NONE => dino'[th'[q].ip].type # "dir"
  BY MovesOne

\* Directories, when no entry changes.
LEMMA SameDents ==
    ASSUME UNCHANGED dents
    PROVE  /\ \A i : Entries(i)' = Entries(i) /\ Subdirs(i)' = Subdirs(i)
           /\ RankInv => RankInv'
           /\ DirsFormTree /\ (\A i \in Inums : dino'[i].type = dino[i].type) => DirsFormTree'
<1>1. \A i : Entries(i)' = Entries(i)
  BY DEF Entries
<1>2. \A i : Subdirs(i)' = Subdirs(i)
  BY <1>1 DEF Subdirs
<1>3. RankInv => RankInv'
  BY DEF RankInv
<1>4. DirsFormTree /\ (\A i \in Inums : dino'[i].type = dino[i].type) => DirsFormTree'
  <2>1. \A i : \A x \in Entries(i) : x[1] \in Inums
    BY DEF Entries
  <2>2. QED
    BY <1>1, <2>1 DEF DirsFormTree
<1>5. QED
  BY <1>1, <1>2, <1>3, <1>4

\* New inodes stay so while their creators do not move.
LEMMA FreshStays ==
    ASSUME TypeOK, NEW p, NEW u, Moves(p, u), NEW q \in Procs \ {p}, NEW i
    PROVE  Fresh(q, i)' <=> Fresh(q, i)
  BY MovesOne DEF Fresh

\* The entries of directories, when neither they nor the types change.
LEMMA DentsSame ==
    ASSUME TypeOK, DentsInv, NEW p, NEW u, Moves(p, u), th[p].pc # "link1", UNCHANGED dents,
           \A i \in Inums : dino'[i].type = dino[i].type
    PROVE  DentsInv'
<1>1. ASSUME NEW i \in Inums, NEW q \in Procs, Fresh(q, i) PROVE Fresh(q, i)'
  <2>1. q # p
    BY <1>1 DEF Fresh
  <2>2. QED
    BY <1>1, <2>1, FreshStays
<1>2. QED
  BY <1>1 DEF DentsInv

\* A step on locals and the cache keeps the tree.
LEMMA PlainTree ==
    ASSUME IInv, TreeInv, NoParentPaths, NEW p, NEW u, Plain(p, u), Modest(p, u)
    PROVE  TreeInv'
<1>1. /\ TypeOK /\ PathInv /\ LiveInv /\ FreshInv /\ DentsInv /\ LinksInv /\ DirsFormTree /\ RankInv /\ LastInv
      /\ icache \in Caches
  BY DEF TreeInv, IInv, TypeOK
<1>2. /\ Moves(p, u) /\ UNCHANGED <<dino, dents, ftable, cwd>> /\ icache' \in Caches
      /\ \A i \in Inums : icache'[i].ref + Held(th[p], i) = icache[i].ref + Held(u, i)
  BY DEF Plain
<1>3. /\ PathOk(u) /\ th[p].pc # "link1" /\ u.pc # "link1"
      /\ \A i \in Inums : /\ PointsIn(u, i) => PointsIn(th[p], i) \/ Known(p, i)
                          /\ Held(u, i) # 0 => Held(th[p], i) # 0 \/ Known(p, i)
                          /\ icache'[i].valid => icache[i].valid \/ PointsIn(th[p], i)
      /\ At(u) = "unlinked" => At(th[p]) = "unlinked" /\ u.ip = th[p].ip
      /\ u.op = "linkdir" /\ u.ip # NONE => th[p].op = "linkdir" /\ u.ip = th[p].ip
      /\ u.pc = "free" => icache'[u.put].ref = 1
  BY <1>1 DEF Modest
<1>4. p \in Procs /\ OwnCwd(p) /\ \A i : OpenFiles(i)' = OpenFiles(i)
  BY <1>1, <1>2, MovesOne DEF OwnCwd, TypeOK, OpenFiles
<1>5. \A i \in Inums : Known(p, i) =>
        /\ dino[i].type # "free" /\ \A q \in Procs : ~Fresh(q, i)
        /\ \A q \in Procs \ {p} : ~(th[q].pc = "free" /\ th[q].put = i)
  BY <1>3, <1>4, KnownLive
<1>6. PathInv'
  BY <1>1, <1>2, <1>3, PathStep
<1>7. LiveInv'
  <2>1. ASSUME NEW i \in Inums, PointsNow(p, u, i) PROVE dino'[i].type # "free"
    <3>1. PointsTo(p, i) \/ Known(p, i)
      BY <1>2, <1>3, <2>1 DEF PointsNow, PointsTo
    <3>2. QED
      BY <1>1, <1>2, <1>4, <1>5, <3>1 DEF LiveInv
  <2>2. \A q \in Procs \ {p}, i \in Inums : PointsTo(q, i) => dino'[i].type # "free"
    BY <1>1, <1>2 DEF LiveInv
  <2>3. QED
    BY <1>1, <1>2, <1>4, <2>1, <2>2, LiveStep
<1>8. (\A i : Entries(i)' = Entries(i) /\ Subdirs(i)' = Subdirs(i)) /\ RankInv' /\ DirsFormTree'
  BY <1>1, <1>2, SameDents
<1>9. FreshInv'
  <2>1. ASSUME NEW r \in Procs \ {p}, NEW i \in Inums, Fresh(r, i) PROVE LeftNew(p, u, i)
    <3>1. NewInode(r, i) /\ ~PointsTo(p, i) /\ ~Known(p, i)
      BY <1>1, <1>4, <1>5, <2>1 DEF FreshInv, NewInode
    <3>2. ~PointsNow(p, u, i) /\ ~icache'[i].valid
      BY <1>2, <1>3, <3>1 DEF PointsNow, PointsTo, NewInode
    <3>3. OpenFiles(i)' = {} /\ Entries(i)' = {}
      BY <1>4, <1>8, <3>1 DEF NewInode
    <3>4. QED
      BY <1>2, <3>2, <3>3 DEF LeftNew
  <2>2. QED
    BY <1>1, <1>2, <1>3, <1>4, <2>1, FreshStep
<1>10. DentsInv'
  BY <1>1, <1>2, <1>3, DentsSame
<1>11. LinksInv'
  <2>1. ASSUME NEW i \in Inums PROVE dino'[i].nlink >= Need(i)'
    <3>1. Owing(i)' \subseteq Owing(i)
      <4>1. Owes(u, i) => Owes(th[p], i)
        BY <1>3 DEF Owes, Inums, NONE
      <4>2. QED
        BY <1>1, <1>2, <4>1, OwingStep
    <3>2. Need(i)' <= Need(i) /\ Need(i) \in Nat /\ Need(i)' \in Nat
      BY <1>8, <3>1, NeedLess
    <3>3. dino'[i].nlink >= Need(i) /\ dino'[i].nlink \in Int
      BY <1>1, <1>2, LinksMean DEF LinksInv
    <3>4. QED
      BY <3>2, <3>3
  <2>2. \A q \in Procs : th'[q].op = "linkdir" /\ th'[q].ip # NONE => dino'[th'[q].ip].type # "dir"
    <3>1. u.op = "linkdir" /\ u.ip # NONE => dino'[u.ip].type # "dir"
      BY <1>1, <1>2, <1>3, <1>4 DEF LinksInv
    <3>2. \A q \in Procs \ {p} : th[q].op = "linkdir" /\ th[q].ip # NONE => dino'[th[q].ip].type # "dir"
      BY <1>1, <1>2 DEF LinksInv
    <3>3. QED
      BY <1>1, <1>2, <3>1, <3>2, LinkedFiles
  <2>3. QED
    BY <1>1, <1>2, <2>1, <2>2 DEF LinksInv
<1>12. LastInv'
  <2>1. ASSUME NEW q \in Procs \ {p}, th[q].pc = "free" PROVE icache'[th[q].put].ref = 1
    <3>1. PICK i : i = th[q].put
      OBVIOUS
    <3>2. i \in Inums /\ icache[i].ref = 1 /\ Held(th[p], i) = 0
      BY <1>4, <2>1, <3>1, LastKnown
    <3>3. Held(u, i) = 0
      BY <1>3, <1>5, <2>1, <3>1, <3>2
    <3>4. icache'[i].ref + 0 = 1 + 0 /\ icache'[i].ref \in Nat
      BY <1>2, <3>2, <3>3 DEF Caches
    <3>5. QED
      BY <3>1, <3>4
  <2>2. QED
    BY <1>1, <1>2, <1>3, <2>1, LastStep
<1>13. QED
  BY <1>6, <1>7, <1>8, <1>9, <1>10, <1>11, <1>12 DEF TreeInv

\* A step on open files and current directories keeps the tree.
LEMMA FilesTree ==
    ASSUME IInv, TreeInv, NEW p, NEW u, FilesMoves(p, u), FilesModest(p, u)
    PROVE  TreeInv'
<1>1. /\ TypeOK /\ PathInv /\ LiveInv /\ FreshInv /\ DentsInv /\ LinksInv /\ DirsFormTree /\ RankInv /\ LastInv
      /\ icache \in Caches
  BY DEF TreeInv, IInv, TypeOK
<1>2. /\ Moves(p, u) /\ OwnCwd(p) /\ UNCHANGED <<dino, dents>> /\ icache' \in Caches
      /\ u.pc # "free" /\ \A i \in Inums : RefsMoved(p, u, i)
  BY DEF FilesMoves
<1>3. /\ PathOk(u)
      /\ \A i \in Inums :
           /\ ~PointsIn(u, i) /\ ~Owes(th[p], i) /\ ~Fresh(p, i)
           /\ cwd'[p] = i => PointsIn(th[p], i) \/ \E q \in Procs : cwd[q] = i
           /\ OpenFiles(i)' # {} => PointsIn(th[p], i) \/ OpenFiles(i) # {}
           /\ Held(u, i) # 0 => Held(th[p], i) # 0 \/ cwd[p] = i \/ OpenFiles(i) # {}
           /\ icache'[i].valid => icache[i].valid \/ PointsIn(th[p], i) \/ OpenFiles(i) # {}
  BY <1>1 DEF FilesModest
<1>4. p \in Procs
  BY <1>1, <1>2, MovesOne
<1>6. PathInv'
  BY <1>1, <1>2, <1>3, PathStep
<1>7. LiveInv'
  <2>1. ASSUME NEW i \in Inums, PointsNow(p, u, i) PROVE dino'[i].type # "free"
    <3>1. \E q \in Procs : PointsTo(q, i)
      BY <1>3, <1>4, <2>1 DEF PointsNow, PointsTo
    <3>2. QED
      BY <1>1, <1>2, <3>1 DEF LiveInv
  <2>2. \A q \in Procs \ {p}, i \in Inums : PointsTo(q, i) => dino'[i].type # "free"
    BY <1>1, <1>2 DEF LiveInv
  <2>3. QED
    BY <1>1, <1>2, <2>1, <2>2, LiveStep
<1>8. (\A i : Entries(i)' = Entries(i) /\ Subdirs(i)' = Subdirs(i)) /\ RankInv' /\ DirsFormTree'
  BY <1>1, <1>2, SameDents
<1>9. FreshInv'
  <2>1. ASSUME NEW r \in Procs \ {p}, NEW i \in Inums, Fresh(r, i) PROVE LeftNew(p, u, i)
    <3>1. NewInode(r, i) /\ ~PointsTo(p, i)
      BY <1>1, <1>4, <2>1 DEF FreshInv, NewInode
    <3>2. \A q \in Procs : cwd[q] # i
      BY <3>1 DEF NewInode, PointsTo
    <3>3. ~PointsNow(p, u, i) /\ ~icache'[i].valid /\ OpenFiles(i)' = {}
      BY <1>3, <3>1, <3>2 DEF PointsNow, PointsTo, NewInode
    <3>4. Entries(i)' = {}
      BY <1>8, <3>1 DEF NewInode
    <3>5. QED
      BY <1>2, <3>3, <3>4 DEF LeftNew
  <2>2. \A i \in Inums : u.pc = "link1" /\ u.ip = i => NewInode(p, i)'
    BY <1>3 DEF PointsIn
  <2>3. QED
    BY <1>1, <1>2, <2>1, <2>2, FreshStep
<1>10. DentsInv'
  <2>1. ASSUME NEW i \in Inums, NEW q \in Procs, Fresh(q, i) PROVE Fresh(q, i)'
    BY <1>1, <1>2, <1>3, <2>1, FreshStays
  <2>2. QED
    BY <1>1, <1>2, <2>1 DEF DentsInv
<1>11. LinksInv'
  <2>1. ASSUME NEW i \in Inums PROVE dino'[i].nlink >= Need(i)'
    <3>1. Owing(i)' \subseteq Owing(i)
      <4>1. ~Owes(u, i)
        BY <1>3 DEF Owes, PointsIn
      <4>2. QED
        BY <1>1, <1>2, <4>1, OwingStep
    <3>2. Need(i)' <= Need(i) /\ Need(i) \in Nat /\ Need(i)' \in Nat
      BY <1>8, <3>1, NeedLess
    <3>3. dino'[i].nlink >= Need(i) /\ dino'[i].nlink \in Int
      BY <1>1, <1>2, LinksMean DEF LinksInv
    <3>4. QED
      BY <3>2, <3>3
  <2>2. \A q \in Procs : th'[q].op = "linkdir" /\ th'[q].ip # NONE => dino'[th'[q].ip].type # "dir"
    <3>1. u.ip = NONE
      <4>1. u.ip \in Pointers
        BY <1>1, <1>2, MovesOne DEF Locals
      <4>2. QED
        BY <1>3, <4>1 DEF Pointers, PointsIn
    <3>2. \A q \in Procs \ {p} : th[q].op = "linkdir" /\ th[q].ip # NONE => dino'[th[q].ip].type # "dir"
      BY <1>1, <1>2 DEF LinksInv
    <3>3. QED
      BY <1>1, <1>2, <3>1, <3>2, LinkedFiles
  <2>3. QED
    BY <1>1, <1>2, <2>1, <2>2 DEF LinksInv
<1>12. LastInv'
  <2>1. ASSUME NEW q \in Procs \ {p}, th[q].pc = "free" PROVE icache'[th[q].put].ref = 1
    <3>1. PICK i : i = th[q].put
      OBVIOUS
    <3>2. /\ i \in Inums /\ icache[i].ref = 1 /\ Held(th[p], i) = 0 /\ OpenFiles(i) = {}
          /\ \A r \in Procs : cwd[r] # i /\ ~PointsIn(th[r], i)
      BY <1>4, <2>1, <3>1, LastKnown
    <3>3. Held(u, i) = 0 /\ OpenFiles(i)' = {} /\ cwd'[p] # i /\ cwd[p] # i
      BY <1>3, <1>4, <3>2
    <3>4. Is(cwd[p], i) = 0 /\ Is(cwd'[p], i) = 0
      BY <3>3 DEF Is
    <3>5. Cardinality(OpenFiles(i)) = 0 /\ Cardinality(OpenFiles(i)') = 0
      BY <3>2, <3>3, FS_EmptySet
    <3>6. icache'[i].ref + 0 + 0 + 0 = 1 + 0 + 0 + 0 /\ icache'[i].ref \in Nat
      BY <1>2, <3>2, <3>3, <3>4, <3>5 DEF Caches, RefsMoved
    <3>7. QED
      BY <3>1, <3>6
  <2>2. QED
    BY <1>1, <1>2, <2>1, LastStep
<1>13. QED
  BY <1>6, <1>7, <1>8, <1>9, <1>10, <1>11, <1>12 DEF TreeInv

\* The growth of a file keeps the tree.
LEMMA GrowsTree ==
    ASSUME IInv, TreeInv, Grows
    PROVE  TreeInv'
<1>1. /\ PathInv /\ LiveInv /\ FreshInv /\ DentsInv /\ LinksInv /\ DirsFormTree /\ RankInv /\ LastInv
  BY DEF TreeInv
<1>2. /\ UNCHANGED <<th, cwd, dents>> /\ \A j : OpenFiles(j)' = OpenFiles(j)
      /\ \A j \in Inums : /\ dino'[j].type = dino[j].type /\ dino'[j].nlink = dino[j].nlink
                          /\ icache'[j].ref = icache[j].ref
                          /\ icache'[j].valid => icache[j].valid \/ OpenFiles(j) # {}
  BY DEF Grows
<1>3. (\A i : Entries(i)' = Entries(i) /\ Subdirs(i)' = Subdirs(i)) /\ RankInv' /\ DirsFormTree'
  BY <1>1, <1>2, SameDents
<1>4. PathInv'
  BY <1>1, <1>2 DEF PathInv
<1>5. \A p \in Procs : \A i : (PointsTo(p, i)' <=> PointsTo(p, i)) /\ (Fresh(p, i)' <=> Fresh(p, i))
  BY <1>2 DEF PointsTo, PointsIn, Fresh
<1>6. LiveInv'
  BY <1>1, <1>2, <1>5 DEF LiveInv
<1>7. FreshInv'
  <2>1. ASSUME NEW p \in Procs, NEW i \in Inums, Fresh(p, i) PROVE NewInode(p, i)'
    <3>1. NewInode(p, i)
      BY <1>1, <2>1 DEF FreshInv
    <3>2. QED
      BY <1>2, <1>3, <1>5, <3>1 DEF NewInode
  <2>2. QED
    BY <1>5, <2>1 DEF FreshInv
<1>8. DentsInv'
  BY <1>1, <1>2, <1>5 DEF DentsInv
<1>9. LinksInv'
  <2>1. ASSUME NEW i \in Inums PROVE dino'[i].nlink >= Need(i)'
    <3>1. Owing(i)' = Owing(i)
      BY <1>2 DEF Owing
    <3>2. Need(i)' <= Need(i) /\ Need(i) \in Nat /\ Need(i)' \in Nat
      BY <1>3, <3>1, NeedLess
    <3>3. dino'[i].nlink >= Need(i) /\ dino'[i].nlink \in Int
      BY <1>1, <1>2, LinksMean DEF LinksInv
    <3>4. QED
      BY <3>2, <3>3
  <2>2. ASSUME NEW q \in Procs, th[q].op = "linkdir", th[q].ip # NONE PROVE dino'[th[q].ip].type # "dir"
    <3>1. th[q].ip \in Inums
      BY <2>2, LocalsHere
    <3>2. QED
      BY <1>1, <1>2, <2>2, <3>1 DEF LinksInv
  <2>3. QED
    BY <1>1, <1>2, <2>1, <2>2, RootInum DEF LinksInv
<1>10. LastInv'
  <2>1. ASSUME NEW q \in Procs, th[q].pc = "free" PROVE icache'[th[q].put].ref = 1
    BY <1>2, <2>1, LastKnown
  <2>2. QED
    BY <1>2, <2>1 DEF LastInv
<1>11. QED
  BY <1>3, <1>4, <1>6, <1>7, <1>8, <1>9, <1>10 DEF TreeInv

\* What all steps on the disk have in common.
LEMMA DiskFacts ==
    ASSUME IInv, TreeInv, NEW p, NEW u, DiskMoves(p, u)
    PROVE  /\ TypeOK /\ PathInv /\ LiveInv /\ FreshInv /\ DentsInv /\ LinksInv /\ DirsFormTree
           /\ RankInv /\ LastInv
           /\ Moves(p, u) /\ OwnCwd(p) /\ p \in Procs /\ cwd' = cwd
           /\ \A i : OpenFiles(i)' = OpenFiles(i)
           /\ u \in Locals /\ th[p] \in Locals /\ u.pc # "free"
           /\ dents \in [Inums -> [Elements -> Pointers]] /\ dents' \in [Inums -> [Elements -> Pointers]]
           /\ dino \in [Inums -> Nodes] /\ dino' \in [Inums -> Nodes]
           /\ th[p].dp # NONE => th[p].dp \in Inums /\ dino[th[p].dp].type = "dir"
<1>1. TypeOK /\ Moves(p, u) /\ UNCHANGED <<cwd, ftable>> /\ u.pc # "free"
      /\ dents' \in [Inums -> [Elements -> Pointers]] /\ dino' \in [Inums -> Nodes]
  BY DEF IInv, DiskMoves
<1>2. p \in Procs /\ u \in Locals /\ th[p] \in Locals
  BY <1>1, MovesOne DEF TypeOK
<1>3. OwnCwd(p) /\ \A i : OpenFiles(i)' = OpenFiles(i)
  BY <1>1 DEF OwnCwd, TypeOK, OpenFiles
<1>4. th[p].dp # NONE => th[p].dp \in Inums /\ dino[th[p].dp].type = "dir"
  BY <1>2, LocalsHere DEF IInv, KeptInv
<1>5. QED
  BY <1>1, <1>2, <1>3, <1>4 DEF TreeInv, TypeOK

\* create() allocates an inode: the tree is the same, and the inode new.
LEMMA AllocTree ==
    ASSUME IInv, TreeInv, NEW p, NEW u, NEW a, DiskMoves(p, u), Allocates(p, u, a)
    PROVE  TreeInv'
<1>1. /\ TypeOK /\ PathInv /\ LiveInv /\ FreshInv /\ DentsInv /\ LinksInv /\ DirsFormTree /\ RankInv
      /\ LastInv /\ Moves(p, u) /\ OwnCwd(p) /\ p \in Procs /\ cwd' = cwd
      /\ (\A i : OpenFiles(i)' = OpenFiles(i)) /\ u.pc # "free"
      /\ dino \in [Inums -> Nodes]
      /\ th[p].dp # NONE => th[p].dp \in Inums /\ dino[th[p].dp].type = "dir"
  BY DiskFacts
<1>2. /\ th[p].pc \in CreateOps /\ th[p].op = th[p].pc /\ th[p].cur = NONE /\ th[p].ip = NONE
      /\ u.op = th[p].op /\ u.name = th[p].name /\ u.rest = th[p].rest /\ u.new = th[p].new
      /\ u.pc = "link1" /\ u.cur = NONE /\ u.ip = a /\ u.dp = th[p].dp
      /\ a \in Inums /\ a # u.dp /\ dino[a] = Free /\ ~icache[a].valid
      /\ dents[u.dp][u.name] = NONE
      /\ dino'[a].nlink = 0 /\ dino'[a].type # "free" /\ (dino'[a].type = "dir" <=> u.op = "mkdir")
      /\ (\A j \in Inums \ {a} : dino'[j] = dino[j]) /\ dents' = dents
      /\ \A j \in Inums : /\ icache'[j].valid => icache[j].valid \/ j = u.dp
                          /\ icache'[j].ref = icache[j].ref + Is(a, j)
  BY DEF Allocates, SameCall
<1>3. th[p].pc # "link1" /\ u.op \in CreateOps /\ u.op # "linkdir"
  BY <1>2 DEF CreateOps
<1>4. dino[a].type = "free" /\ dino[a].nlink = 0
  BY <1>2 DEF Free
<1>5. \A q \in Procs : ~PointsTo(q, a)
  BY <1>1, <1>2, <1>4 DEF LiveInv
<1>6. Entries(a) = {} /\ Subdirs(a) = {} /\ Owing(a) = {} /\ a # ROOTINO /\ Need(a) = 0
  BY <1>1, <1>2, <1>4, LinksMean
<1>7. dents[a] = NoDents /\ OpenFiles(a) = {}
  <2>1. dents[a] = NoDents
    BY <1>1, <1>2, <1>4 DEF DentsInv
  <2>2. \A f \in Files : ftable[f].ref > 0 => ftable[f].ip # a
    BY <1>4 DEF IInv, FilesInv
  <2>3. QED
    BY <2>1, <2>2 DEF OpenFiles
<1>8. th[p].dp \in Inums /\ dino[th[p].dp].type = "dir" /\ u.name \in Names
  <2>1. th[p].dp # NONE
    <3>1. CallInv(th[p])
      BY <1>1 DEF IInv
    <3>2. At(th[p]) = th[p].pc /\ th[p].pc \in ParentOps
      BY <1>2 DEF At, Putting, CreateOps, ParentOps
    <3>3. QED
      BY <3>1, <3>2 DEF CallInv, PointersAt
  <2>2. th[p].dp \in Inums /\ dino[th[p].dp].type = "dir"
    BY <1>1, <2>1
  <2>3. dents[th[p].dp]["."] = th[p].dp
    <3>1. PointsIn(th[p], th[p].dp) /\ ~Fresh(p, th[p].dp)
      BY <1>3 DEF PointsIn, Fresh
    <3>2. QED
      BY <1>1, <2>2, <3>1, DotIsSelf
  <2>4. th[p].name # "." /\ th[p].name # ".." /\ th[p].name \in Elements
    <3>1. th[p].name # "."
      BY <1>2, <2>1, <2>3
    <3>2. th[p].name # ".." /\ th[p].name \in Elements
      BY <1>1 DEF PathInv, PathOk, TypeOK, Locals
    <3>3. QED
      BY <3>1, <3>2
  <2>5. QED
    BY <1>2, <2>2, <2>4, NamesAndDots
<1>9. PathInv'
  <2>1. PathOk(u)
    BY <1>1, <1>2 DEF PathInv, PathOk
  <2>2. QED
    BY <1>1, <2>1, PathStep
<1>10. LiveInv'
  <2>1. ASSUME NEW i \in Inums, PointsNow(p, u, i) PROVE dino'[i].type # "free"
    <3>1. i = a \/ PointsTo(p, i)
      BY <1>1, <1>2, <2>1 DEF PointsNow, PointsTo, PointsIn, NONE, Inums
    <3>2. QED
      BY <1>1, <1>2, <3>1 DEF LiveInv
  <2>2. \A q \in Procs \ {p}, i \in Inums : PointsTo(q, i) => dino'[i].type # "free"
    BY <1>1, <1>2 DEF LiveInv
  <2>3. QED
    BY <1>1, <2>1, <2>2, LiveStep
<1>11. (\A i : Entries(i)' = Entries(i) /\ Subdirs(i)' = Subdirs(i)) /\ RankInv'
  BY <1>1, <1>2, SameDents
<1>12. \A i : Owing(i)' \subseteq Owing(i)
  <2>1. \A i : ~Owes(u, i)
    BY <1>2, <1>3 DEF Owes, At, Putting
  <2>2. QED
    BY <1>1, <2>1, OwingStep
<1>13. FreshInv'
  <2>1. ASSUME NEW r \in Procs \ {p}, NEW i \in Inums, Fresh(r, i) PROVE LeftNew(p, u, i)
    <3>1. NewInode(r, i) /\ ~PointsTo(p, i) /\ i # a
      BY <1>1, <1>5, <2>1 DEF FreshInv, NewInode, Fresh, PointsTo, PointsIn
    <3>2. ~PointsNow(p, u, i)
      BY <1>1, <1>2, <3>1 DEF PointsNow, PointsTo, PointsIn, NONE, Inums
    <3>3. ~icache'[i].valid
      BY <1>2, <3>1, <3>2 DEF NewInode, PointsNow, PointsIn
    <3>4. OpenFiles(i)' = {} /\ Entries(i)' = {}
      BY <1>1, <1>11, <3>1 DEF NewInode
    <3>5. QED
      BY <1>2, <3>1, <3>2, <3>3, <3>4 DEF LeftNew
  <2>2. NewInode(p, a)'
    <3>1. ASSUME NEW q \in Procs \ {p} PROVE ~PointsTo(q, a)'
      <4>1. th'[q] = th[q] /\ cwd'[q] = cwd[q]
        BY <1>1, MovesOne
      <4>2. QED
        BY <1>5, <4>1 DEF PointsTo, PointsIn
    <3>2. th'[p] = u
      BY <1>1, MovesOne
    <3>3. cwd'[p] # a /\ u.dp # a /\ OpenFiles(a)' = {} /\ Entries(a)' = {} /\ ~icache'[a].valid
      BY <1>1, <1>2, <1>5, <1>6, <1>7, <1>11 DEF PointsTo
    <3>4. /\ dents'[a] = NoDents /\ dino'[a].nlink = 0
          /\ (dino'[a].type = "dir" <=> u.op = "mkdir") /\ u.name \in Names
      BY <1>2, <1>7, <1>8
    <3>5. QED
      BY <3>1, <3>2, <3>3, <3>4 DEF NewInode
  <2>3. \A i \in Inums : u.pc = "link1" /\ u.ip = i => NewInode(p, i)'
    BY <1>2, <2>2
  <2>4. QED
    BY <1>1, <2>1, <2>3, FreshStep
<1>14. DentsInv'
  <2>1. ASSUME NEW i \in Inums, i # a, NEW q \in Procs, Fresh(q, i) PROVE Fresh(q, i)'
    <3>1. q # p
      BY <1>3, <2>1 DEF Fresh
    <3>2. QED
      BY <1>1, <2>1, <3>1, FreshStays
  <2>2. Fresh(p, a)'
    BY <1>1, <1>2, MovesOne DEF Fresh
  <2>3. ASSUME NEW i \in Inums
        PROVE  /\ dino'[i].type # "dir" => dents'[i] = NoDents
               /\ dino'[i].type = "dir" => dents'[i]["."] = i \/ \E q \in Procs : Fresh(q, i)'
    <3>1. CASE i = a
      BY <1>1, <1>2, <1>7, <2>2, <3>1
    <3>2. CASE i # a
      BY <1>1, <1>2, <2>1, <3>2 DEF DentsInv
    <3>3. QED
      BY <3>1, <3>2
  <2>4. QED
    BY <2>3 DEF DentsInv
<1>15. LinksInv'
  <2>1. ASSUME NEW i \in Inums PROVE dino'[i].nlink >= Need(i)'
    <3>1. Need(i)' <= Need(i) /\ Need(i) \in Nat /\ Need(i)' \in Nat
      BY <1>11, <1>12, NeedLess
    <3>2. dino'[i].nlink = dino[i].nlink
      BY <1>2, <1>4
    <3>3. dino[i].nlink >= Need(i) /\ dino[i].nlink \in Int
      BY <1>1, LinksMean DEF LinksInv
    <3>4. QED
      BY <3>1, <3>2, <3>3
  <2>2. \A q \in Procs : th'[q].op = "linkdir" /\ th'[q].ip # NONE => dino'[th'[q].ip].type # "dir"
    <3>1. ASSUME NEW q \in Procs \ {p}, th[q].op = "linkdir", th[q].ip # NONE
          PROVE  dino'[th[q].ip].type # "dir"
      <4>1. th[q].ip \in Inums /\ th[q].ip # a
        BY <1>5, <3>1, LocalsHere DEF PointsTo, PointsIn
      <4>2. QED
        BY <1>1, <1>2, <3>1, <4>1 DEF LinksInv
    <3>2. QED
      BY <1>1, <1>3, <3>1, LinkedFiles
  <2>3. dino'[ROOTINO].type = "dir"
    BY <1>1, <1>2, <1>6, RootInum DEF LinksInv
  <2>4. QED
    BY <2>1, <2>2, <2>3 DEF LinksInv
<1>16. DirsFormTree'
  <2>1. ASSUME NEW i \in Inums, dino'[i].type = "dir", NEW x \in Entries(i), NEW y \in Entries(i)
        PROVE  x = y /\ dents[i][".."] = x[1] /\ dino'[x[1]].type = "dir"
    <3>1. i # a
      BY <1>6, <2>1
    <3>2. x = y /\ dents[i][".."] = x[1] /\ dino[x[1]].type = "dir" /\ x[1] \in Inums
      BY <1>1, <1>2, <2>1, <3>1 DEF DirsFormTree, Entries
    <3>3. x[1] # a
      BY <1>4, <3>2
    <3>4. QED
      BY <1>2, <3>2, <3>3
  <2>2. QED
    BY <1>2, <1>11, <2>1 DEF DirsFormTree
<1>17. LastInv'
  <2>1. ASSUME NEW q \in Procs \ {p}, th[q].pc = "free" PROVE icache'[th[q].put].ref = 1
    <3>1. th[q].put \in Inums /\ icache[th[q].put].ref = 1 /\ th[q].put # a
      BY <1>4, <2>1, LastKnown
    <3>2. Is(a, th[q].put) = 0
      BY <3>1 DEF Is
    <3>3. QED
      BY <1>2, <3>1, <3>2
  <2>2. QED
    BY <1>1, <2>1, LastStep
<1>18. QED
  BY <1>9, <1>10, <1>11, <1>13, <1>14, <1>15, <1>16, <1>17 DEF TreeInv
\* A condition, as a number.
Bit(b) == IF b THEN 1 ELSE 0

\* A set that gains x at most, and loses it or not.
LEMMA GainsOne ==
    ASSUME NEW S, NEW T, NEW x, IsFiniteSet(S), IsFiniteSet(T), T \subseteq S \cup {x}
    PROVE  /\ Cardinality(S) \in Nat /\ Cardinality(T) \in Nat
           /\ Cardinality(T) + Bit(x \in S) <= Cardinality(S) + Bit(x \in T)
<1>1. PICK A : A = IF x \in T THEN S \cup {x} ELSE S \ {x}
  OBVIOUS
<1>2. IsFiniteSet(S \cup {x}) /\ IsFiniteSet(S \ {x})
  BY FS_AddElement, FS_RemoveElement
<1>3. IsFiniteSet(A) /\ T \subseteq A /\ DifferIn(S, A, x) /\ (x \in A <=> x \in T)
  BY <1>1, <1>2 DEF DifferIn
<1>4. Cardinality(T) <= Cardinality(A) /\ Cardinality(T) \in Nat
  BY <1>3, FS_Subset, FS_CardinalityType
<1>5. /\ Cardinality(S) \in Nat /\ Cardinality(A) \in Nat
      /\ Cardinality(A) + Bit(x \in S) = Cardinality(S) + Bit(x \in T)
  BY <1>3, DifferCount DEF Bit
<1>6. PICK s, t, a, b, c \in Nat : /\ s = Cardinality(S) /\ t = Cardinality(T) /\ a = Cardinality(A)
                                   /\ b = Bit(x \in S) /\ c = Bit(x \in T)
  BY <1>4, <1>5 DEF Bit
<1>7. t <= a /\ a + b = s + c
  BY <1>4, <1>5, <1>6
<1>8. t + b <= s + c
  BY <1>6, <1>7
<1>9. QED
  BY <1>6, <1>8

\* The number of links that an inode needs, when it gains one entry, one
\* directory below it and one call that owes it a link, at most.
LEMMA NeedMoves ==
    ASSUME NEW i, NEW x, NEW y, NEW z, Entries(i)' \subseteq Entries(i) \cup {x},
           Subdirs(i)' \subseteq Subdirs(i) \cup {y}, Owing(i)' \subseteq Owing(i) \cup {z}
    PROVE  /\ Need(i) \in Nat /\ Need(i)' \in Nat
           /\ Need(i)' + Bit(x \in Entries(i)) + Bit(y \in Subdirs(i)) + Bit(z \in Owing(i))
                <= Need(i) + Bit(x \in Entries(i)') + Bit(y \in Subdirs(i)') + Bit(z \in Owing(i)')
<1>1. PICK a, b, c \in Nat : /\ a = Cardinality(Entries(i)) /\ b = Cardinality(Subdirs(i))
                             /\ c = Cardinality(Owing(i))
                             /\ Need(i) = a + b + c + (IF i = ROOTINO THEN 1 ELSE 0)
  BY NeedParts
<1>2. PICK f, g, h \in Nat : /\ f = Cardinality(Entries(i)') /\ g = Cardinality(Subdirs(i)')
                             /\ h = Cardinality(Owing(i)')
                             /\ Need(i)' = f + g + h + (IF i = ROOTINO THEN 1 ELSE 0)
  BY NeedParts
<1>3. f + Bit(x \in Entries(i)) <= a + Bit(x \in Entries(i)')
  BY <1>1, <1>2, LinksFinite, GainsOne
<1>4. g + Bit(y \in Subdirs(i)) <= b + Bit(y \in Subdirs(i)')
  BY <1>1, <1>2, LinksFinite, GainsOne
<1>5. h + Bit(z \in Owing(i)) <= c + Bit(z \in Owing(i)')
  BY <1>1, <1>2, LinksFinite, GainsOne
<1>6. \A k : Bit(k) \in Nat
  BY DEF Bit
<1>7. QED
  BY <1>1, <1>2, <1>3, <1>4, <1>5, <1>6

\* The links that are owed differ in the call that moves.
LEMMA OwingDiffer ==
    ASSUME TypeOK, NEW p, NEW u, Moves(p, u), NEW i
    PROVE  Owing(i)' \subseteq Owing(i) \cup {p}
  BY OwingStep

\* A step on the disk takes p to inodes it can get to, and leaves those alone
\* that are new to others.
DiskModest(p, u) ==
    /\ PathOk(u) /\ u.pc # "link1"
    /\ \A i \in Inums :
         /\ PointsIn(u, i) => PointsIn(th[p], i) \/ (th[p].pc # "link1" /\ Known(p, i))
         /\ Held(u, i) # 0 => Held(th[p], i) # 0 \/ (th[p].pc # "link1" /\ Known(p, i))
         /\ icache'[i].valid => icache[i].valid \/ PointsIn(th[p], i)
         /\ (\E q \in Procs \ {p} : Fresh(q, i)) =>
              Entries(i)' = {} /\ dents'[i] = dents[i] /\ dino'[i].nlink = dino[i].nlink
    /\ u.op = "linkdir" /\ u.ip # NONE => PointsIn(th[p], u.ip) /\ dino[u.ip].type # "dir"

\* Such a step keeps the tree if it keeps the entries and counts the links.
LEMMA DiskTree ==
    ASSUME IInv, TreeInv, NEW p, NEW u, DiskMoves(p, u), DiskModest(p, u),
           DentsInv', RankInv', DirsFormTree', \A i \in Inums : dino'[i].nlink >= Need(i)'
    PROVE  TreeInv'
<1>1. /\ TypeOK /\ PathInv /\ LiveInv /\ FreshInv /\ DentsInv /\ LinksInv /\ DirsFormTree /\ RankInv
      /\ LastInv /\ Moves(p, u) /\ OwnCwd(p) /\ p \in Procs /\ cwd' = cwd
      /\ (\A i : OpenFiles(i)' = OpenFiles(i)) /\ u.pc # "free"
      /\ u \in Locals
  BY DiskFacts
<1>2. /\ icache' \in Caches
      /\ \A i \in Inums : icache'[i].ref + Held(th[p], i) = icache[i].ref + Held(u, i)
      /\ \A i \in Inums : dino[i].type # "free" => dino'[i].type = dino[i].type
  BY DEF DiskMoves, NodesKept
<1>3. /\ PathOk(u) /\ u.pc # "link1"
      /\ \A i \in Inums :
           /\ PointsIn(u, i) => PointsIn(th[p], i) \/ (th[p].pc # "link1" /\ Known(p, i))
           /\ Held(u, i) # 0 => Held(th[p], i) # 0 \/ (th[p].pc # "link1" /\ Known(p, i))
           /\ icache'[i].valid => icache[i].valid \/ PointsIn(th[p], i)
      /\ u.op = "linkdir" /\ u.ip # NONE => PointsIn(th[p], u.ip) /\ dino[u.ip].type # "dir"
  BY DEF DiskModest
<1>4. \A i \in Inums : th[p].pc # "link1" /\ Known(p, i) =>
        /\ dino[i].type # "free" /\ \A q \in Procs : ~Fresh(q, i)
        /\ \A q \in Procs \ {p} : ~(th[q].pc = "free" /\ th[q].put = i)
  BY <1>1, KnownLive
<1>5. PathInv'
  BY <1>1, <1>3, PathStep
<1>6. LiveInv'
  <2>1. ASSUME NEW i \in Inums, PointsNow(p, u, i) PROVE dino'[i].type # "free"
    <3>1. PointsTo(p, i) \/ (th[p].pc # "link1" /\ Known(p, i))
      BY <1>1, <1>3, <2>1 DEF PointsNow, PointsTo
    <3>2. QED
      BY <1>1, <1>2, <1>4, <3>1 DEF LiveInv
  <2>2. \A q \in Procs \ {p}, i \in Inums : PointsTo(q, i) => dino'[i].type # "free"
    BY <1>1, <1>2 DEF LiveInv
  <2>3. QED
    BY <1>1, <2>1, <2>2, LiveStep
<1>7. FreshInv'
  <2>1. ASSUME NEW r \in Procs \ {p}, NEW i \in Inums, Fresh(r, i) PROVE LeftNew(p, u, i)
    <3>1. NewInode(r, i) /\ ~PointsTo(p, i) /\ ~(th[p].pc # "link1" /\ Known(p, i))
      BY <1>1, <1>4, <2>1 DEF FreshInv, NewInode
    <3>2. ~PointsNow(p, u, i) /\ ~icache'[i].valid
      BY <1>1, <1>3, <3>1 DEF PointsNow, PointsTo, NewInode
    <3>3. OpenFiles(i)' = {} /\ Entries(i)' = {} /\ dents'[i] = dents[i] /\ dino'[i].nlink = dino[i].nlink
      BY <1>1, <2>1, <3>1 DEF NewInode, DiskModest
    <3>4. dino'[i].type = dino[i].type
      BY <1>1, <1>2, <2>1 DEF LiveInv, Fresh, PointsTo, PointsIn
    <3>5. QED
      BY <3>2, <3>3, <3>4 DEF LeftNew
  <2>2. \A i \in Inums : u.pc = "link1" /\ u.ip = i => NewInode(p, i)'
    BY <1>3
  <2>3. QED
    BY <1>1, <2>1, <2>2, FreshStep
<1>8. LinksInv'
  <2>1. u.op = "linkdir" /\ u.ip # NONE => dino'[u.ip].type # "dir"
    <3>1. u.ip # NONE => u.ip \in Inums
      BY <1>1 DEF Locals, Pointers
    <3>2. QED
      BY <1>1, <1>2, <1>3, <3>1 DEF LiveInv, PointsTo
  <2>2. ASSUME NEW q \in Procs \ {p}, th[q].op = "linkdir", th[q].ip # NONE
        PROVE  dino'[th[q].ip].type # "dir"
    <3>1. th[q].ip \in Inums /\ PointsTo(q, th[q].ip)
      BY <2>2, LocalsHere DEF PointsTo, PointsIn
    <3>2. QED
      BY <1>1, <1>2, <2>2, <3>1 DEF LinksInv, LiveInv
  <2>3. \A q \in Procs : th'[q].op = "linkdir" /\ th'[q].ip # NONE => dino'[th'[q].ip].type # "dir"
    BY <1>1, <2>1, <2>2, LinkedFiles
  <2>4. dino'[ROOTINO].type = "dir"
    BY <1>1, <1>2, RootInum DEF LinksInv
  <2>5. QED
    BY <2>3, <2>4 DEF LinksInv
<1>9. LastInv'
  <2>1. ASSUME NEW q \in Procs \ {p}, th[q].pc = "free" PROVE icache'[th[q].put].ref = 1
    <3>1. PICK i : i = th[q].put
      OBVIOUS
    <3>2. i \in Inums /\ icache[i].ref = 1 /\ Held(th[p], i) = 0
      BY <1>1, <2>1, <3>1, LastKnown
    <3>3. Held(u, i) = 0
      BY <1>3, <1>4, <2>1, <3>1, <3>2
    <3>4. icache'[i].ref + 0 = 1 + 0 /\ icache'[i].ref \in Nat
      BY <1>2, <3>2, <3>3 DEF Caches
    <3>5. QED
      BY <3>1, <3>4
  <2>2. QED
    BY <1>1, <2>1, LastStep
<1>10. QED
  BY <1>5, <1>6, <1>7, <1>8, <1>9 DEF TreeInv

\* The links that are needed, when no entry changes.
LEMMA NeedOwed ==
    ASSUME TypeOK, LinksInv, NEW p, NEW u, Moves(p, u), UNCHANGED dents, NEW i \in Inums
    PROVE  /\ Need(i) \in Nat /\ Need(i)' \in Nat
           /\ Need(i)' + Bit(Owes(th[p], i)) <= Need(i) + Bit(Owes(u, i))
<1>1. Entries(i)' = Entries(i) /\ Subdirs(i)' = Subdirs(i)
  BY SameDents
<1>2. Entries(i)' \subseteq Entries(i) \cup {p} /\ Subdirs(i)' \subseteq Subdirs(i) \cup {p}
  BY <1>1
<1>3. Owing(i)' \subseteq Owing(i) \cup {p}
  BY OwingDiffer
<1>4. /\ Need(i) \in Nat /\ Need(i)' \in Nat
      /\ Need(i)' + Bit(p \in Entries(i)) + Bit(p \in Subdirs(i)) + Bit(p \in Owing(i))
           <= Need(i) + Bit(p \in Entries(i)') + Bit(p \in Subdirs(i)') + Bit(p \in Owing(i)')
  BY <1>2, <1>3, NeedMoves
<1>5. (p \in Owing(i) <=> Owes(th[p], i)) /\ (p \in Owing(i)' <=> Owes(u, i))
  BY OwingStep
<1>6. PICK a, b, c, f \in Nat : /\ a = Bit(p \in Entries(i)) /\ b = Bit(p \in Subdirs(i))
                                /\ c = Bit(Owes(th[p], i)) /\ f = Bit(Owes(u, i))
  BY DEF Bit
<1>7. Bit(p \in Owing(i)) = c /\ Bit(p \in Owing(i)') = f
  BY <1>5, <1>6 DEF Bit
<1>8. Bit(p \in Entries(i)') = a /\ Bit(p \in Subdirs(i)') = b
  BY <1>1, <1>6
<1>9. QED
  BY <1>4, <1>6, <1>7, <1>8

\* unlink() or link() takes back the link it owed.
LEMMA DropTree ==
    ASSUME IInv, TreeInv, NEW p, NEW u, NEW i, DiskMoves(p, u), Drops(p, u, i)
    PROVE  TreeInv'
<1>1. /\ TypeOK /\ PathInv /\ LiveInv /\ FreshInv /\ DentsInv /\ LinksInv /\ DirsFormTree /\ RankInv
      /\ Moves(p, u) /\ p \in Procs /\ u \in Locals
  BY DiskFacts
<1>2. /\ th[p].pc \in {"unlinked", "linkbad"} /\ th[p].ip = i
      /\ th[p].pc = "linkbad" <=> th[p].op = "linkdir"
      /\ u.op = th[p].op /\ u.name = th[p].name /\ u.rest = th[p].rest /\ u.new = th[p].new
      /\ u.pc = "put" /\ u.put = i /\ u.cur = NONE /\ u.ip = NONE /\ u.dp = NONE
      /\ u.put2 = NONE /\ u.then = "idle"
      /\ i \in Inums /\ dino'[i].nlink = dino[i].nlink - 1 /\ dino'[i].type = dino[i].type
      /\ (\A j \in Inums \ {i} : dino'[j] = dino[j]) /\ dents' = dents
      /\ \A j \in Inums : icache'[j].valid => icache[j].valid \/ j = i
  BY DEF Drops, SameCall
<1>3. (\A j : Entries(j)' = Entries(j) /\ Subdirs(j)' = Subdirs(j)) /\ RankInv' /\ DirsFormTree'
  BY <1>1, <1>2, SameDents
<1>4. DentsInv'
  BY <1>1, <1>2, DentsSame
<1>5. DiskModest(p, u)
  <2>1. PathOk(u)
    BY <1>1, <1>2 DEF PathInv, PathOk
  <2>2. ASSUME NEW j \in Inums PROVE ~PointsIn(u, j) /\ (Held(u, j) # 0 => j = i)
    <3>1. j # NONE
      BY DEF Inums, NONE
    <3>2. QED
      BY <1>2, <3>1 DEF PointsIn, Held, Is
  <2>3. PointsIn(th[p], i) /\ Held(th[p], i) # 0
    BY <1>2 DEF PointsIn, Held, Is
  <2>4. ASSUME NEW j \in Inums, NEW q \in Procs \ {p}, Fresh(q, j)
        PROVE  Entries(j)' = {} /\ dino'[j].nlink = dino[j].nlink
    <3>1. NewInode(q, j)
      BY <1>1, <2>4 DEF FreshInv
    <3>2. j # i
      BY <1>1, <2>3, <3>1 DEF NewInode, PointsTo
    <3>3. QED
      BY <1>2, <1>3, <3>1, <3>2 DEF NewInode
  <2>5. QED
    BY <1>2, <2>1, <2>2, <2>3, <2>4 DEF DiskModest
<1>6. ASSUME NEW j \in Inums PROVE dino'[j].nlink >= Need(j)'
  <2>1. /\ Need(j) \in Nat /\ Need(j)' \in Nat
        /\ Need(j)' + Bit(Owes(th[p], j)) <= Need(j) + Bit(Owes(u, j))
    BY <1>1, <1>2, NeedOwed
  <2>2. ~Owes(u, j) /\ (Owes(th[p], j) <=> j = i)
    BY <1>2 DEF Owes, At, Putting, Inums, NONE
  <2>3. Need(j)' <= Need(j) - (IF j = i THEN 1 ELSE 0)
    BY <2>1, <2>2 DEF Bit
  <2>4. dino[j].nlink >= Need(j) /\ dino[j].nlink \in Int
    BY <1>1, LinksMean DEF LinksInv
  <2>5. CASE j = i
    BY <1>2, <2>1, <2>3, <2>4, <2>5
  <2>6. CASE j # i
    BY <1>2, <2>1, <2>3, <2>4, <2>6
  <2>7. QED
    BY <2>5, <2>6
<1>7. QED
  BY <1>3, <1>4, <1>5, <1>6, DiskTree

\* link() gives the file a link that it owes.
LEMMA AddTree ==
    ASSUME IInv, TreeInv, NEW p, NEW u, NEW i, DiskMoves(p, u), AddsLink(p, u, i)
    PROVE  TreeInv'
<1>1. /\ TypeOK /\ PathInv /\ LiveInv /\ FreshInv /\ DentsInv /\ LinksInv /\ DirsFormTree /\ RankInv
      /\ Moves(p, u) /\ p \in Procs /\ u \in Locals
  BY DiskFacts
<1>2. /\ th[p].pc = "link" /\ th[p].op = "link" /\ th[p].ip = i
      /\ u.op = "linkdir" /\ u.pc \in {"walk", "put"} \cup NameOps
      /\ u.rest \in {th[p].rest, th[p].new.elems} /\ u.new = th[p].new /\ u.name = th[p].name
      /\ u.ip = i
      /\ \A j \in Inums : PointsIn(u, j) \/ Held(u, j) # 0 => PointsIn(th[p], j) \/ Known(p, j)
      /\ i \in Inums /\ dino[i].type # "dir" /\ dino[i].type # "free"
      /\ dino'[i].nlink = dino[i].nlink + 1 /\ dino'[i].type = dino[i].type
      /\ (\A j \in Inums \ {i} : dino'[j] = dino[j]) /\ dents' = dents
      /\ \A j \in Inums : icache'[j].valid => icache[j].valid \/ j = i
  BY DEF AddsLink
<1>3. (\A j : Entries(j)' = Entries(j) /\ Subdirs(j)' = Subdirs(j)) /\ RankInv' /\ DirsFormTree'
  BY <1>1, <1>2, SameDents
<1>4. DentsInv'
  BY <1>1, <1>2, DentsSame
<1>5. DiskModest(p, u)
  <2>1. PathOk(u)
    BY <1>1, <1>2 DEF PathInv, PathOk
  <2>2. \A j \in Inums : PointsIn(th[p], j) => Held(th[p], j) # 0
    BY DEF PointsIn, Held, Is
  <2>3. PointsIn(th[p], i) /\ u.pc # "link1"
    BY <1>2 DEF PointsIn, NameOps
  <2>4. ASSUME NEW j \in Inums, NEW q \in Procs \ {p}, Fresh(q, j)
        PROVE  Entries(j)' = {} /\ dino'[j].nlink = dino[j].nlink
    <3>1. NewInode(q, j)
      BY <1>1, <2>4 DEF FreshInv
    <3>2. j # i
      BY <1>1, <2>3, <3>1 DEF NewInode, PointsTo
    <3>3. QED
      BY <1>2, <1>3, <3>1, <3>2 DEF NewInode
  <2>5. QED
    BY <1>2, <2>1, <2>2, <2>3, <2>4 DEF DiskModest
<1>6. ASSUME NEW j \in Inums PROVE dino'[j].nlink >= Need(j)'
  <2>1. /\ Need(j) \in Nat /\ Need(j)' \in Nat
        /\ Need(j)' + Bit(Owes(th[p], j)) <= Need(j) + Bit(Owes(u, j))
    BY <1>1, <1>2, NeedOwed
  <2>2. (Owes(u, j) <=> j = i) /\ ~Owes(th[p], j)
    BY <1>2 DEF Owes, At, Putting
  <2>3. Need(j)' <= Need(j) + (IF j = i THEN 1 ELSE 0)
    BY <2>1, <2>2 DEF Bit
  <2>4. dino[j].nlink >= Need(j) /\ dino[j].nlink \in Int
    BY <1>1, LinksMean DEF LinksInv
  <2>5. CASE j = i
    BY <1>2, <2>1, <2>3, <2>4, <2>5
  <2>6. CASE j # i
    BY <1>2, <2>1, <2>3, <2>4, <2>6
  <2>7. QED
    BY <2>5, <2>6
<1>7. QED
  BY <1>3, <1>4, <1>5, <1>6, DiskTree

\* iput() frees an inode that nothing leads to.
LEMMA FreesTree ==
    ASSUME IInv, TreeInv, NEW p, NEW u, NEW i, Frees(p, u, i)
    PROVE  TreeInv'
<1>1. /\ TypeOK /\ PathInv /\ LiveInv /\ FreshInv /\ DentsInv /\ LinksInv /\ DirsFormTree /\ RankInv /\ LastInv
      /\ dino \in [Inums -> Nodes] /\ dents \in [Inums -> [Elements -> Pointers]]
  BY DEF TreeInv, IInv, TypeOK
<1>2. /\ th[p].pc = "free" /\ th[p].put = i /\ i \in Inums
      /\ u.op = th[p].op /\ u.name = th[p].name /\ u.rest = th[p].rest /\ u.new = th[p].new
      /\ u.pc = "deref" /\ u.cur = th[p].cur /\ u.ip = th[p].ip /\ u.dp = th[p].dp
      /\ u.then = th[p].then
      /\ dino' = [dino EXCEPT ![i] = Free] /\ dents' = [dents EXCEPT ![i] = NoDents]
      /\ Moves(p, u) /\ UNCHANGED <<ftable, cwd>>
      /\ \A j \in Inums : /\ icache'[j].valid => icache[j].valid /\ j # i
                          /\ icache'[j].ref = icache[j].ref
  BY DEF Frees, SameCall
<1>3. p \in Procs /\ OwnCwd(p) /\ \A j : OpenFiles(j)' = OpenFiles(j)
  BY <1>1, <1>2, MovesOne DEF OwnCwd, TypeOK, OpenFiles
<1>4. /\ dino'[i] = Free /\ dents'[i] = NoDents
      /\ \A j \in Inums \ {i} : dino'[j] = dino[j] /\ dents'[j] = dents[j]
  BY <1>1, <1>2
<1>5. dino[i].nlink = 0 /\ \A q \in Procs : cwd[q] # i /\ ~PointsIn(th[q], i)
  BY <1>2, <1>3, LastKnown
<1>6. Entries(i) = {} /\ Subdirs(i) = {} /\ Owing(i) = {} /\ i # ROOTINO
  BY <1>1, <1>2, <1>5, LinksMean
<1>7. \A n \in Elements : dents'[i][n] = NONE
  BY <1>4 DEF NoDents
<1>8. ASSUME NEW j \in Inums, NEW x \in Entries(j)' PROVE x \in Entries(j) /\ x[1] # i /\ x[1] \in Inums
  <2>1. x \in Inums \X Names /\ dents'[x[1]][x[2]] = j /\ j # NONE
    BY <1>8 DEF Entries, Inums, NONE
  <2>2. x[1] # i
    BY <1>7, <2>1, NamesAndDots
  <2>3. QED
    BY <1>4, <2>1, <2>2 DEF Entries
<1>9. \A j \in Inums : Subdirs(j)' \subseteq Subdirs(j)
  <2>1. ASSUME NEW j \in Inums, NEW d \in Subdirs(j)' PROVE d \in Subdirs(j)
    <3>1. d \in Inums \ {j} /\ dents'[d][".."] = j /\ Entries(d)' # {} /\ j # NONE
      BY <2>1 DEF Subdirs, Inums, NONE
    <3>2. d # i
      BY <1>7, <3>1, NamesAndDots
    <3>3. Entries(d) # {}
      BY <1>8, <3>1
    <3>4. QED
      BY <1>4, <3>1, <3>2, <3>3 DEF Subdirs
  <2>2. QED
    BY <2>1
<1>10. \A j : Owing(j)' \subseteq Owing(j)
  <2>1. \A j : Owes(u, j) => Owes(th[p], j)
    BY <1>2 DEF Owes, At, Putting
  <2>2. QED
    BY <1>1, <1>2, <2>1, OwingStep
<1>11. PathInv'
  <2>1. PathOk(u)
    BY <1>1, <1>2, <1>3 DEF PathInv, PathOk
  <2>2. QED
    BY <1>1, <1>2, <2>1, PathStep
<1>12. LiveInv'
  <2>1. ASSUME NEW j \in Inums, PointsNow(p, u, j) PROVE dino'[j].type # "free"
    <3>1. PointsTo(p, j) /\ j # i
      BY <1>2, <1>3, <1>5, <2>1 DEF PointsNow, PointsTo, PointsIn
    <3>2. QED
      BY <1>1, <1>3, <1>4, <3>1 DEF LiveInv
  <2>2. ASSUME NEW q \in Procs \ {p}, NEW j \in Inums, PointsTo(q, j) PROVE dino'[j].type # "free"
    <3>1. j # i
      BY <1>5, <2>2 DEF PointsTo
    <3>2. QED
      BY <1>1, <1>4, <2>2, <3>1 DEF LiveInv
  <2>3. QED
    BY <1>1, <1>2, <1>3, <2>1, <2>2, LiveStep
<1>13. FreshInv'
  <2>1. ASSUME NEW r \in Procs \ {p}, NEW j \in Inums, Fresh(r, j) PROVE LeftNew(p, u, j)
    <3>1. NewInode(r, j) /\ ~PointsTo(p, j) /\ j # i
      BY <1>1, <1>3, <1>5, <2>1 DEF FreshInv, NewInode, Fresh, PointsIn
    <3>2. ~PointsNow(p, u, j) /\ ~icache'[j].valid
      BY <1>2, <3>1 DEF PointsNow, PointsTo, PointsIn, NewInode
    <3>3. OpenFiles(j)' = {}
      BY <1>3, <3>1 DEF NewInode
    <3>4. Entries(j)' = {}
      BY <1>8, <3>1 DEF NewInode
    <3>5. QED
      BY <1>4, <3>1, <3>2, <3>3, <3>4 DEF LeftNew
  <2>2. \A j \in Inums : u.pc = "link1" /\ u.ip = j => NewInode(p, j)'
    BY <1>2
  <2>3. QED
    BY <1>1, <1>2, <1>3, <2>1, <2>2, FreshStep
<1>14. DentsInv'
  <2>1. ASSUME NEW j \in Inums, NEW q \in Procs, Fresh(q, j) PROVE Fresh(q, j)'
    <3>1. q # p
      BY <1>2, <2>1 DEF Fresh
    <3>2. QED
      BY <1>1, <1>2, <2>1, <3>1, FreshStays
  <2>2. ASSUME NEW j \in Inums
        PROVE  /\ dino'[j].type # "dir" => dents'[j] = NoDents
               /\ dino'[j].type = "dir" => dents'[j]["."] = j \/ \E q \in Procs : Fresh(q, j)'
    <3>1. CASE j = i
      BY <1>4, <3>1 DEF Free
    <3>2. CASE j # i
      BY <1>1, <1>4, <2>1, <3>2 DEF DentsInv
    <3>3. QED
      BY <3>1, <3>2
  <2>3. QED
    BY <2>2 DEF DentsInv
<1>15. LinksInv'
  <2>1. ASSUME NEW j \in Inums PROVE dino'[j].nlink >= Need(j)'
    <3>1. Need(j)' <= Need(j) /\ Need(j) \in Nat /\ Need(j)' \in Nat
      BY <1>8, <1>9, <1>10, NeedLess
    <3>2. dino'[j].nlink = dino[j].nlink
      BY <1>4, <1>5 DEF Free
    <3>3. dino[j].nlink >= Need(j) /\ dino[j].nlink \in Int
      BY <1>1, LinksMean DEF LinksInv
    <3>4. QED
      BY <3>1, <3>2, <3>3
  <2>2. ASSUME NEW q \in Procs, th[q].op = "linkdir", th[q].ip # NONE
        PROVE  dino'[th[q].ip].type # "dir"
    <3>1. th[q].ip \in Inums /\ th[q].ip # i
      BY <1>5, <2>2, LocalsHere DEF PointsIn
    <3>2. QED
      BY <1>1, <1>4, <2>2, <3>1 DEF LinksInv
  <2>3. \A q \in Procs : th'[q].op = "linkdir" /\ th'[q].ip # NONE => dino'[th'[q].ip].type # "dir"
    BY <1>1, <1>2, <1>3, <2>2, LinkedFiles
  <2>4. dino'[ROOTINO].type = "dir"
    BY <1>1, <1>4, <1>6, RootInum DEF LinksInv
  <2>5. QED
    BY <2>1, <2>3, <2>4 DEF LinksInv
<1>16. DirsFormTree'
  <2>1. ASSUME NEW j \in Inums, dino'[j].type = "dir", NEW x \in Entries(j)', NEW y \in Entries(j)'
        PROVE  x = y /\ dents'[j][".."] = x[1] /\ dino'[x[1]].type = "dir"
    <3>1. j # i
      BY <1>4, <2>1 DEF Free
    <3>2. x \in Entries(j) /\ y \in Entries(j) /\ x[1] \in Inums /\ x[1] # i
      BY <1>8, <2>1
    <3>3. x = y /\ dents[j][".."] = x[1] /\ dino[x[1]].type = "dir"
      BY <1>1, <1>4, <2>1, <3>1, <3>2 DEF DirsFormTree
    <3>4. QED
      BY <1>4, <3>1, <3>2, <3>3
  <2>2. QED
    BY <2>1 DEF DirsFormTree
<1>17. RankInv'
  <2>1. PICK rank \in [Inums -> Nat] :
          \A d \in Inums, n \in Names : dents[d][n] # NONE => rank[dents[d][n]] < rank[d]
    BY <1>1 DEF RankInv
  <2>2. ASSUME NEW d \in Inums, NEW n \in Names, dents'[d][n] # NONE
        PROVE  rank[dents'[d][n]] < rank[d]
    BY <1>4, <1>7, <2>1, <2>2, NamesAndDots
  <2>3. QED
    BY <2>2 DEF RankInv
<1>18. LastInv'
  <2>1. ASSUME NEW q \in Procs \ {p}, th[q].pc = "free" PROVE icache'[th[q].put].ref = 1
    BY <1>2, <2>1, LastKnown
  <2>2. QED
    BY <1>1, <1>2, <2>1, LastStep
<1>19. QED
  BY <1>11, <1>12, <1>13, <1>14, <1>15, <1>16, <1>17, <1>18 DEF TreeInv

\* Directories can still be ranked when a leaf is entered somewhere.
LEMMA RankLeaf ==
    ASSUME RankInv, dents' \in [Inums -> [Elements -> Pointers]], NEW i \in Inums,
           \A n \in Names : dents'[i][n] = NONE,
           \A j \in Inums, n \in Names : dents'[j][n] \in {dents[j][n], i}
    PROVE  RankInv'
<1>1. PICK rank \in [Inums -> Nat] :
        \A d \in Inums, n \in Names : dents[d][n] # NONE => rank[dents[d][n]] < rank[d]
  BY DEF RankInv
<1>2. PICK r2 : r2 = [j \in Inums |-> IF j = i THEN 0 ELSE rank[j] + 1]
  OBVIOUS
<1>3. r2 \in [Inums -> Nat] /\ r2[i] = 0 /\ \A j \in Inums \ {i} : r2[j] = rank[j] + 1
  BY <1>1, <1>2
<1>4. ASSUME NEW d \in Inums, NEW n \in Names, dents'[d][n] # NONE PROVE r2[dents'[d][n]] < r2[d]
  <2>1. PICK k : k = dents'[d][n]
    OBVIOUS
  <2>2. d # i /\ k \in Inums /\ (k = i \/ k = dents[d][n])
    BY <1>4, <2>1, NamesAndDots DEF Pointers
  <2>3. CASE k = i
    BY <1>1, <1>3, <2>1, <2>2, <2>3
  <2>4. CASE k # i
    <3>1. rank[k] < rank[d] /\ rank[k] \in Nat /\ rank[d] \in Nat
      BY <1>1, <1>4, <2>1, <2>2, <2>4
    <3>2. r2[k] = rank[k] + 1 /\ r2[d] = rank[d] + 1
      BY <1>3, <2>2, <2>4
    <3>3. QED
      BY <2>1, <3>1, <3>2
  <2>5. QED
    BY <2>3, <2>4
<1>5. QED
  BY <1>3, <1>4 DEF RankInv

\* create() gives a new inode its name.
LEMMA FirstTree ==
    ASSUME IInv, TreeInv, NEW p, NEW u, NEW i, NEW d, DiskMoves(p, u), LinksFirst(p, u, i, d)
    PROVE  TreeInv'
<1>1. /\ TypeOK /\ PathInv /\ LiveInv /\ FreshInv /\ DentsInv /\ LinksInv /\ DirsFormTree /\ RankInv
      /\ Moves(p, u) /\ p \in Procs /\ u \in Locals
      /\ dents \in [Inums -> [Elements -> Pointers]] /\ dents' \in [Inums -> [Elements -> Pointers]]
      /\ th[p].dp # NONE => th[p].dp \in Inums /\ dino[th[p].dp].type = "dir"
  BY DiskFacts
<1>2. PICK mk \in BOOLEAN : mk <=> u.op = "mkdir"
  OBVIOUS
<1> DEFINE nm == u.name
<1>3. /\ th[p].pc = "link1" /\ th[p].op \in CreateOps /\ th[p].ip = i /\ th[p].dp = d
      /\ u.op = th[p].op /\ u.name = th[p].name /\ u.rest = th[p].rest /\ u.new = th[p].new
      /\ u.pc = "put" /\ u.put = d /\ u.cur = NONE /\ u.ip = i /\ u.dp = NONE
      /\ u.put2 = NONE /\ u.then \in {"fopen", "made"}
      /\ i \in Inums /\ d \in Inums /\ i # d
      /\ dino'[i].nlink = 1 /\ dino'[i].type = dino[i].type
      /\ dino'[d].nlink = dino[d].nlink + (IF mk THEN 1 ELSE 0) /\ dino'[d].type = dino[d].type
      /\ \A j \in Inums \ {i, d} : dino'[j] = dino[j]
      /\ \A j \in Inums : icache'[j].valid => icache[j].valid \/ j = i
  BY <1>2 DEF LinksFirst, SameCall
<1>4. \A j \in Inums, n \in Elements : dents'[j][n] =
         IF j = d /\ n = nm THEN i
         ELSE IF mk /\ j = i /\ n = "." THEN i
         ELSE IF mk /\ j = i /\ n = ".." THEN d
         ELSE dents[j][n]
  BY <1>2 DEF LinksFirst
<1>5. /\ Entries(i) = {} /\ dents[i] = NoDents /\ dino[i].nlink = 0
      /\ (dino[i].type = "dir" <=> mk) /\ nm \in Names /\ Fresh(p, i)
  <2>1. Fresh(p, i)
    BY <1>3 DEF Fresh
  <2>2. NewInode(p, i)
    BY <1>1, <1>3, <2>1 DEF FreshInv
  <2>3. QED
    BY <1>2, <1>3, <2>1, <2>2 DEF NewInode
<1>6. dino[d].type = "dir"
  BY <1>1, <1>3 DEF NONE, Inums
<1>7. Subdirs(i) = {} /\ Need(i) = 0
  BY <1>1, <1>3, <1>5, LinksMean
<1>8. \A j \in Inums : dino'[j].type = dino[j].type
  BY <1>3
<1>9. \A n \in Elements : dents[i][n] = NONE
  BY <1>5 DEF NoDents
<1>10. /\ \A j \in Inums, n \in Names : dents'[j][n] = IF j = d /\ n = nm THEN i ELSE dents[j][n]
       /\ \A j \in Inums \ {i} : dents'[j][".."] = dents[j][".."] /\ dents'[j]["."] = dents[j]["."]
       /\ mk => dents'[i]["."] = i /\ dents'[i][".."] = d
       /\ ~mk => dents'[i][".."] = NONE
  BY <1>3, <1>4, <1>5, <1>9, NamesAndDots
<1>11. ASSUME NEW j \in Inums \ {i, d} PROVE dents'[j] = dents[j]
  <2>1. dents'[j] \in [Elements -> Pointers] /\ dents[j] \in [Elements -> Pointers]
    BY <1>1
  <2>2. \A n \in Elements : dents'[j][n] = dents[j][n]
    BY <1>4
  <2>3. QED
    BY <2>1, <2>2
<1>12. \A j \in Inums \ {i} : Entries(j)' \subseteq Entries(j)
  BY <1>10 DEF Entries
<1>13. Entries(i)' = {<<d, nm>>}
  <2>1. ASSUME NEW x PROVE x \in Entries(i)' <=> x = <<d, nm>>
    <3>1. x \in Entries(i)' <=> x \in Inums \X Names /\ dents'[x[1]][x[2]] = i
      BY DEF Entries
    <3>2. x \in Inums \X Names => dents[x[1]][x[2]] # i
      BY <1>5 DEF Entries
    <3>3. x \in Inums \X Names => (dents'[x[1]][x[2]] = i <=> x[1] = d /\ x[2] = nm)
      BY <1>10, <3>2
    <3>4. <<d, nm>> \in Inums \X Names
      BY <1>3, <1>5
    <3>5. QED
      BY <3>1, <3>3, <3>4
  <2>2. QED
    BY <2>1
<1>14. ASSUME NEW j \in Inums, NEW x \in Subdirs(j)' PROVE x \in Subdirs(j) \/ (mk /\ x = i /\ j = d)
  <2>1. x \in Inums \ {j} /\ dents'[x][".."] = j /\ Entries(x)' # {} /\ j # NONE
    BY <1>14 DEF Subdirs, Inums, NONE
  <2>2. CASE x = i
    BY <1>10, <2>1, <2>2
  <2>3. CASE x # i
    <3>1. Entries(x) # {} /\ dents[x][".."] = j
      BY <1>10, <1>12, <2>1, <2>3
    <3>2. QED
      BY <2>1, <3>1 DEF Subdirs
  <2>4. QED
    BY <2>2, <2>3
<1>15. \A j : Owing(j)' \subseteq Owing(j)
  <2>1. \A j : ~Owes(u, j)
    BY <1>3 DEF Owes, At, Putting, CreateOps
  <2>2. QED
    BY <1>1, <2>1, OwingStep
<1>16. ASSUME NEW j \in Inums \ {i}, NEW q \in Procs, Fresh(q, j) PROVE q # p /\ Fresh(q, j)'
  <2>1. q # p
    BY <1>3, <1>16 DEF Fresh
  <2>2. QED
    BY <1>1, <1>16, <2>1, FreshStays
<1>17. DentsInv'
  <2>1. ASSUME NEW j \in Inums
        PROVE  /\ dino'[j].type # "dir" => dents'[j] = NoDents
               /\ dino'[j].type = "dir" => dents'[j]["."] = j \/ \E q \in Procs : Fresh(q, j)'
    <3>1. CASE j = i
      <4>1. CASE mk
        BY <1>5, <1>8, <1>10, <3>1, <4>1
      <4>2. CASE ~mk
        <5>1. dents'[i] \in [Elements -> Pointers] /\ dents[i] \in [Elements -> Pointers]
          BY <1>1, <1>3
        <5>2. \A n \in Elements : dents'[i][n] = dents[i][n]
          BY <1>3, <1>4, <4>2
        <5>3. dents'[i] = dents[i]
          BY <5>1, <5>2
        <5>4. QED
          BY <1>3, <1>5, <3>1, <4>2, <5>3
      <4>3. QED
        BY <4>1, <4>2
    <3>2. CASE j = d
      BY <1>1, <1>3, <1>6, <1>10, <1>16, <3>2 DEF DentsInv
    <3>3. CASE j # i /\ j # d
      BY <1>1, <1>3, <1>11, <1>16, <3>3 DEF DentsInv
    <3>4. QED
      BY <3>1, <3>2, <3>3
  <2>2. QED
    BY <2>1 DEF DentsInv
<1>18. RankInv'
  <2>1. \A n \in Names : dents'[i][n] = NONE
    BY <1>3, <1>9, <1>10, NamesAndDots
  <2>2. \A j \in Inums, n \in Names : dents'[j][n] \in {dents[j][n], i}
    BY <1>10
  <2>3. QED
    BY <1>1, <1>3, <2>1, <2>2, RankLeaf
<1>19. DirsFormTree'
  <2>1. ASSUME NEW j \in Inums, dino'[j].type = "dir", NEW x \in Entries(j)', NEW y \in Entries(j)'
        PROVE  x = y /\ dents'[j][".."] = x[1] /\ dino'[x[1]].type = "dir"
    <3>1. CASE j = i
      BY <1>3, <1>5, <1>6, <1>10, <1>13, <2>1, <3>1
    <3>2. CASE j # i
      <4>1. x \in Entries(j) /\ y \in Entries(j) /\ x[1] \in Inums /\ dino[j].type = "dir"
        BY <1>8, <1>12, <2>1, <3>2 DEF Entries
      <4>2. x = y /\ dents[j][".."] = x[1] /\ dino[x[1]].type = "dir"
        BY <1>1, <4>1 DEF DirsFormTree
      <4>3. QED
        BY <1>8, <1>10, <3>2, <4>1, <4>2
    <3>3. QED
      BY <3>1, <3>2
  <2>2. QED
    BY <2>1 DEF DirsFormTree
<1>20. DiskModest(p, u)
  <2>1. PathOk(u)
    BY <1>1, <1>3 DEF PathInv, PathOk
  <2>2. ASSUME NEW j \in Inums PROVE (PointsIn(u, j) => j = i) /\ (Held(u, j) # 0 => j \in {i, d})
    <3>1. j # NONE
      BY DEF Inums, NONE
    <3>2. QED
      BY <1>3, <3>1 DEF PointsIn, Held, Is
  <2>3. PointsIn(th[p], i) /\ PointsIn(th[p], d) /\ Held(th[p], i) # 0 /\ Held(th[p], d) # 0
    BY <1>3 DEF PointsIn, Held, Is
  <2>4. ASSUME NEW j \in Inums, NEW q \in Procs \ {p}, Fresh(q, j)
        PROVE  Entries(j)' = {} /\ dents'[j] = dents[j] /\ dino'[j].nlink = dino[j].nlink
    <3>1. NewInode(q, j)
      BY <1>1, <2>4 DEF FreshInv
    <3>2. j # i /\ j # d
      BY <1>1, <2>3, <3>1 DEF NewInode, PointsTo
    <3>3. QED
      BY <1>3, <1>11, <1>12, <3>1, <3>2 DEF NewInode
  <2>5. u.op # "linkdir"
    BY <1>3 DEF CreateOps
  <2>6. QED
    BY <1>3, <2>1, <2>2, <2>3, <2>4, <2>5 DEF DiskModest
<1>21. ASSUME NEW j \in Inums PROVE dino'[j].nlink >= Need(j)'
  <2>1. dino[j].nlink >= Need(j) /\ dino[j].nlink \in Int
    BY <1>1, LinksMean DEF LinksInv
  <2>2. CASE j = i
    <3>1. Subdirs(i)' = {}
      BY <1>3, <1>7, <1>14
    <3>2. Owing(i)' \subseteq Owing(i) \cup {p} /\ (p \in Owing(i)' => p \in Owing(i))
      BY <1>15
    <3>3. Entries(i)' \subseteq Entries(i) \cup {<<d, nm>>} /\ Subdirs(i)' \subseteq Subdirs(i) \cup {i}
      BY <1>13, <3>1
    <3>4. /\ Need(i)' \in Nat
          /\ Need(i)' + Bit(<<d, nm>> \in Entries(i)) + Bit(i \in Subdirs(i)) + Bit(p \in Owing(i))
               <= Need(i) + Bit(<<d, nm>> \in Entries(i)') + Bit(i \in Subdirs(i)') + Bit(p \in Owing(i)')
      BY <3>2, <3>3, NeedMoves
    <3>5. /\ Bit(<<d, nm>> \in Entries(i)) = 0 /\ Bit(<<d, nm>> \in Entries(i)') = 1
          /\ Bit(i \in Subdirs(i)) = 0 /\ Bit(i \in Subdirs(i)') = 0
      BY <1>5, <1>7, <1>13, <3>1 DEF Bit
    <3>6. PICK a, b \in Nat : a = Bit(p \in Owing(i)) /\ b = Bit(p \in Owing(i)') /\ b <= a
      BY <3>2 DEF Bit
    <3>7. Need(i)' <= 1
      BY <1>7, <3>4, <3>5, <3>6
    <3>8. QED
      BY <1>3, <2>2, <3>4, <3>7
  <2>3. CASE j = d
    <3>1. Subdirs(d)' \subseteq Subdirs(d) \cup {i} /\ i \notin Subdirs(d) /\ (i \in Subdirs(d)' => mk)
      BY <1>3, <1>5, <1>14 DEF Subdirs
    <3>2. Owing(d)' \subseteq Owing(d) \cup {p} /\ (p \in Owing(d)' => p \in Owing(d))
      BY <1>15
    <3>3. Entries(d)' \subseteq Entries(d) \cup {p} /\ (p \in Entries(d)' => p \in Entries(d))
      BY <1>3, <1>12
    <3>4. /\ Need(d)' \in Nat /\ Need(d) \in Nat
          /\ Need(d)' + Bit(p \in Entries(d)) + Bit(i \in Subdirs(d)) + Bit(p \in Owing(d))
               <= Need(d) + Bit(p \in Entries(d)') + Bit(i \in Subdirs(d)') + Bit(p \in Owing(d)')
      BY <3>1, <3>2, <3>3, NeedMoves
    <3>5. PICK a, b \in Nat : a = Bit(p \in Owing(d)) /\ b = Bit(p \in Owing(d)') /\ b <= a
      BY <3>2 DEF Bit
    <3>6. PICK e, f \in Nat : e = Bit(p \in Entries(d)) /\ f = Bit(p \in Entries(d)') /\ f <= e
      BY <3>3 DEF Bit
    <3>7. PICK g \in Nat : g = Bit(i \in Subdirs(d)') /\ g <= (IF mk THEN 1 ELSE 0)
      BY <3>1 DEF Bit
    <3>8. Bit(i \in Subdirs(d)) = 0
      BY <3>1 DEF Bit
    <3>9. Need(d)' <= Need(d) + g
      BY <3>4, <3>5, <3>6, <3>7, <3>8
    <3>10. QED
      BY <1>3, <2>1, <2>3, <3>4, <3>7, <3>9
  <2>4. CASE j # i /\ j # d
    <3>1. Subdirs(j)' \subseteq Subdirs(j)
      BY <1>14, <2>4
    <3>2. Need(j)' <= Need(j) /\ Need(j) \in Nat /\ Need(j)' \in Nat
      BY <1>12, <1>15, <2>4, <3>1, NeedLess
    <3>3. QED
      BY <1>3, <2>1, <2>4, <3>2
  <2>5. QED
    BY <2>2, <2>3, <2>4
<1>22. QED
  BY <1>17, <1>18, <1>19, <1>20, <1>21, DiskTree

\* unlink() erases a name, and owes the inode the loss of a link.
LEMMA UnlinkTree ==
    ASSUME IInv, TreeInv, NEW p, NEW u, NEW i, NEW d, DiskMoves(p, u), Unlinks(p, u, i, d)
    PROVE  TreeInv'
<1>1. /\ TypeOK /\ PathInv /\ LiveInv /\ FreshInv /\ DentsInv /\ LinksInv /\ DirsFormTree /\ RankInv
      /\ Moves(p, u) /\ p \in Procs /\ u \in Locals
      /\ dents \in [Inums -> [Elements -> Pointers]] /\ dents' \in [Inums -> [Elements -> Pointers]]
      /\ th[p].dp # NONE => th[p].dp \in Inums /\ dino[th[p].dp].type = "dir"
  BY DiskFacts
<1> DEFINE nm == u.name
           dir == dino[i].type = "dir"
<1>2. /\ th[p].pc = "unlink1" /\ th[p].op = "unlink" /\ th[p].ip = i /\ th[p].dp = d
      /\ u.op = th[p].op /\ u.name = th[p].name /\ u.rest = th[p].rest /\ u.new = th[p].new
      /\ u.pc = "put" /\ u.put = d /\ u.cur = NONE /\ u.ip = i /\ u.dp = NONE
      /\ u.put2 = NONE /\ u.then = "unlinked" /\ nm \in Names
      /\ i \in Inums /\ d \in Inums /\ i # d /\ dents[d][nm] = i
      /\ dino'[d].nlink = dino[d].nlink - (IF dir THEN 1 ELSE 0) /\ dino'[d].type = dino[d].type
      /\ \A j \in Inums \ {d} : dino'[j] = dino[j]
      /\ \A j \in Inums : icache'[j].valid => icache[j].valid \/ j = i
  BY DEF Unlinks, SameCall
<1>3. \A j \in Inums, n \in Elements : dents'[j][n] = IF j = d /\ n = nm THEN NONE ELSE dents[j][n]
  BY DEF Unlinks
<1>4. dino[d].type = "dir" /\ \A j \in Inums : dino'[j].type = dino[j].type
  BY <1>1, <1>2 DEF NONE, Inums
<1>5. /\ \A j \in Inums, n \in Names : dents'[j][n] = IF j = d /\ n = nm THEN NONE ELSE dents[j][n]
      /\ \A j \in Inums : dents'[j][".."] = dents[j][".."] /\ dents'[j]["."] = dents[j]["."]
  BY <1>2, <1>3, NamesAndDots
<1>6. ASSUME NEW j \in Inums \ {d} PROVE dents'[j] = dents[j]
  <2>1. dents'[j] \in [Elements -> Pointers] /\ dents[j] \in [Elements -> Pointers]
    BY <1>1
  <2>2. \A n \in Elements : dents'[j][n] = dents[j][n]
    BY <1>3
  <2>3. QED
    BY <2>1, <2>2
<1>7. <<d, nm>> \in Entries(i)
  <2>1. <<d, nm>> \in Inums \X Names /\ dents[<<d, nm>>[1]][<<d, nm>>[2]] = i
    BY <1>2
  <2>2. QED
    BY <2>1 DEF Entries
<1>8. ASSUME NEW j \in Inums, NEW x \in Entries(j)' PROVE x \in Entries(j) /\ x # <<d, nm>>
  <2>1. x \in Inums \X Names /\ dents'[x[1]][x[2]] = j /\ j # NONE
    BY <1>8 DEF Entries, Inums, NONE
  <2>2. ~(x[1] = d /\ x[2] = nm)
    BY <1>2, <1>5, <2>1
  <2>3. dents[x[1]][x[2]] = j
    BY <1>5, <2>1, <2>2
  <2>4. QED
    BY <2>1, <2>2, <2>3 DEF Entries
<1>9. \A j \in Inums : Subdirs(j)' \subseteq Subdirs(j)
  <2>1. ASSUME NEW j \in Inums, NEW x \in Subdirs(j)' PROVE x \in Subdirs(j)
    <3>1. x \in Inums \ {j} /\ dents'[x][".."] = j /\ Entries(x)' # {}
      BY <2>1 DEF Subdirs
    <3>2. Entries(x) # {} /\ dents[x][".."] = j
      BY <1>5, <1>8, <3>1
    <3>3. QED
      BY <3>1, <3>2 DEF Subdirs
  <2>2. QED
    BY <2>1
<1>10. dir => i \in Subdirs(d) /\ i \notin Subdirs(d)'
  <2>1. SUFFICES ASSUME dir PROVE i \in Subdirs(d) /\ i \notin Subdirs(d)'
    OBVIOUS
  <2>2. dents[i][".."] = d /\ \A x \in Entries(i) : x = <<d, nm>>
    BY <1>1, <1>2, <1>7, <2>1 DEF DirsFormTree
  <2>3. Entries(i)' = {}
    BY <1>2, <1>8, <2>2
  <2>4. QED
    BY <1>2, <1>7, <2>2, <2>3 DEF Subdirs
<1>11. \A j \in Inums : ~Owes(th[p], j) /\ (Owes(u, j) <=> j = i)
  BY <1>2 DEF Owes, At, Putting
<1>12. ASSUME NEW j \in Inums, NEW q \in Procs, Fresh(q, j) PROVE Fresh(q, j)'
  <2>1. q # p
    BY <1>2, <1>12 DEF Fresh
  <2>2. QED
    BY <1>1, <1>12, <2>1, FreshStays
<1>13. DentsInv'
  <2>1. ASSUME NEW j \in Inums
        PROVE  /\ dino'[j].type # "dir" => dents'[j] = NoDents
               /\ dino'[j].type = "dir" => dents'[j]["."] = j \/ \E q \in Procs : Fresh(q, j)'
    BY <1>1, <1>4, <1>5, <1>6, <1>12 DEF DentsInv
  <2>2. QED
    BY <2>1 DEF DentsInv
<1>14. RankInv'
  <2>1. PICK rank \in [Inums -> Nat] :
          \A e \in Inums, n \in Names : dents[e][n] # NONE => rank[dents[e][n]] < rank[e]
    BY <1>1 DEF RankInv
  <2>2. ASSUME NEW e \in Inums, NEW n \in Names, dents'[e][n] # NONE
        PROVE  rank[dents'[e][n]] < rank[e]
    BY <1>5, <2>1, <2>2
  <2>3. QED
    BY <2>2 DEF RankInv
<1>15. DirsFormTree'
  <2>1. ASSUME NEW j \in Inums, dino'[j].type = "dir", NEW x \in Entries(j)', NEW y \in Entries(j)'
        PROVE  x = y /\ dents'[j][".."] = x[1] /\ dino'[x[1]].type = "dir"
    <3>1. x \in Entries(j) /\ y \in Entries(j) /\ dino[j].type = "dir"
      BY <1>4, <1>8, <2>1
    <3>2. x = y /\ dents[j][".."] = x[1] /\ dino[x[1]].type = "dir"
      BY <1>1, <3>1 DEF DirsFormTree
    <3>3. x[1] \in Inums
      BY <3>1 DEF Entries
    <3>4. QED
      BY <1>4, <1>5, <3>2, <3>3
  <2>2. QED
    BY <2>1 DEF DirsFormTree
<1>16. DiskModest(p, u)
  <2>1. PathOk(u)
    BY <1>1, <1>2 DEF PathInv, PathOk
  <2>2. ASSUME NEW j \in Inums PROVE (PointsIn(u, j) => j = i) /\ (Held(u, j) # 0 => j \in {i, d})
    <3>1. j # NONE
      BY DEF Inums, NONE
    <3>2. QED
      BY <1>2, <3>1 DEF PointsIn, Held, Is
  <2>3. PointsIn(th[p], i) /\ PointsIn(th[p], d) /\ Held(th[p], i) # 0 /\ Held(th[p], d) # 0
    BY <1>2 DEF PointsIn, Held, Is
  <2>4. ASSUME NEW j \in Inums, NEW q \in Procs \ {p}, Fresh(q, j)
        PROVE  Entries(j)' = {} /\ dents'[j] = dents[j] /\ dino'[j].nlink = dino[j].nlink
    <3>1. NewInode(q, j)
      BY <1>1, <2>4 DEF FreshInv
    <3>2. j # i /\ j # d
      BY <1>1, <2>3, <3>1 DEF NewInode, PointsTo
    <3>3. QED
      BY <1>2, <1>6, <1>8, <3>1, <3>2 DEF NewInode
  <2>5. QED
    BY <1>2, <2>1, <2>2, <2>3, <2>4 DEF DiskModest
<1>17. ASSUME NEW j \in Inums PROVE dino'[j].nlink >= Need(j)'
  <2>1. dino[j].nlink >= Need(j) /\ dino[j].nlink \in Int
    BY <1>1, LinksMean DEF LinksInv
  <2>2. /\ Entries(j)' \subseteq Entries(j) \cup {<<d, nm>>} /\ <<d, nm>> \notin Entries(j)'
        /\ Subdirs(j)' \subseteq Subdirs(j) \cup {i} /\ (i \in Subdirs(j)' => i \in Subdirs(j))
        /\ Owing(j)' \subseteq Owing(j) \cup {p}
    BY <1>1, <1>8, <1>9, OwingDiffer
  <2>3. /\ Need(j)' \in Nat /\ Need(j) \in Nat
        /\ Need(j)' + Bit(<<d, nm>> \in Entries(j)) + Bit(i \in Subdirs(j)) + Bit(p \in Owing(j))
             <= Need(j) + Bit(<<d, nm>> \in Entries(j)') + Bit(i \in Subdirs(j)') + Bit(p \in Owing(j)')
    BY <2>2, NeedMoves
  <2>4. (p \in Owing(j)' <=> j = i) /\ p \notin Owing(j)
    BY <1>1, <1>11, OwingStep
  <2>5. PICK a, b, e, f, g, h \in Nat :
          /\ a = Bit(<<d, nm>> \in Entries(j)) /\ b = Bit(i \in Subdirs(j)) /\ e = Bit(p \in Owing(j))
          /\ f = Bit(<<d, nm>> \in Entries(j)') /\ g = Bit(i \in Subdirs(j)') /\ h = Bit(p \in Owing(j)')
    BY DEF Bit
  <2>6. f = 0 /\ g <= b /\ e = 0 /\ (j # i => h = 0) /\ (j = i => h = 1 /\ a = 1)
    BY <1>7, <2>2, <2>4, <2>5 DEF Bit
  <2>7. j = d /\ dir => b = 1 /\ g = 0
    BY <1>10, <2>5 DEF Bit
  <2>8. Need(j)' + a + b + e <= Need(j) + f + g + h
    BY <2>3, <2>5
  <2>9. CASE j = i
    <3>1. Need(j)' <= Need(j)
      BY <2>3, <2>5, <2>6, <2>8, <2>9
    <3>2. QED
      BY <1>2, <2>1, <2>3, <2>9, <3>1
  <2>10. CASE j = d
    <3>1. Need(j)' <= Need(j) - (IF dir THEN 1 ELSE 0)
      BY <1>2, <2>3, <2>5, <2>6, <2>7, <2>8, <2>10
    <3>2. QED
      BY <1>2, <2>1, <2>3, <2>10, <3>1
  <2>11. CASE j # i /\ j # d
    <3>1. Need(j)' <= Need(j)
      BY <2>3, <2>5, <2>6, <2>8, <2>11
    <3>2. QED
      BY <1>2, <2>1, <2>3, <2>11, <3>1
  <2>12. QED
    BY <2>9, <2>10, <2>11
<1>18. QED
  BY <1>13, <1>14, <1>15, <1>16, <1>17, DiskTree

\* link() writes the name whose link it owed.
LEMMA MoreTree ==
    ASSUME IInv, TreeInv, NEW p, NEW u, NEW i, NEW d, DiskMoves(p, u), LinksMore(p, u, i, d)
    PROVE  TreeInv'
<1>1. /\ TypeOK /\ PathInv /\ LiveInv /\ FreshInv /\ DentsInv /\ LinksInv /\ DirsFormTree /\ RankInv
      /\ Moves(p, u) /\ p \in Procs /\ u \in Locals
      /\ dents \in [Inums -> [Elements -> Pointers]] /\ dents' \in [Inums -> [Elements -> Pointers]]
      /\ th[p].dp # NONE => th[p].dp \in Inums /\ dino[th[p].dp].type = "dir"
  BY DiskFacts
<1> DEFINE nm == u.name
<1>2. /\ th[p].pc = "linkdir" /\ th[p].op = "linkdir" /\ th[p].ip = i /\ th[p].dp = d
      /\ u.op = th[p].op /\ u.name = th[p].name /\ u.rest = th[p].rest /\ u.new = th[p].new
      /\ u.pc = "put" /\ u.put = d /\ u.put2 = i /\ u.cur = NONE /\ u.ip = NONE
      /\ u.dp = NONE /\ u.then = "idle"
      /\ i \in Inums /\ d \in Inums /\ dents[d][nm] = NONE /\ dino' = dino
      /\ \A j \in Inums : icache'[j].valid => icache[j].valid \/ j = d
  BY DEF LinksMore, SameCall
<1>3. \A j \in Inums, n \in Elements : dents'[j][n] = IF j = d /\ n = nm THEN i ELSE dents[j][n]
  BY DEF LinksMore
<1>4. dino[d].type = "dir" /\ dino[i].type # "dir" /\ i # d
  BY <1>1, <1>2 DEF NONE, Inums, LinksInv
<1>5. nm \in Names
  <2>1. dents[d]["."] = d
    <3>1. PointsIn(th[p], d) /\ ~Fresh(p, d)
      BY <1>2 DEF PointsIn, Fresh
    <3>2. QED
      BY <1>1, <1>2, <1>4, <3>1, DotIsSelf
  <2>2. nm # "."
    BY <1>2, <2>1 DEF NONE, Inums
  <2>3. nm # ".." /\ nm \in Elements
    BY <1>1, <1>2 DEF PathInv, PathOk, Locals
  <2>4. QED
    BY <2>2, <2>3, NamesAndDots
<1>6. \A n \in Elements : dents[i][n] = NONE
  BY <1>1, <1>2, <1>4 DEF DentsInv, NoDents
<1>7. /\ \A j \in Inums, n \in Names : dents'[j][n] = IF j = d /\ n = nm THEN i ELSE dents[j][n]
      /\ \A j \in Inums : dents'[j][".."] = dents[j][".."] /\ dents'[j]["."] = dents[j]["."]
  BY <1>2, <1>3, <1>5, NamesAndDots
<1>8. ASSUME NEW j \in Inums \ {d} PROVE dents'[j] = dents[j]
  <2>1. dents'[j] \in [Elements -> Pointers] /\ dents[j] \in [Elements -> Pointers]
    BY <1>1
  <2>2. \A n \in Elements : dents'[j][n] = dents[j][n]
    BY <1>3
  <2>3. QED
    BY <2>1, <2>2
<1>9. ASSUME NEW j \in Inums, NEW x \in Entries(j)' PROVE x \in Entries(j) \/ (j = i /\ x = <<d, nm>>)
  <2>1. x \in Inums \X Names /\ dents'[x[1]][x[2]] = j
    BY <1>9 DEF Entries
  <2>2. CASE x[1] = d /\ x[2] = nm
    BY <1>2, <1>7, <2>1, <2>2
  <2>3. CASE ~(x[1] = d /\ x[2] = nm)
    <3>1. dents[x[1]][x[2]] = j
      BY <1>7, <2>1, <2>3
    <3>2. QED
      BY <2>1, <3>1 DEF Entries
  <2>4. QED
    BY <2>2, <2>3
<1>10. \A j \in Inums : <<d, nm>> \notin Entries(j)
  BY <1>2 DEF Entries, Inums, NONE
<1>11. \A j \in Inums : Subdirs(j)' \subseteq Subdirs(j)
  <2>1. ASSUME NEW j \in Inums, NEW x \in Subdirs(j)' PROVE x \in Subdirs(j)
    <3>1. x \in Inums \ {j} /\ dents'[x][".."] = j /\ Entries(x)' # {} /\ j # NONE
      BY <2>1 DEF Subdirs, Inums, NONE
    <3>2. dents[x][".."] = j
      BY <1>7, <3>1
    <3>3. x # i
      BY <1>6, <3>1, <3>2, NamesAndDots
    <3>4. Entries(x) # {}
      BY <1>9, <3>1, <3>3
    <3>5. QED
      BY <3>1, <3>2, <3>4 DEF Subdirs
  <2>2. QED
    BY <2>1
<1>12. \A j \in Inums : ~Owes(u, j) /\ (Owes(th[p], j) <=> j = i)
  BY <1>2 DEF Owes, At, Putting, NONE, Inums
<1>13. ASSUME NEW j \in Inums, NEW q \in Procs, Fresh(q, j) PROVE Fresh(q, j)'
  <2>1. q # p
    BY <1>2, <1>13 DEF Fresh
  <2>2. QED
    BY <1>1, <1>13, <2>1, FreshStays
<1>14. DentsInv'
  <2>1. ASSUME NEW j \in Inums
        PROVE  /\ dino'[j].type # "dir" => dents'[j] = NoDents
               /\ dino'[j].type = "dir" => dents'[j]["."] = j \/ \E q \in Procs : Fresh(q, j)'
    BY <1>1, <1>2, <1>4, <1>7, <1>8, <1>13 DEF DentsInv
  <2>2. QED
    BY <2>1 DEF DentsInv
<1>15. RankInv'
  <2>1. \A n \in Names : dents'[i][n] = NONE
    BY <1>2, <1>4, <1>6, <1>7, NamesAndDots
  <2>2. \A j \in Inums, n \in Names : dents'[j][n] \in {dents[j][n], i}
    BY <1>7
  <2>3. QED
    BY <1>1, <1>2, <2>1, <2>2, RankLeaf
<1>16. DirsFormTree'
  <2>1. ASSUME NEW j \in Inums, dino'[j].type = "dir", NEW x \in Entries(j)', NEW y \in Entries(j)'
        PROVE  x = y /\ dents'[j][".."] = x[1] /\ dino'[x[1]].type = "dir"
    <3>1. x \in Entries(j) /\ y \in Entries(j) /\ dino[j].type = "dir"
      BY <1>2, <1>4, <1>9, <2>1
    <3>2. x = y /\ dents[j][".."] = x[1] /\ dino[x[1]].type = "dir"
      BY <1>1, <3>1 DEF DirsFormTree
    <3>3. QED
      BY <1>2, <1>7, <3>2
  <2>2. QED
    BY <2>1 DEF DirsFormTree
<1>17. DiskModest(p, u)
  <2>1. PathOk(u)
    BY <1>1, <1>2 DEF PathInv, PathOk
  <2>2. ASSUME NEW j \in Inums PROVE ~PointsIn(u, j) /\ (Held(u, j) # 0 => j \in {i, d})
    <3>1. j # NONE
      BY DEF Inums, NONE
    <3>2. QED
      BY <1>2, <3>1 DEF PointsIn, Held, Is
  <2>3. PointsIn(th[p], i) /\ PointsIn(th[p], d) /\ Held(th[p], i) # 0 /\ Held(th[p], d) # 0
    BY <1>2 DEF PointsIn, Held, Is
  <2>4. ASSUME NEW j \in Inums, NEW q \in Procs \ {p}, Fresh(q, j)
        PROVE  Entries(j)' = {} /\ dents'[j] = dents[j] /\ dino'[j].nlink = dino[j].nlink
    <3>1. NewInode(q, j)
      BY <1>1, <2>4 DEF FreshInv
    <3>2. j # i /\ j # d
      BY <1>1, <2>3, <3>1 DEF NewInode, PointsTo
    <3>3. QED
      BY <1>2, <1>8, <1>9, <3>1, <3>2 DEF NewInode
  <2>5. QED
    BY <1>2, <2>1, <2>2, <2>3, <2>4 DEF DiskModest
<1>18. ASSUME NEW j \in Inums PROVE dino'[j].nlink >= Need(j)'
  <2>1. dino'[j].nlink >= Need(j) /\ dino'[j].nlink \in Int
    BY <1>1, <1>2, LinksMean DEF LinksInv
  <2>2. /\ Entries(j)' \subseteq Entries(j) \cup {<<d, nm>>} /\ <<d, nm>> \notin Entries(j)
        /\ <<d, nm>> \in Entries(j)' => j = i
        /\ Subdirs(j)' \subseteq Subdirs(j) \cup {i} /\ (i \in Subdirs(j)' => i \in Subdirs(j))
        /\ Owing(j)' \subseteq Owing(j) \cup {p}
    BY <1>1, <1>9, <1>10, <1>11, OwingDiffer
  <2>3. /\ Need(j)' \in Nat /\ Need(j) \in Nat
        /\ Need(j)' + Bit(<<d, nm>> \in Entries(j)) + Bit(i \in Subdirs(j)) + Bit(p \in Owing(j))
             <= Need(j) + Bit(<<d, nm>> \in Entries(j)') + Bit(i \in Subdirs(j)') + Bit(p \in Owing(j)')
    BY <2>2, NeedMoves
  <2>4. p \notin Owing(j)' /\ (p \in Owing(j) <=> j = i)
    BY <1>1, <1>12, OwingStep
  <2>5. PICK a, b, e, f, g, h \in Nat :
          /\ a = Bit(<<d, nm>> \in Entries(j)) /\ b = Bit(i \in Subdirs(j)) /\ e = Bit(p \in Owing(j))
          /\ f = Bit(<<d, nm>> \in Entries(j)') /\ g = Bit(i \in Subdirs(j)') /\ h = Bit(p \in Owing(j)')
    BY DEF Bit
  <2>6. a = 0 /\ g <= b /\ h = 0 /\ f <= e
    BY <2>2, <2>4, <2>5 DEF Bit
  <2>7. Need(j)' + a + b + e <= Need(j) + f + g + h
    BY <2>3, <2>5
  <2>8. Need(j)' <= Need(j)
    BY <2>3, <2>5, <2>6, <2>7
  <2>9. QED
    BY <2>1, <2>3, <2>8
<1>19. QED
  BY <1>14, <1>15, <1>16, <1>17, <1>18, DiskTree

-----------------------------------------------------------------------------
(* The tree is kept. *)

\* The entries of the initial state.
LEMMA InitDents ==
    ASSUME Init
    PROVE  /\ dents[1]["d"] = 2 /\ dents[1]["f"] = 3 /\ dents[1]["."] = 1 /\ dents[1][".."] = 1
           /\ dents[2]["d"] = NONE /\ dents[2]["f"] = NONE /\ dents[2]["."] = 2 /\ dents[2][".."] = 1
           /\ \A j \in Inums \ {1, 2} : dents[j] = NoDents
<1>1. {1, 2, 3} \subseteq Inums /\ {"d", "f", ".", ".."} = Elements
  BY InitNodes DEF Elements, Names, Dots
<1>2. /\ dents[1] = [NoDents EXCEPT !["."] = 1, ![".."] = 1, !["d"] = 2, !["f"] = 3]
      /\ dents[2] = [NoDents EXCEPT !["."] = 2, ![".."] = 1]
      /\ \A j \in Inums \ {1, 2} : dents[j] = NoDents
  BY <1>1 DEF Init
<1>3. NoDents = [n \in Elements |-> NONE]
  BY DEF NoDents
<1>4. QED
  BY <1>1, <1>2, <1>3

\* The initial directories are a tree.
LEMMA InitTree ==
    ASSUME Init
    PROVE  TreeInv
<1>1. IInv /\ TypeOK /\ th = [p \in Procs |-> Idle] /\ cwd \in [Procs -> {1, 2}]
  BY InitInv DEF Init, IInv
<1>2. {1, 2, 3} \subseteq Inums /\ NONE \notin Inums /\ ROOTINO = 1
  BY InitNodes DEF Inums, NONE, ROOTINO
<1>3. /\ dino[1].type = "dir" /\ dino[1].nlink = 2 /\ dino[2].type = "dir" /\ dino[2].nlink = 1
      /\ dino[3].type = "file" /\ dino[3].nlink = 1
      /\ \A j \in Inums \ {1, 2, 3} : dino[j].type = "free" /\ dino[j].nlink = 0
  BY InitNodes DEF Free
<1>4. \A p \in Procs : /\ th[p] = Idle /\ th[p].pc = "idle" /\ th[p].op = "none" /\ th[p].then = "idle"
                       /\ th[p].cur = NONE /\ th[p].ip = NONE /\ th[p].dp = NONE
  BY <1>1 DEF Idle
<1>5. \A n \in Elements : NoDents[n] = NONE
  BY DEF NoDents
<1>6. ASSUME NEW i \in Inums, NEW x \in Entries(i)
      PROVE  (i = 2 /\ x = <<1, "d">>) \/ (i = 3 /\ x = <<1, "f">>)
  <2>1. x \in Inums \X Names /\ dents[x[1]][x[2]] = i /\ i # NONE
    BY <1>2, <1>6 DEF Entries
  <2>2. PICK d, n : d = x[1] /\ n = x[2]
    OBVIOUS
  <2>3. d \in Inums /\ n \in {"d", "f"} /\ x = <<d, n>> /\ dents[d][n] = i
    BY <2>1, <2>2 DEF Names
  <2>4. d = 1
    BY <1>5, <2>1, <2>3, InitDents, NamesAndDots DEF Names
  <2>5. QED
    BY <2>3, <2>4, InitDents
<1>7. ASSUME NEW i \in Inums, NEW d \in Subdirs(i) PROVE i = 1 /\ d = 2
  <2>1. d \in Inums \ {i} /\ dents[d][".."] = i /\ i # NONE
    BY <1>2, <1>7 DEF Subdirs
  <2>2. d \in {1, 2}
    BY <1>5, <2>1, InitDents, NamesAndDots
  <2>3. QED
    BY <2>1, <2>2, InitDents
<1>8. \A i \in Inums : Owing(i) = {}
  BY <1>2, <1>4 DEF Owing, Owes
<1>9. PathInv
  <2>1. <<>> \in Seq(Names \cup {"."})
    OBVIOUS
  <2>2. PathOk(Idle)
    BY <2>1 DEF PathOk, Idle, NoPath
  <2>3. QED
    BY <1>4, <2>2 DEF PathInv
<1>10. LiveInv
  BY <1>1, <1>2, <1>3, <1>4 DEF LiveInv, PointsTo, PointsIn
<1>11. FreshInv /\ LastInv
  BY <1>4 DEF FreshInv, Fresh, LastInv
<1>12. DentsInv
  BY <1>3, InitDents DEF DentsInv
<1>13. LinksInv
  <2>1. ASSUME NEW i \in Inums PROVE dino[i].nlink >= Need(i)
    <3>1. PICK a, b, c \in Nat : /\ a = Cardinality(Entries(i)) /\ b = Cardinality(Subdirs(i))
                                 /\ c = Cardinality(Owing(i))
                                 /\ Need(i) = a + b + c + (IF i = ROOTINO THEN 1 ELSE 0)
      BY NeedParts
    <3>2. \A x : IsFiniteSet({x}) /\ Cardinality({x}) = 1
      BY FS_Singleton
    <3>3. c = 0 /\ Cardinality({}) = 0
      BY <1>8, <3>1, FS_EmptySet
    <3>4. IF i = 1 THEN b <= 1 ELSE b = 0
      <4>1. CASE i = 1
        <5>1. Subdirs(i) \subseteq {2}
          BY <1>7
        <5>2. Cardinality(Subdirs(i)) <= Cardinality({2})
          BY <3>2, <5>1, FS_Subset
        <5>3. QED
          BY <3>1, <3>2, <4>1, <5>2
      <4>2. CASE i # 1
        <5>1. Subdirs(i) = {}
          BY <1>7, <4>2
        <5>2. QED
          BY <3>1, <3>3, <4>2, <5>1
      <4>3. QED
        BY <4>1, <4>2
    <3>5. IF i \in {2, 3} THEN a <= 1 ELSE a = 0
      <4>1. CASE i \in {2, 3}
        <5>1. PICK x : Entries(i) \subseteq {x}
          BY <1>6, <4>1
        <5>2. Cardinality(Entries(i)) <= Cardinality({x})
          BY <3>2, <5>1, FS_Subset
        <5>3. QED
          BY <3>1, <3>2, <4>1, <5>2
      <4>2. CASE i \notin {2, 3}
        <5>1. Entries(i) = {}
          BY <1>6, <4>2
        <5>2. QED
          BY <3>1, <3>3, <4>2, <5>1
      <4>3. QED
        BY <4>1, <4>2
    <3>6. CASE i = 1
      BY <1>2, <1>3, <3>1, <3>3, <3>4, <3>5, <3>6
    <3>7. CASE i \in {2, 3}
      BY <1>2, <1>3, <3>1, <3>3, <3>4, <3>5, <3>7
    <3>8. CASE i \notin {1, 2, 3}
      <4>1. dino[i].nlink = 0 /\ i # ROOTINO
        BY <1>2, <1>3, <3>8
      <4>2. a = 0 /\ b = 0
        BY <3>4, <3>5, <3>8
      <4>3. QED
        BY <3>1, <3>3, <4>1, <4>2
    <3>9. QED
      BY <3>6, <3>7, <3>8
  <2>2. QED
    BY <1>2, <1>3, <1>4, <2>1 DEF LinksInv
<1>14. DirsFormTree
  <2>1. ASSUME NEW i \in Inums, dino[i].type = "dir", NEW x \in Entries(i), NEW y \in Entries(i)
        PROVE  x = y /\ dents[i][".."] = x[1] /\ dino[x[1]].type = "dir"
    BY <1>3, <1>6, <2>1, InitDents
  <2>2. QED
    BY <2>1 DEF DirsFormTree
<1>15. RankInv
  <2>1. PICK rank : rank = [i \in Inums |-> IF i = 1 THEN 1 ELSE 0]
    OBVIOUS
  <2>2. rank \in [Inums -> Nat] /\ rank[1] = 1 /\ rank[2] = 0 /\ rank[3] = 0
    BY <1>2, <2>1
  <2>3. ASSUME NEW d \in Inums, NEW n \in Names, dents[d][n] # NONE PROVE rank[dents[d][n]] < rank[d]
    <3>1. n \in {"d", "f"}
      BY DEF Names
    <3>2. d = 1
      BY <1>5, <2>3, <3>1, InitDents, NamesAndDots
    <3>3. QED
      BY <2>2, <3>1, <3>2, InitDents
  <2>4. QED
    BY <2>2, <2>3 DEF RankInv
<1>16. QED
  BY <1>9, <1>10, <1>11, <1>12, <1>13, <1>14, <1>15 DEF TreeInv

\* Every step keeps the tree.
LEMMA NextTree ==
    ASSUME IInv, TreeInv, NoParentPaths, [Next]_vars
    PROVE  TreeInv'
<1>1. CASE Next
  <2>1. PICK p, u : StepKind(p, u)
    BY <1>1, NextKind
  <2>2. CASE DiskMoves(p, u) /\ DiskKind(p, u)
    BY <2>2, AllocTree, FirstTree, UnlinkTree, DropTree, AddTree, MoreTree DEF DiskKind
  <2>3. CASE ~(DiskMoves(p, u) /\ DiskKind(p, u))
    BY <2>1, <2>3, PlainTree, FilesTree, FreesTree, GrowsTree DEF StepKind
  <2>4. QED
    BY <2>2, <2>3
<1>2. CASE UNCHANGED vars
  <2>1. UNCHANGED <<dino, icache, dents, used, ftable, ofile, cwd, th, calls>>
    BY <1>2 DEF vars
  <2>2. Grows
    BY <2>1 DEF Grows, OpenFiles
  <2>3. QED
    BY <2>2, GrowsTree
<1>3. QED
  BY <1>1, <1>2

\* If no path has an element .., the directories stay a tree, in every
\* reachable state, and the calls know live inodes only.
THEOREM TreeInvariant ==
    ASSUME NoParentPaths
    PROVE  Spec => [](IInv /\ TreeInv)
<1>1. Init => IInv /\ TreeInv
  BY InitInv, InitTree
<1>2. IInv /\ TreeInv /\ [Next]_vars => (IInv /\ TreeInv)'
  BY NextInv, NextTree
<1>3. QED
  BY <1>1, <1>2, PTL DEF Spec

\* Directories have one name at most, in the directory that their .. names, and
\* nlink on disk is never below the number of names and of subdirectories:
\* what create(), link(), unlink() and iput() rely on between their updates.
THEOREM TreeIsSound ==
    ASSUME NoParentPaths
    PROVE  Spec => []TreeSound
<1>1. ASSUME IInv, TreeInv PROVE TreeSound
  <2>1. ASSUME NEW i \in Inums PROVE dino[i].nlink >= Cardinality(Entries(i)) + Cardinality(Subdirs(i))
    <3>1. PICK a, b, c \in Nat : /\ a = Cardinality(Entries(i)) /\ b = Cardinality(Subdirs(i))
                                 /\ c = Cardinality(Owing(i))
                                 /\ Need(i) = a + b + c + (IF i = ROOTINO THEN 1 ELSE 0)
      BY NeedParts
    <3>2. dino[i].nlink >= Need(i) /\ dino[i].nlink \in Int
      BY <1>1, LinksMean DEF TreeInv, LinksInv
    <3>3. dino[i].nlink >= a + b
      BY <3>1, <3>2
    <3>4. QED
      BY <3>1, <3>3
  <2>2. QED
    BY <1>1, <2>1 DEF TreeSound, LinksCover, TreeInv
<1>2. QED
  BY <1>1, TreeInvariant, PTL

\* An inode that a call waits for, and how the call has come to it.
LEMMA WantsPointer ==
    ASSUME IInv, NEW p \in Procs, Wants(p) # NONE
    PROVE  /\ Wants(p) \in Inums /\ Held(th[p], Wants(p)) # 0
           /\ th[p].pc # "put" => PointsIn(th[p], Wants(p))
           /\ th[p].pc \in ParentOps => Wants(p) = th[p].dp
           /\ th[p].pc \in {"link1", "unlink1"} => Wants(p) = th[p].ip
           /\ th[p].pc = "put" => Wants(p) = th[p].put
           /\ th[p].pc \notin {"free", "deref", "fopen", "made", "unlinked", "dropdir"}
<1>1. PICK t, i : t = th[p] /\ i = Wants(p)
  OBVIOUS
<1>2. \/ t.pc = "walk" /\ i = t.cur
      \/ t.pc \in ParentOps /\ i = t.dp
      \/ t.pc \in {"open", "openw", "link1", "exists", "unlink1", "link", "linkbad", "chdir"} /\ i = t.ip
      \/ t.pc = "put" /\ i = t.put
  BY <1>1 DEF Wants
<1>3. i \in Inums
  BY <1>1, <1>2, LocalsHere
<1>4. Held(t, i) # 0
  BY <1>2 DEF Held, Is
<1>5. /\ t.pc # "put" => PointsIn(t, i)
      /\ t.pc \in ParentOps => i = t.dp
      /\ t.pc \in {"link1", "unlink1"} => i = t.ip
      /\ t.pc = "put" => i = t.put
      /\ t.pc \notin {"free", "deref", "fopen", "made", "unlinked", "dropdir"}
  BY <1>2 DEF PointsIn, ParentOps, CreateOps
<1>6. QED
  BY <1>1, <1>3, <1>4, <1>5

\* An inode that iput() is about to free has its blocks marked, each once.
LEMMA FreeableWhenFreed ==
    ASSUME IInv, NEW p \in Procs, th[p].pc = "free"
    PROVE  Freeable(th[p].put)
<1>1. PICK t, i, a : t = th[p] /\ i = t.put /\ a = icache[i].node.addrs
  OBVIOUS
<1>2. CallInv(t) /\ t \in Locals /\ Putting(t)
  BY <1>1, LocalsHere DEF Putting
<1>3. i \in Inums /\ p # NOBODY
  BY <1>1, <1>2, LocalsHere, ProcsAssumption DEF CallInv, PointersAt, Putting
<1>4. a = dino[i].addrs
  BY <1>1, <1>3 DEF IInv, LockInv, HasLocked, CacheInv
<1>5. a \in Seq(Blocks) /\ Len(a) <= MAXFILE + 1 /\ MAXFILE \in Nat
  BY <1>3, <1>4, SizeAssumption DEF IInv, TypeOK, Nodes, FreeNodes
<1>6. Range(a) \subseteq used
  BY <1>3, <1>4, AddrsUsed
<1>7. ASSUME NEW j \in DOMAIN a, NEW k \in DOMAIN a, a[j] = a[k] PROVE j = k
  <2>1. <<i, j>> \in Owned /\ <<i, k>> \in Owned
    BY <1>3, <1>4, <1>5 DEF Owned
  <2>2. BlockAt(<<i, j>>) = BlockAt(<<i, k>>)
    BY <1>4, <1>7 DEF BlockAt
  <2>3. <<i, j>> = <<i, k>>
    BY <2>1, <2>2 DEF IInv, BlocksOwned
  <2>4. QED
    BY <2>3
<1>8. QED
  BY <1>1, <1>6, <1>7 DEF Freeable

\* No call reaches a panic of ilock(), dirlookup(), unlink(), iunlock() or bfree().
THEOREM NeverPanics ==
    ASSUME NoParentPaths
    PROVE  Spec => []NoPanic
<1>1. ASSUME IInv, TreeInv, NEW p \in Procs, NEW t, t = th[p], NEW i, i = Wants(p)
      PROVE  /\ i # NONE => icache[i].ref >= 1
             /\ i # NONE /\ t.pc # "put" /\ icache[i].lock = NOBODY => Node(i).type # "free"
             /\ t.pc \in ParentOps /\ icache[i].lock = NOBODY => Node(i).type = "dir"
             /\ t.pc = "unlink1" /\ icache[i].lock = NOBODY => Node(i).nlink >= 1
             /\ t.pc \in {"link1", "unlink1", "dropdir"} => icache[t.dp].lock = p
             /\ t.pc \in {"fopen", "made", "unlinked"} => icache[t.ip].lock = p
             /\ t.pc = "free" => Freeable(t.put)
  <2>1. CallInv(t) /\ t \in Locals /\ icache \in Caches
    BY <1>1, LocalsHere
  <2>2. i # NONE => icache[i].ref >= 1
    <3>1. i # NONE => i \in Inums /\ icache[i].ref > 0
      BY <1>1, WantsPointer, PointerRef
    <3>2. QED
      BY <2>1, <3>1 DEF Caches
  <2>3. i # NONE /\ t.pc # "put" => Node(i).type # "free"
    <3>1. SUFFICES ASSUME i # NONE, t.pc # "put" PROVE Node(i).type # "free"
      OBVIOUS
    <3>2. i \in Inums /\ PointsTo(p, i)
      BY <1>1, <3>1, WantsPointer DEF PointsTo
    <3>3. QED
      BY <1>1, <3>2, NodeOnDisk DEF TreeInv, LiveInv
  <2>4. t.pc \in ParentOps => Node(i).type = "dir"
    <3>1. SUFFICES ASSUME t.pc \in ParentOps PROVE Node(i).type = "dir"
      OBVIOUS
    <3>2. t.dp # NONE
      <4>1. At(t) = t.pc
        BY <3>1 DEF At, Putting, ParentOps, CreateOps
      <4>2. QED
        BY <2>1, <3>1, <4>1 DEF CallInv, PointersAt
    <3>3. i = t.dp
      BY <1>1, <3>1 DEF Wants, ParentOps, CreateOps
    <3>4. i \in Inums /\ dino[i].type = "dir"
      BY <1>1, <3>2, <3>3, LocalsHere DEF IInv, KeptInv
    <3>5. QED
      BY <1>1, <3>4, NodeOnDisk
  <2>5. t.pc = "unlink1" => Node(i).nlink >= 1
    <3>1. SUFFICES ASSUME t.pc = "unlink1" PROVE Node(i).nlink >= 1
      OBVIOUS
    <3>2. i = t.ip /\ i \in Inums /\ t.dp \in Inums /\ dents[t.dp][t.name] = i /\ t.name \in Names
      <4>1. At(t) = "unlink1"
        BY <3>1 DEF At, Putting
      <4>2. t.ip # NONE /\ t.dp # NONE
        BY <2>1, <4>1 DEF CallInv, PointersAt
      <4>3. i = t.ip
        BY <1>1, <3>1 DEF Wants, ParentOps, CreateOps
      <4>4. i \in Inums /\ t.dp \in Inums
        BY <1>1, <4>2, <4>3, LocalsHere
      <4>5. dents[t.dp][t.name] = t.ip /\ t.name \in Names
        BY <1>1, <3>1 DEF IInv, FoundInv
      <4>6. QED
        BY <4>3, <4>4, <4>5
    <3>3. <<t.dp, t.name>> \in Inums \X Names /\ dents[<<t.dp, t.name>>[1]][<<t.dp, t.name>>[2]] = i
      BY <3>2
    <3>4. <<t.dp, t.name>> \in Entries(i)
      BY <3>3 DEF Entries
    <3>5. dino[i].nlink >= 1
      BY <1>1, <3>2, <3>4, LinksMean DEF TreeInv
    <3>6. QED
      BY <1>1, <3>2, <3>5, NodeOnDisk
  <2>6. t.pc \in {"link1", "unlink1", "dropdir"} => icache[t.dp].lock = p
    <3>1. SUFFICES ASSUME t.pc \in {"link1", "unlink1", "dropdir"} PROVE icache[t.dp].lock = p
      OBVIOUS
    <3>2. At(t) = t.pc
      BY <3>1 DEF At, Putting
    <3>3. t.dp # NONE
      BY <2>1, <3>1, <3>2 DEF CallInv, PointersAt
    <3>4. t.dp \in Inums /\ HasLocked(t, t.dp)
      BY <1>1, <3>1, <3>2, <3>3, LocalsHere DEF HasLocked
    <3>5. QED
      BY <1>1, <3>4 DEF IInv, LockInv
  <2>7. t.pc \in {"fopen", "made", "unlinked"} => icache[t.ip].lock = p
    <3>1. SUFFICES ASSUME t.pc \in {"fopen", "made", "unlinked"} PROVE icache[t.ip].lock = p
      OBVIOUS
    <3>2. At(t) = t.pc
      BY <3>1 DEF At, Putting
    <3>3. t.ip # NONE
      BY <2>1, <3>1, <3>2 DEF CallInv, PointersAt
    <3>4. t.ip \in Inums /\ HasLocked(t, t.ip)
      BY <1>1, <3>1, <3>2, <3>3, LocalsHere DEF HasLocked
    <3>5. QED
      BY <1>1, <3>4 DEF IInv, LockInv
  <2>8. t.pc = "free" => Freeable(t.put)
    BY <1>1, FreeableWhenFreed
  <2>9. QED
    BY <2>2, <2>3, <2>4, <2>5, <2>6, <2>7, <2>8
<1>2. IInv /\ TreeInv => NoPanic
  BY <1>1 DEF NoPanic
<1>3. QED
  BY <1>2, TreeInvariant, PTL

\* iput() frees an inode only when nothing can lead to it any more: no name, no
\* open file, no current directory and no other call.
THEOREM FreedIsUnreachable ==
    ASSUME NoParentPaths
    PROVE  Spec => FreedUnreachable
<1>1. ASSUME IInv, TreeInv, [Next]_vars, NEW i \in Inums, dino[i].type # "free", dino'[i].type = "free"
      PROVE  /\ Entries(i) = {}
             /\ \A f \in Files : ftable[f].ref > 0 => ftable[f].ip # i
             /\ \A p \in Procs : cwd[p] # i
             /\ icache[i].ref = 1
  <2>1. dino' # dino
    BY <1>1
  <2>2. PICK p, u : StepKind(p, u)
    BY <1>1, <2>1, NextKind DEF vars
  <2>3. ~Plain(p, u) /\ ~FilesMoves(p, u) /\ ~DiskMoves(p, u) /\ ~Grows
    BY <1>1, <2>1 DEF Plain, FilesMoves, DiskMoves, NodesKept, Grows
  <2>4. PICK j : Frees(p, u, j)
    BY <2>2, <2>3 DEF StepKind
  <2>5. /\ th[p].pc = "free" /\ th[p].put = j /\ j \in Inums /\ Moves(p, u)
        /\ dino' = [dino EXCEPT ![j] = Free]
    BY <2>4 DEF Frees
  <2>6. p \in Procs /\ j = i
    BY <1>1, <2>5 DEF Moves, IInv, TypeOK
  <2>7. /\ icache[i].ref = 1 /\ dino[i].nlink = 0 /\ OpenFiles(i) = {}
        /\ \A r \in Procs : cwd[r] # i
    BY <1>1, <2>5, <2>6, LastKnown
  <2>8. Entries(i) = {}
    BY <1>1, <2>7, LinksMean DEF TreeInv
  <2>9. QED
    BY <2>7, <2>8 DEF OpenFiles
<1>2. IInv /\ TreeInv /\ [Next]_vars =>
        [\A i \in Inums : dino[i].type # "free" /\ dino'[i].type = "free" =>
            /\ Entries(i) = {}
            /\ \A f \in Files : ftable[f].ref > 0 => ftable[f].ip # i
            /\ \A p \in Procs : cwd[p] # i
            /\ icache[i].ref = 1]_vars
  BY <1>1
<1>3. QED
  BY <1>2, TreeInvariant, PTL DEF Spec, FreedUnreachable

\* Processes that wait for each other for ever do so in one way only: a call
\* puts a directory again while it holds the lock of an inode below it, or
\* link() is given a new name that is . itself.  All other waits go down the
\* tree.
THEOREM WaitsOnlyGoDown ==
    ASSUME NoParentPaths
    PROVE  Spec => []WaitsGoDown
<1>1. ASSUME IInv, TreeInv, NEW S \in CircularWaits
      PROVE  \E p \in S : /\ th[p].pc = "put"
                          /\ th[p].then \in {"fopen", "made", "unlinked"} \/ th[p].name \in Dots
  <2>1. /\ S \subseteq Procs /\ S # {}
        /\ \A p \in S : Wants(p) # NONE /\ icache[Wants(p)].lock \in S
    BY DEF CircularWaits
  <2>2. \A p \in S : Wants(p) \in Inums
    BY <1>1, <2>1, WantsPointer
  <2>3. PICK rank \in [Inums -> Nat] :
          \A d \in Inums, n \in Names : dents[d][n] # NONE => rank[dents[d][n]] < rank[d]
    BY <1>1 DEF TreeInv, RankInv
  <2>4. PICK p \in S : \A q \in S : rank[Wants(p)] <= rank[Wants(q)]
    <3>1. PICK T : T = {rank[Wants(q)] : q \in S}
      OBVIOUS
    <3>2. T \in SUBSET Nat /\ T # {}
      BY <2>1, <2>2, <2>3, <3>1
    <3>3. PICK m \in T : \A k \in T : m <= k
      <4>1. PICK x \in T : \A y \in T : ~(<<y, x>> \in OpToRel(<, Nat))
        BY <3>2, WFMin, NatLessThanWellFounded
      <4>2. \A y \in T : ~(y < x)
        BY <3>2, <4>1 DEF OpToRel
      <4>3. QED
        BY <3>2, <4>2
    <3>4. QED
      BY <3>1, <3>3
  <2>5. PICK i, q, t : i = Wants(p) /\ q = icache[i].lock /\ t = th[q]
    OBVIOUS
  <2>6. i \in Inums /\ q \in S /\ q \in Procs
    BY <2>1, <2>2, <2>5
  <2>7. /\ t \in Locals /\ CallInv(t) /\ Wants(q) # NONE
        /\ t.dp # NONE => t.dp \in Inums
    BY <1>1, <2>1, <2>5, <2>6, LocalsHere
  <2>8. HasLocked(t, i)
    BY <1>1, <2>5, <2>6 DEF IInv, LockInv
  <2>9. PICK j : j = Wants(q)
    OBVIOUS
  <2>10. /\ j \in Inums /\ icache[j].lock # NOBODY
         /\ t.pc \in {"link1", "unlink1"} => j = t.ip
         /\ t.pc = "put" => j = t.put
         /\ t.pc \notin {"free", "deref", "fopen", "made", "unlinked", "dropdir"}
    BY <1>1, <2>1, <2>5, <2>6, <2>7, <2>9, WantsPointer, ProcsAssumption
  <2>11. ~(rank[j] < rank[i])
    <3>1. rank[i] <= rank[j] /\ rank[i] \in Nat /\ rank[j] \in Nat
      BY <2>3, <2>4, <2>5, <2>6, <2>9, <2>10
    <3>2. QED
      BY <3>1
  <2>12. t.pc # "link1"
    <3>1. SUFFICES ASSUME t.pc = "link1" PROVE FALSE
      OBVIOUS
    <3>2. Fresh(q, j)
      BY <2>5, <2>10, <3>1 DEF Fresh
    <3>3. ~icache[j].valid
      BY <1>1, <2>6, <2>10, <3>2 DEF TreeInv, FreshInv, NewInode
    <3>4. QED
      BY <1>1, <2>10, <3>3 DEF IInv, CacheInv
  <2>13. t.pc # "unlink1"
    <3>1. SUFFICES ASSUME t.pc = "unlink1" PROVE FALSE
      OBVIOUS
    <3>2. At(t) = "unlink1"
      BY <3>1 DEF At, Putting
    <3>3. t.dp = i
      BY <2>8, <3>1, <3>2 DEF HasLocked
    <3>4. dents[i][t.name] = j /\ t.name \in Names
      BY <1>1, <2>5, <2>6, <2>10, <3>1, <3>3 DEF IInv, FoundInv
    <3>5. QED
      BY <2>3, <2>6, <2>10, <2>11, <3>4 DEF NONE, Inums
  <2>14. t.pc = "put" /\ At(t) = t.then /\ Putting(t)
         /\ (t.then \in {"fopen", "made", "unlinked"} \/ (t.then = "dropdir" /\ t.dp = i))
    BY <2>7, <2>8, <2>10, <2>12, <2>13 DEF HasLocked, At, Putting, CallInv, OpAt
  <2>15. CASE t.then \in {"fopen", "made", "unlinked"} \/ t.name \in Dots
    BY <2>5, <2>6, <2>14, <2>15
  <2>16. CASE t.then = "dropdir" /\ t.dp = i /\ t.name \notin Dots
    <3>1. t.name \in Names
      BY <2>7, <2>16 DEF Locals, Elements
    <3>2. dents[i][t.name] = j
      BY <1>1, <2>5, <2>6, <2>10, <2>14, <2>16 DEF IInv, FoundInv
    <3>3. QED
      BY <2>3, <2>6, <2>10, <2>11, <3>1, <3>2 DEF NONE, Inums
  <2>17. QED
    BY <2>14, <2>15, <2>16
<1>2. IInv /\ TreeInv => WaitsGoDown
  BY <1>1 DEF WaitsGoDown
<1>3. QED
  BY <1>2, TreeInvariant, PTL

=============================================================================
