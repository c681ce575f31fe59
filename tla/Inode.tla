------------------------------- MODULE Inode -------------------------------
(***************************************************************************)
(* The file system above the log: inodes, their cache and their blocks,    *)
(* directories and path names (fs.c), the file table (file.c) and the      *)
(* system calls on them (sysfile.c, fork() and exit() of proc.c).          *)
(*                                                                         *)
(* A step is a critical section of one inode's sleep-lock; a call that     *)
(* waits for another lock while it holds one does so between two steps.    *)
(* iput() takes the lock, reads the count under icache.lock, frees the     *)
(* inode, and lowers the count after it has let the lock go: it is the     *)
(* three steps PutLock, PutFree and PutDeref, on the inode `put' (and then *)
(* on `put2', if the call puts two), and the call goes on at `then'.       *)
(*                                                                         *)
(* A panic stops the kernel: its step is disabled, and NoPanic says that   *)
(* no call reaches one.  The disk has a free inode and a free block        *)
(* whenever one is allocated.  begin_op() and end_op() make a call atomic  *)
(* with respect to crashes (module Log) and do not order calls.            *)
(***************************************************************************)
EXTENDS Integers, Sequences, FiniteSets, SequencesExt, FiniteSetsExt, Functions

CONSTANTS
    Procs,          \* the processes
    NINODES,        \* inodes on the disk; numbers start at 1
    NBLOCKS,        \* data blocks on the disk
    NFILE, NOFILE,  \* sizes of the file table and of a process's ofile[]
    NDIRECT,        \* direct blocks of an inode; the others are in its indirect block
    MAXFILE,        \* blocks in the largest file, NDIRECT + NINDIRECT
    Requests,       \* the calls made with path names: <<op, path, new path of link()>>
    MaxCalls        \* how many system calls are made

ROOTINO == 1
Names == {"d", "f"}
Inums == 1..NINODES
Blocks == 1..NBLOCKS
Files == 1..NFILE
Fds == 1..NOFILE
NONE == 0
NOBODY == "nobody"
Dots == {".", ".."}
Elements == Names \cup Dots

\* A path name: whether it starts with /, and its elements.
Paths == [abs : BOOLEAN, elems : Seq(Elements)]

\* The calls that start with namei() or nameiparent(); the second half of
\* link() is "linkdir".
CreateOps == {"create", "mkdir", "mknod"}
NameOps == {"open", "openw", "link", "chdir"}
ParentOps == CreateOps \cup {"unlink", "linkdir"}   \* those that call nameiparent()

ASSUME DiskAssumption == NINODES \in Nat /\ NINODES >= 3 /\ NBLOCKS \in Nat /\ NBLOCKS >= 5
ASSUME SizeAssumption ==
    /\ {NFILE, NOFILE, NDIRECT, MAXFILE} \subseteq Nat \ {0} /\ MaxCalls \in Nat
    /\ MAXFILE >= 2 /\ MAXFILE >= NDIRECT
ASSUME RequestAssumption ==
    Requests \subseteq (NameOps \cup CreateOps \cup {"unlink"}) \X Paths \X Paths
ASSUME ProcsAssumption == IsFiniteSet(Procs) /\ NOBODY \notin Procs

VARIABLES
    dino,       \* dino[i]: the inode i on disk
    icache,     \* icache[i]: the entry of the cache for i
    dents,      \* dents[i][name]: the inode a directory's entry names, or NONE
    used,       \* the blocks marked in the bitmap
    ftable,     \* the file table
    ofile,      \* ofile[p][fd]: an index of ftable, or NONE
    cwd,        \* cwd[p]: an inode, or NONE after exit()
    th,         \* the locals of the call each process is in
    calls       \* the number of calls made

disk == <<dino, dents, used>>
files == <<ftable, ofile>>
vars == <<dino, icache, dents, used, ftable, ofile, cwd, th, calls>>

\* struct dinode.  addrs has the direct blocks, then the indirect block, then the
\* blocks that the indirect block lists; a size is a number of blocks, so that
\* it follows from addrs.  The entries of a directory fit in one block.
Free == [type |-> "free", nlink |-> 0, addrs |-> <<>>]
NoFile == [ref |-> 0, ip |-> NONE, off |-> 0, writable |-> FALSE]
NoDents == [n \in Elements |-> NONE]

\* A process in user space.
NoPath == [abs |-> FALSE, elems |-> <<>>]
Idle == [pc |-> "idle", op |-> "none", rest |-> <<>>, new |-> NoPath, cur |-> NONE, ip |-> NONE,
         dp |-> NONE, name |-> "f", put |-> NONE, put2 |-> NONE, then |-> "idle"]

\* The blocks of a file of two blocks, an indirect block included.
TwoBlocks == IF NDIRECT = 1 THEN <<3, 4, 5>> ELSE <<3, 4>>

\* The root holds a directory d, which is empty, and a file f of two blocks.
\* Every process works in one of the two directories.
Init ==
    /\ dino = [i \in Inums |->
                 CASE i = 1 -> [type |-> "dir", nlink |-> 2, addrs |-> <<1>>]
                   [] i = 2 -> [type |-> "dir", nlink |-> 1, addrs |-> <<2>>]
                   [] i = 3 -> [type |-> "file", nlink |-> 1, addrs |-> TwoBlocks]
                   [] OTHER -> Free]
    /\ dents = [i \in Inums |->
                 CASE i = 1 -> [NoDents EXCEPT !["."] = 1, ![".."] = 1, !["d"] = 2, !["f"] = 3]
                   [] i = 2 -> [NoDents EXCEPT !["."] = 2, ![".."] = 1]
                   [] OTHER -> NoDents]
    /\ used = {1, 2} \cup Range(TwoBlocks)
    /\ cwd \in [Procs -> {1, 2}]
    /\ icache = [i \in Inums |-> [ref |-> Cardinality({p \in Procs : cwd[p] = i}),
                                  valid |-> FALSE, lock |-> NOBODY, node |-> Free]]
    /\ ftable = [f \in Files |-> NoFile]
    /\ ofile = [p \in Procs |-> [fd \in Fds |-> NONE]]
    /\ th = [p \in Procs |-> Idle]
    /\ calls = 0

-----------------------------------------------------------------------------
(* The inode cache. *)

\* Mutant: a second iget() of a cached inode does not count.
IGetUncounted(c, i) ==
    [c EXCEPT ![i] = IF c[i].ref > 0 THEN c[i] ELSE [c[i] EXCEPT !.ref = 1, !.valid = FALSE]]

\* iget(), idup(): one more reference; an entry without one is recycled.
IGet(c, i) ==
    [c EXCEPT ![i] = IF c[i].ref > 0 THEN [c[i] EXCEPT !.ref = @ + 1]
                                     ELSE [c[i] EXCEPT !.ref = 1, !.valid = FALSE]]

\* What ilock() finds in the inode: the cached copy, or the one read from disk.
Node(i) == IF icache[i].valid THEN icache[i].node ELSE dino[i]

\* ilock() returns: the lock is free and the inode has a type.
CanLock(i) == icache[i].lock = NOBODY /\ Node(i).type # "free"

\* The entry after ilock() by p, and after the iunlock() of a section by NOBODY.
Locked(i, p) == [icache EXCEPT ![i] = [@ EXCEPT !.lock = p, !.valid = TRUE, !.node = Node(i)]]

\* Change the inode in the cache, then iupdate().
Updated(c, i, n) == [c EXCEPT ![i].node = n]
IUpdate(i, n) == dino' = [dino EXCEPT ![i] = n]

\* balloc(): the lowest block that is free, if u are marked.
BAlloc(u) == Min(Blocks \ u)

\* ip->size, in blocks: the indirect block is none of them.
Size(addrs) == IF Len(addrs) > NDIRECT THEN Len(addrs) - 1 ELSE Len(addrs)

\* Block bn, which is new, needs an indirect block that is not there.
NeedsIndirect(addrs, bn) == bn >= NDIRECT /\ Len(addrs) <= NDIRECT

\* bmap(): the blocks of an inode once it has a block bn.
BMap(addrs, bn) ==
    LET b == BAlloc(used) IN
    IF bn < Size(addrs) THEN addrs
    ELSE IF NeedsIndirect(addrs, bn) THEN addrs \o <<b, BAlloc(used \cup {b})>>
    ELSE Append(addrs, b)

\* The disk has the blocks that bmap() allocates.
HasRoom(addrs, bn) ==
    \/ bn < Size(addrs)
    \/ Cardinality(Blocks \ used) >= IF NeedsIndirect(addrs, bn) THEN 2 ELSE 1

\* dirlookup() without its iget(), and the entry that dirlink() writes.
DirLookup(i, n) == dents[i][n]
DirLink(ds, i, n, inum) == [ds EXCEPT ![i][n] = inum]

\* ialloc(): the lowest free inode.
FreeInums == {i \in Inums : dino[i].type = "free"}
IAlloc == Min(FreeInums)

-----------------------------------------------------------------------------
(* iput(). *)

\* The call t puts the inode i and goes on at k.
Put(t, i, k) == [t EXCEPT !.pc = "put", !.put = i, !.then = k]

\* Mutant: iput() frees an inode without links whoever refers to it.
LastRefNoCount(i) == icache[i].valid /\ icache[i].node.nlink = 0

\* No links and, at the time of the test, no other reference.
LastRef(i) == icache[i].valid /\ icache[i].node.nlink = 0 /\ icache[i].ref = 1

PutLock(p) ==
    LET i == th[p].put IN
    /\ th[p].pc = "put" /\ icache[i].lock = NOBODY
    /\ IF LastRef(i)
       THEN /\ icache' = [icache EXCEPT ![i].lock = p]
            /\ th' = [th EXCEPT ![p].pc = "free"]
       ELSE /\ th' = [th EXCEPT ![p].pc = "deref"]
            /\ UNCHANGED icache
    /\ UNCHANGED <<disk, files, cwd, calls>>

\* The blocks that itrunc() frees: the direct ones, those that the indirect
\* block lists, and the indirect block.
BlocksOf(n, places) == {n.addrs[k] : k \in DOMAIN n.addrs \cap places}
Direct(n) == BlocksOf(n, 1..NDIRECT)
Listed(n) == BlocksOf(n, (NDIRECT + 2)..(MAXFILE + 1))
Indirect(n) == BlocksOf(n, {NDIRECT + 1})

\* Mutant: the indirect block stays marked in the bitmap.
ITruncLeaks(i) ==
    LET n == icache[i].node IN used \ (Direct(n) \cup Listed(n))

\* itrunc(): the bitmap after bfree() of every block.
ITrunc(i) ==
    LET n == icache[i].node IN used \ (Direct(n) \cup Listed(n) \cup Indirect(n))

\* bfree() finds every block of the inode marked, or it panics.
Freeable(i) ==
    LET a == icache[i].node.addrs IN
    /\ Range(a) \subseteq used
    /\ \A j, k \in DOMAIN a : a[j] = a[k] => j = k

\* Mutant: ip->valid is left set.
FreedValid(i) == [icache EXCEPT ![i] = [@ EXCEPT !.node = Free, !.lock = NOBODY]]

\* The entry when iput() has freed the inode and released the lock.
Freed(i) == [icache EXCEPT ![i] = [@ EXCEPT !.node = Free, !.valid = FALSE, !.lock = NOBODY]]

PutFree(p) ==
    LET i == th[p].put IN
    /\ th[p].pc = "free" /\ Freeable(i)
    /\ used' = ITrunc(i)
    /\ dents' = [dents EXCEPT ![i] = NoDents]
    /\ icache' = Freed(i)
    /\ IUpdate(i, Free)
    /\ th' = [th EXCEPT ![p].pc = "deref"]
    /\ UNCHANGED <<files, cwd, calls>>

\* A call that returns forgets its locals.
GoOn(t, k) == IF k \in {"idle", "dead"} THEN [Idle EXCEPT !.pc = k]
                                        ELSE [t EXCEPT !.pc = k]

PutDeref(p) ==
    LET t == th[p] IN
    /\ t.pc = "deref"
    /\ icache' = [icache EXCEPT ![t.put].ref = @ - 1]
    /\ th' = [th EXCEPT ![p] = IF t.put2 = NONE THEN GoOn([t EXCEPT !.put = NONE], t.then)
                               ELSE Put([t EXCEPT !.put2 = NONE], t.put2, t.then)]
    /\ UNCHANGED <<disk, files, cwd, calls>>

-----------------------------------------------------------------------------
(* Path names. *)

\* Where a call goes on when namei() or nameiparent() returns 0.
Failed(t) == IF t.op = "linkdir" THEN "linkbad" ELSE "idle"

\* The head of the loop of namex(), at inode i with the elements s left.
Walking(t, i, s) ==
    IF s # <<>> THEN [t EXCEPT !.pc = "walk", !.cur = i, !.rest = s]
    ELSE IF t.op \in ParentOps THEN Put([t EXCEPT !.cur = NONE], i, Failed(t))
    ELSE [t EXCEPT !.pc = t.op, !.ip = i, !.cur = NONE, !.rest = <<>>]

\* Where namex() starts.
Start(p, path) == IF path.abs THEN ROOTINO ELSE cwd[p]

\* A system call with a path name, up to the loop of namex().
Call(p, op, path, new) ==
    /\ th[p].pc = "idle" /\ calls < MaxCalls
    /\ calls' = calls + 1
    /\ icache' = IGet(icache, Start(p, path))
    /\ th' = [th EXCEPT ![p] = Walking([Idle EXCEPT !.op = op, !.new = new],
                                       Start(p, path), path.elems)]
    /\ UNCHANGED <<disk, files, cwd>>

\* One turn of the loop: the parent is found, or the element, or neither.
Walk(p) ==
    LET t == th[p]
        i == t.cur
        dir == Node(i).type = "dir"
        last == t.op \in ParentOps /\ Tail(t.rest) = <<>>
        e == DirLookup(i, Head(t.rest))
        next == Walking([t EXCEPT !.cur = NONE], e, Tail(t.rest)) IN
    /\ t.pc = "walk" /\ CanLock(i)
    /\ \/ /\ ~dir \/ (~last /\ e = NONE)
          /\ icache' = Locked(i, NOBODY)
          /\ th' = [th EXCEPT ![p] = Put([t EXCEPT !.cur = NONE], i, Failed(t))]
       \/ /\ dir /\ last
          /\ icache' = Locked(i, NOBODY)
          /\ th' = [th EXCEPT ![p] = [t EXCEPT !.pc = t.op, !.dp = i, !.name = Head(t.rest),
                                               !.cur = NONE, !.rest = <<>>]]
       \/ /\ dir /\ ~last /\ e # NONE
          /\ icache' = IGet(Locked(i, NOBODY), e)
          /\ th' = [th EXCEPT ![p] = Put(next, i, next.pc)]
    /\ UNCHANGED <<disk, files, cwd, calls>>

-----------------------------------------------------------------------------
(* open(), mkdir() and mknod(). *)

\* open() without O_CREATE: a directory can only be opened for reading.
Open(p) ==
    LET t == th[p]
        bad == Node(t.ip).type = "dir" /\ t.op = "openw" IN
    /\ t.pc \in {"open", "openw"} /\ CanLock(t.ip)
    /\ icache' = Locked(t.ip, IF bad THEN NOBODY ELSE p)
    /\ th' = [th EXCEPT ![p] = IF bad THEN Put([t EXCEPT !.ip = NONE], t.ip, "idle")
                                      ELSE [t EXCEPT !.pc = "fopen"]]
    /\ UNCHANGED <<disk, files, cwd, calls>>

\* create() with dp locked: the name is there, or a new inode is allocated.
Create(p) ==
    LET t == th[p]
        e == DirLookup(t.dp, t.name) IN
    /\ t.pc \in CreateOps /\ CanLock(t.dp)
    /\ \/ /\ e # NONE
          /\ icache' = IGet(Locked(t.dp, NOBODY), e)
          /\ th' = [th EXCEPT ![p] = Put([t EXCEPT !.ip = e, !.dp = NONE], t.dp, "exists")]
          /\ UNCHANGED disk
       \/ /\ e = NONE /\ FreeInums # {}
          /\ IUpdate(IAlloc, [Free EXCEPT !.type = CASE t.op = "create" -> "file"
                                                      [] t.op = "mkdir" -> "dir"
                                                      [] t.op = "mknod" -> "dev"])
          /\ icache' = IGet(Locked(t.dp, p), IAlloc)
          /\ th' = [th EXCEPT ![p] = [t EXCEPT !.ip = IAlloc, !.pc = "link1"]]
          /\ UNCHANGED <<dents, used>>
    /\ UNCHANGED <<files, cwd, calls>>

\* create() goes on with the new inode locked as well: the link count, the
\* entries . and .. of a directory (in a new block), the entry in dp.
CreateLink(p) ==
    LET t == th[p]
        mkdir == t.op = "mkdir"
        ip == [Node(t.ip) EXCEPT !.nlink = 1, !.addrs = IF mkdir THEN BMap(@, 0) ELSE @]
        dp == [Node(t.dp) EXCEPT !.nlink = IF mkdir THEN @ + 1 ELSE @] IN
    /\ t.pc = "link1" /\ CanLock(t.ip) /\ (mkdir => HasRoom(Node(t.ip).addrs, 0))
    /\ dino' = [dino EXCEPT ![t.ip] = ip, ![t.dp] = dp]
    /\ icache' = [Updated(Updated(Locked(t.ip, p), t.ip, ip), t.dp, dp)
                    EXCEPT ![t.dp].lock = NOBODY]
    /\ used' = used \cup Range(ip.addrs)
    /\ dents' = DirLink(IF mkdir THEN DirLink(DirLink(dents, t.ip, ".", t.ip), t.ip, "..", t.dp)
                                 ELSE dents, t.dp, t.name, t.ip)
    /\ th' = [th EXCEPT ![p] = Put([t EXCEPT !.dp = NONE], t.dp,
                                   IF t.op = "create" THEN "fopen" ELSE "made")]
    /\ UNCHANGED <<files, cwd, calls>>

\* The end of create() when the name was there.
Exists(p) ==
    LET t == th[p]
        ok == t.op = "create" /\ Node(t.ip).type = "file" IN
    /\ t.pc = "exists" /\ CanLock(t.ip)
    /\ icache' = Locked(t.ip, IF ok THEN p ELSE NOBODY)
    /\ th' = [th EXCEPT ![p] = IF ok THEN [t EXCEPT !.pc = "fopen"]
                                     ELSE Put([t EXCEPT !.ip = NONE], t.ip, "idle")]
    /\ UNCHANGED <<disk, files, cwd, calls>>

\* filealloc(), fdalloc()
FreeFiles == {f \in Files : ftable[f].ref = 0}
FreeFds(p) == {fd \in Fds : ofile[p][fd] = NONE}

\* The end of open(), with ip locked.
FOpen(p) ==
    LET t == th[p]
        full == FreeFiles = {} \/ FreeFds(p) = {} IN
    /\ t.pc = "fopen"
    /\ icache' = [icache EXCEPT ![t.ip].lock = NOBODY]
    /\ \/ /\ full
          /\ th' = [th EXCEPT ![p] = Put([t EXCEPT !.ip = NONE], t.ip, "idle")]
          /\ UNCHANGED files
       \/ /\ ~full
          /\ ftable' = [ftable EXCEPT ![Min(FreeFiles)] =
                          [ref |-> 1, ip |-> t.ip, off |-> 0, writable |-> t.op # "open"]]
          /\ ofile' = [ofile EXCEPT ![p][Min(FreeFds(p))] = Min(FreeFiles)]
          /\ th' = [th EXCEPT ![p] = Idle]
    /\ UNCHANGED <<disk, cwd, calls>>

\* Mutant: mkdir() and mknod() unlock the inode and do not put it.
MadeNotPut(p) ==
    /\ th[p].pc = "made"
    /\ icache' = [icache EXCEPT ![th[p].ip].lock = NOBODY]
    /\ th' = [th EXCEPT ![p] = Idle]
    /\ UNCHANGED <<disk, files, cwd, calls>>

\* The end of mkdir() and mknod(): iunlockput(ip).
Made(p) ==
    LET t == th[p] IN
    /\ t.pc = "made"
    /\ icache' = [icache EXCEPT ![t.ip].lock = NOBODY]
    /\ th' = [th EXCEPT ![p] = Put([t EXCEPT !.ip = NONE], t.ip, "idle")]
    /\ UNCHANGED <<disk, files, cwd, calls>>

-----------------------------------------------------------------------------
(* unlink(). *)

\* With dp locked: look the name up.
Unlink(p) ==
    LET t == th[p]
        e == DirLookup(t.dp, t.name)
        bad == t.name \in Dots \/ e = NONE IN
    /\ t.pc = "unlink" /\ CanLock(t.dp)
    /\ \/ /\ bad
          /\ icache' = Locked(t.dp, NOBODY)
          /\ th' = [th EXCEPT ![p] = Put([t EXCEPT !.dp = NONE], t.dp, "idle")]
       \/ /\ ~bad
          /\ icache' = IGet(Locked(t.dp, p), e)
          /\ th' = [th EXCEPT ![p] = [t EXCEPT !.ip = e, !.pc = "unlink1"]]
    /\ UNCHANGED <<disk, files, cwd, calls>>

\* isdirempty()
IsDirEmpty(i) == \A n \in Names : dents[i][n] = NONE

\* Mutant: the entry is not erased.
ErasedNot(t) == dents

\* writei() of an empty entry over the one found.
Erased(t) == DirLink(dents, t.dp, t.name, NONE)

\* With ip locked as well: a directory that is not empty stays, and dp is
\* locked until ip has been put; else the entry is erased and dp let go.
UnlinkEntry(p) ==
    LET t == th[p]
        ip == Node(t.ip)
        dp == [Node(t.dp) EXCEPT !.nlink = IF ip.type = "dir" THEN @ - 1 ELSE @]
        full == ip.type = "dir" /\ ~IsDirEmpty(t.ip) IN
    /\ t.pc = "unlink1" /\ CanLock(t.ip) /\ ip.nlink >= 1
    /\ \/ /\ full
          /\ icache' = Locked(t.ip, NOBODY)
          /\ th' = [th EXCEPT ![p] = Put([t EXCEPT !.ip = NONE], t.ip, "dropdir")]
          /\ UNCHANGED <<dino, dents>>
       \/ /\ ~full
          /\ dents' = Erased(t)
          /\ IUpdate(t.dp, dp)
          /\ icache' = [Updated(Locked(t.ip, p), t.dp, dp) EXCEPT ![t.dp].lock = NOBODY]
          /\ th' = [th EXCEPT ![p] = Put([t EXCEPT !.dp = NONE], t.dp, "unlinked")]
    /\ UNCHANGED <<used, files, cwd, calls>>

\* The inode loses a link, by unlink() or by a link() that failed.
DropLink(p) ==
    LET t == th[p]
        ip == [Node(t.ip) EXCEPT !.nlink = @ - 1] IN
    /\ IUpdate(t.ip, ip)
    /\ icache' = Updated(Locked(t.ip, NOBODY), t.ip, ip)
    /\ th' = [th EXCEPT ![p] = Put([t EXCEPT !.ip = NONE], t.ip, "idle")]
    /\ UNCHANGED <<dents, used, files, cwd, calls>>

Unlinked(p) == th[p].pc = "unlinked" /\ DropLink(p)

\* iunlockput(dp) where unlink() or link() gives up.
DropDir(p) ==
    LET t == th[p] IN
    /\ t.pc = "dropdir"
    /\ icache' = [icache EXCEPT ![t.dp].lock = NOBODY]
    /\ th' = [th EXCEPT ![p] = Put([t EXCEPT !.dp = NONE], t.dp, Failed(t))]
    /\ UNCHANGED <<disk, files, cwd, calls>>

-----------------------------------------------------------------------------
(* link() and chdir(). *)

\* Mutant: the inode stays locked while the new name is looked up.
AddLinkHolding(p, n) ==
    LET t == th[p]
        start == Start(p, t.new) IN
    /\ IUpdate(t.ip, n)
    /\ icache' = IGet(Updated(Locked(t.ip, p), t.ip, n), start)
    /\ th' = [th EXCEPT ![p] = Walking([t EXCEPT !.op = "linkdir"], start, t.new.elems)]

\* iupdate() of the inode with its new link, iunlock(), up to namex() of the
\* new name.
AddLink(p, n) ==
    LET t == th[p]
        start == Start(p, t.new) IN
    /\ IUpdate(t.ip, n)
    /\ icache' = IGet(Updated(Locked(t.ip, NOBODY), t.ip, n), start)
    /\ th' = [th EXCEPT ![p] = Walking([t EXCEPT !.op = "linkdir"], start, t.new.elems)]

\* Mutant: directories can be linked to.
LinkableAny(n) == TRUE

Linkable(n) == n.type # "dir"

\* Mutant: the link is not counted.
LinkedUncounted(n) == n

Linked(n) == [n EXCEPT !.nlink = @ + 1]

\* The old name: a file gets a link before the new name is looked up.
Link(p) ==
    LET t == th[p]
        n == Node(t.ip) IN
    /\ t.pc = "link" /\ CanLock(t.ip)
    /\ \/ /\ ~Linkable(n)
          /\ icache' = Locked(t.ip, NOBODY)
          /\ th' = [th EXCEPT ![p] = Put([t EXCEPT !.ip = NONE], t.ip, "idle")]
          /\ UNCHANGED dino
       \/ Linkable(n) /\ AddLink(p, Linked(n))
    /\ UNCHANGED <<dents, used, files, cwd, calls>>

\* The new name, with dp locked: dirlink() puts the inode of an entry that is
\* there before dp is let go.
LinkDir(p) ==
    LET t == th[p]
        e == DirLookup(t.dp, t.name) IN
    /\ t.pc = "linkdir" /\ CanLock(t.dp)
    /\ \/ /\ e # NONE
          /\ icache' = IGet(Locked(t.dp, p), e)
          /\ th' = [th EXCEPT ![p] = Put(t, e, "dropdir")]
          /\ UNCHANGED dents
       \/ /\ e = NONE
          /\ icache' = Locked(t.dp, NOBODY)
          /\ dents' = DirLink(dents, t.dp, t.name, t.ip)
          /\ th' = [th EXCEPT ![p] = Put([t EXCEPT !.ip = NONE, !.dp = NONE, !.put2 = t.ip],
                                         t.dp, "idle")]
    /\ UNCHANGED <<dino, used, files, cwd, calls>>

LinkBad(p) == th[p].pc = "linkbad" /\ CanLock(th[p].ip) /\ DropLink(p)

\* chdir(); nobody but p looks at p's cwd, which is assigned here.
Chdir(p) ==
    LET t == th[p]
        dir == Node(t.ip).type = "dir" IN
    /\ t.pc = "chdir" /\ CanLock(t.ip)
    /\ icache' = Locked(t.ip, NOBODY)
    /\ cwd' = IF dir THEN [cwd EXCEPT ![p] = t.ip] ELSE cwd
    /\ th' = [th EXCEPT ![p] = Put([t EXCEPT !.ip = NONE], IF dir THEN cwd[p] ELSE t.ip, "idle")]
    /\ UNCHANGED <<disk, files, calls>>

-----------------------------------------------------------------------------
(* Calls on open files, fork() and exit(). *)

\* p is about to make a call on its open file fd.
Uses(p, fd) ==
    /\ th[p].pc = "idle" /\ calls < MaxCalls /\ ofile[p][fd] # NONE
    /\ calls' = calls + 1

\* fileclose() of fd, after which p goes on at k.
FileClose(p, fd, k) ==
    LET f == ofile[p][fd] IN
    /\ ofile' = [ofile EXCEPT ![p][fd] = NONE]
    /\ \/ /\ ftable[f].ref > 1
          /\ ftable' = [ftable EXCEPT ![f].ref = @ - 1]
          /\ th' = [th EXCEPT ![p] = [Idle EXCEPT !.pc = k]]
       \/ /\ ftable[f].ref = 1
          /\ ftable' = [ftable EXCEPT ![f] = NoFile]
          /\ th' = [th EXCEPT ![p] = Put(Idle, ftable[f].ip, k)]
    /\ UNCHANGED <<disk, icache, cwd>>

Close(p, fd) == Uses(p, fd) /\ FileClose(p, fd, "idle")

\* filedup()
FileDup(f) == [ftable EXCEPT ![f].ref = @ + 1]

Dup(p, fd) ==
    /\ Uses(p, fd) /\ FreeFds(p) # {}
    /\ ofile' = [ofile EXCEPT ![p][Min(FreeFds(p))] = ofile[p][fd]]
    /\ ftable' = FileDup(ofile[p][fd])
    /\ UNCHANGED <<disk, icache, cwd, th>>

\* f->off after readi(), which stops at the end of the file.
ReadTo(off, size) == IF off < size THEN off + 1 ELSE off

\* read() of one block of a file or a directory: nothing is read at the end.  A
\* device has no blocks: each time its driver's read or write has the inode
\* locked is such a step, and so is fstat().
Read(p, fd) ==
    LET f == ofile[p][fd]
        i == ftable[f].ip IN
    /\ Uses(p, fd) /\ CanLock(i)
    /\ icache' = Locked(i, NOBODY)
    /\ ftable' = [ftable EXCEPT ![f].off = ReadTo(@, Size(Node(i).addrs))]
    /\ UNCHANGED <<disk, ofile, cwd, th>>

\* writei() of one block at off, which is not past the end.
Written(n, off) == [n EXCEPT !.addrs = BMap(@, off)]

\* write() of one block of a file: a block is allocated at the end, unless the
\* file is as large as can be, and the inode is then updated.
Write(p, fd) ==
    LET f == ofile[p][fd]
        i == ftable[f].ip
        off == ftable[f].off
        n == Node(i)
        ip == Written(n, off) IN
    /\ Uses(p, fd) /\ CanLock(i) /\ n.type = "file" /\ ftable[f].writable
    /\ off < MAXFILE /\ HasRoom(n.addrs, off)
    /\ icache' = Updated(Locked(i, NOBODY), i, ip)
    /\ IUpdate(i, ip)
    /\ used' = used \cup Range(ip.addrs)
    /\ ftable' = [ftable EXCEPT ![f].off = @ + 1]
    /\ UNCHANGED <<dents, ofile, cwd, th>>

Exit(p) ==
    /\ th[p].pc = "idle" /\ calls < MaxCalls
    /\ calls' = calls + 1
    /\ th' = [th EXCEPT ![p].pc = "exit"]
    /\ UNCHANGED <<disk, icache, files, cwd>>

\* exit() closes the open files in turn, then puts the current directory.
ExitCloses(p) ==
    LET open == {fd \in Fds : ofile[p][fd] # NONE} IN
    /\ th[p].pc = "exit"
    /\ \/ open # {} /\ FileClose(p, Min(open), "exit")
       \/ /\ open = {}
          /\ cwd' = [cwd EXCEPT ![p] = NONE]
          /\ th' = [th EXCEPT ![p] = Put(Idle, cwd[p], "dead")]
          /\ UNCHANGED <<disk, icache, files>>
    /\ UNCHANGED calls

\* fork() shares the parent's open files and its current directory with q.
Fork(p, q) ==
    /\ th[p].pc = "idle" /\ th[q].pc = "dead" /\ calls < MaxCalls
    /\ calls' = calls + 1
    /\ ofile' = [ofile EXCEPT ![q] = ofile[p]]
    /\ ftable' = [f \in Files |-> [ftable[f] EXCEPT !.ref =
                    @ + Cardinality({fd \in Fds : ofile[p][fd] = f})]]
    /\ cwd' = [cwd EXCEPT ![q] = cwd[p]]
    /\ icache' = IGet(icache, cwd[p])
    /\ th' = [th EXCEPT ![q] = Idle]
    /\ UNCHANGED disk

-----------------------------------------------------------------------------

Next ==
    \/ \E p \in Procs, r \in Requests : Call(p, r[1], r[2], r[3])
    \/ \E p \in Procs : \/ Walk(p) \/ Open(p) \/ Create(p) \/ CreateLink(p) \/ Exists(p)
                        \/ FOpen(p) \/ Made(p) \/ Unlink(p) \/ UnlinkEntry(p) \/ Unlinked(p)
                        \/ DropDir(p) \/ Link(p) \/ LinkDir(p) \/ LinkBad(p) \/ Chdir(p)
                        \/ PutLock(p) \/ PutFree(p) \/ PutDeref(p)
                        \/ Exit(p) \/ ExitCloses(p)
    \/ \E p \in Procs, fd \in Fds : Close(p, fd) \/ Dup(p, fd) \/ Read(p, fd) \/ Write(p, fd)
    \/ \E p, q \in Procs : Fork(p, q)

Spec == Init /\ [][Next]_vars

-----------------------------------------------------------------------------

Nodes == [type : {"free", "file", "dir", "dev"}, nlink : Int, addrs : Seq(Blocks)]
Caches == [Inums -> [ref : Nat, valid : BOOLEAN, lock : Procs \cup {NOBODY}, node : Nodes]]
Pcs == {"idle", "walk", "open", "openw", "link", "link1", "exists", "fopen", "made",
        "unlink1", "unlinked", "dropdir", "linkbad", "chdir", "put", "free", "deref",
        "exit", "dead"} \cup ParentOps
Pointers == Inums \cup {NONE}
Locals == [pc : Pcs, op : NameOps \cup ParentOps \cup {"none"}, rest : Seq(Elements),
           new : Paths, cur : Pointers, ip : Pointers, dp : Pointers, name : Elements,
           put : Pointers, put2 : Pointers, then : Pcs]

\* Every field of every structure keeps its type; reference counts do not
\* drop below zero.
TypeOK ==
    /\ dino \in [Inums -> Nodes]
    /\ icache \in Caches
    /\ dents \in [Inums -> [Elements -> Pointers]]
    /\ used \subseteq Blocks
    /\ ftable \in [Files -> [ref : Nat, ip : Pointers, off : 0..MAXFILE, writable : BOOLEAN]]
    /\ ofile \in [Procs -> [Fds -> Files \cup {NONE}]]
    /\ cwd \in [Procs -> Pointers]
    /\ th \in [Procs -> Locals]
    /\ calls \in 0..MaxCalls

\* The references to i in the locals of the calls in progress.
HeldByCalls(i) ==
      Cardinality({p \in Procs : th[p].cur = i})
    + Cardinality({p \in Procs : th[p].ip = i}) + Cardinality({p \in Procs : th[p].dp = i})
    + Cardinality({p \in Procs : th[p].put = i}) + Cardinality({p \in Procs : th[p].put2 = i})

\* The open files of i.
OpenFiles(i) == {f \in Files : ftable[f].ref > 0 /\ ftable[f].ip = i}

\* The descriptors of the open file f.
Descriptors(f) == {x \in Procs \X Fds : ofile[x[1]][x[2]] = f}

\* ip->ref "tracks the number of in-memory pointers to the entry": current
\* directories, open files and the locals of the calls in progress; and f->ref
\* the descriptors of f, in whatever process fork(), dup() or open() put them.
RefsCounted ==
    /\ \A i \in Inums : icache[i].ref = Cardinality({p \in Procs : cwd[p] = i})
                                        + Cardinality(OpenFiles(i)) + HeldByCalls(i)
    /\ \A f \in Files : ftable[f].ref = Cardinality(Descriptors(f))

\* The entries that name i, but for . and ..
Entries(i) == {x \in Inums \X Names : dents[x[1]][x[2]] = i}

\* The directories in the tree whose entry .. is i.
Subdirs(i) == {d \in Inums \ {i} : dents[d][".."] = i /\ Entries(d) # {}}

\* nlink is on disk at least the number of links to the inode, even while
\* create(), unlink() and link() are between their updates: no iput() in
\* between takes an inode that has a name for one without.
LinksCover ==
    \A i \in Inums : dino[i].nlink >= Cardinality(Entries(i)) + Cardinality(Subdirs(i))

\* Directories form a tree: each has one name at most, and that name is in the
\* directory its own .. refers to, however link(), mkdir(), unlink() and the
\* reuse of freed inodes interleave.
DirsFormTree ==
    \A i \in Inums : dino[i].type = "dir" =>
        \A x, y \in Entries(i) : x = y /\ dents[i][".."] = x[1] /\ dino[x[1]].type = "dir"

\* What create(), link(), mkdir(), unlink() and the reuse of freed inodes leave
\* on disk, in whatever order they interleave, is a tree with enough links.
TreeSound == LinksCover /\ DirsFormTree

\* The cache is write-through: a valid entry that nobody has locked is the
\* inode on disk, also when the inode has been freed and allocated again.
CacheCoherent ==
    \A i \in Inums : icache[i].ref > 0 /\ icache[i].valid /\ icache[i].lock = NOBODY
                        => icache[i].node = dino[i]

\* The places for blocks in the inodes and indirect blocks on disk, and the
\* block in one.
Owned == {x \in Inums \X (1..(MAXFILE + 1)) : x[2] \in DOMAIN dino[x[1]].addrs}
BlockAt(x) == dino[x[1]].addrs[x[2]]

\* A block is marked in the bitmap exactly when it is in an inode or in an
\* indirect block, and is in one such place only: bmap() and itrunc() neither
\* lose a block nor give or free one twice, the indirect block included.
BlocksOwned ==
    /\ used = {BlockAt(x) : x \in Owned}
    /\ \A x, y \in Owned : BlockAt(x) = BlockAt(y) => x = y

\* The inode p waits for, in ilock() or in iput().
Wants(p) ==
    LET t == th[p] IN
    CASE t.pc = "walk" -> t.cur
      [] t.pc \in ParentOps -> t.dp
      [] t.pc \in {"open", "openw", "link1", "exists", "unlink1", "link", "linkbad", "chdir"} -> t.ip
      [] t.pc = "put" -> t.put
      [] OTHER -> NONE

\* No call reaches a panic: ilock() of an inode without references or without
\* a type, dirlookup() in what is not a directory, unlink() of an inode
\* without links, iunlock() of an inode that the process has not locked, and
\* bfree() of a block that is free.
NoPanic ==
    \A p \in Procs :
        LET t == th[p]
            i == Wants(p) IN
        /\ i # NONE => icache[i].ref >= 1
        /\ i # NONE /\ t.pc # "put" /\ icache[i].lock = NOBODY => Node(i).type # "free"
        /\ t.pc \in ParentOps /\ icache[i].lock = NOBODY => Node(i).type = "dir"
        /\ t.pc = "unlink1" /\ icache[i].lock = NOBODY => Node(i).nlink >= 1
        /\ t.pc \in {"link1", "unlink1", "dropdir"} => icache[t.dp].lock = p
        /\ t.pc \in {"fopen", "made", "unlinked"} => icache[t.ip].lock = p
        /\ t.pc = "free" => Freeable(t.put)

\* An inode is freed only when nothing can lead to it any more: no name, no
\* open file, no current directory and no other call in progress.
FreedUnreachable ==
    [][\A i \in Inums : dino[i].type # "free" /\ dino'[i].type = "free" =>
          /\ Entries(i) = {}
          /\ \A f \in Files : ftable[f].ref > 0 => ftable[f].ip # i
          /\ \A p \in Procs : cwd[p] # i
          /\ icache[i].ref = 1]_vars

\* The sets of processes each of which waits for an inode that one of the set
\* has locked.
CircularWaits ==
    {S \in (SUBSET Procs) \ {{}} :
        \A p \in S : Wants(p) # NONE /\ icache[Wants(p)].lock \in S}

\* Processes wait for each other for ever in one way only: create() and
\* unlink() put the directory, and so lock it again, while they hold the inode
\* (or link() is given a new name . or ..).  Every other wait with a lock held
\* goes down the tree, and the waits for a lock without one are harmless.
WaitsGoDown ==
    \A S \in CircularWaits : \E p \in S :
        /\ th[p].pc = "put"
        /\ th[p].then \in {"fopen", "made", "unlinked"} \/ th[p].name \in Dots
=============================================================================
