------------------------------ MODULE VmProofs ------------------------------
(***************************************************************************)
(* Theorems about Vm: every physical page has one owner, a process that    *)
(* can run has the pages of its size, and its stack is guarded.            *)
(***************************************************************************)
EXTENDS Vm, FiniteSetTheorems, WellFoundedInduction, TLAPS

-----------------------------------------------------------------------------
(* The inductive invariant. *)

\* The pages before page k.
Upto(k) == {v \in Pages : v < k}

\* A slot in use has a kernel stack.
SlotInv == kstack = {p \in Procs : st[p] # "unused"}

\* The child that fork() makes belongs to that fork() alone.
ForkInv ==
    /\ \A p \in Procs : call[p] = "fork" => st[child[p]] = "embryo"
    /\ \A p, q \in Procs :
         call[p] = "fork" /\ call[q] = "fork" /\ child[p] = child[q] => p = q

\* A process is in a call exactly while its state says so.
CallInv(p) ==
    /\ st[p] \in {"unused", "embryo", "user", "zombie"} => call[p] = "none"
    /\ st[p] = "setup" => call[p] \in {"fork", "exec"}
    /\ st[p] = "alloc" => call[p] \in {"sbrk", "exec", "stack"}
    /\ st[p] = "copy" => call[p] = "fork"
    /\ st[p] = "header" => call[p] = "exec"

\* Who has an address space, and every page of one has its page table.
SpaceInv(p) ==
    /\ st[p] \in {"unused", "embryo"} => image[p] = NoImage
    /\ call[p] \in {"none", "sbrk"} => build[p] = NoImage
    /\ \A v \in image[p].pg : PDX(v) \in image[p].tab
    /\ \A v \in build[p].pg : PDX(v) \in build[p].tab

\* The stack that exec() set up has its guard page.
GuardInv(p) ==
    stk[p] # 0 /\ stk[p] \in image[p].pg =>
      stk[p] - 1 \in image[p].sup /\ stk[p] \notin image[p].sup

\* The pages of a process are those of its size, or all of them are gone and it
\* will only exit; in sbrk() they reach up to the loop of allocuvm().  A process
\* that is in a call could run when it made it.
ImageInv(p) ==
    /\ st[p] \in {"user", "zombie"} => image[p].pg \in {{}, Below(sz[p])}
    /\ call[p] # "none" => 0 < PGROUNDUP(sz[p]) /\ stk[p] < PGROUNDUP(sz[p])
    /\ call[p] \in {"fork", "exec", "stack"} => image[p].pg = Below(sz[p])
    /\ call[p] = "sbrk" =>
         /\ image[p].pg = Upto(a[p]) /\ sz[p] <= top[p]
         /\ PGROUNDUP(sz[p]) <= a[p] /\ a[p] <= PGROUNDUP(top[p])

\* The pages of the address space that fork() or exec() makes: none in
\* setupkvm(), in copyuvm() and allocuvm() those up to the loop.
BuildInv(p) ==
    /\ st[p] \in {"unused", "embryo", "user", "zombie", "setup"} => a[p] = 0 /\ bsz[p] = 0
    /\ st[p] = "setup" => build[p].pg = {} /\ build[p].sup = {}
    /\ st[p] = "copy" =>
         /\ build[p].pg = Upto(a[p]) /\ build[p].sup = image[p].sup \cap Upto(a[p])
         /\ a[p] <= PGROUNDUP(sz[p])
    /\ st[p] = "header" => build[p].pg = Below(bsz[p]) /\ build[p].sup = {}
    /\ st[p] = "alloc" /\ call[p] \in {"exec", "stack"} =>
         /\ build[p].pg = Upto(a[p]) /\ build[p].sup = {} /\ bsz[p] <= top[p]
         /\ PGROUNDUP(bsz[p]) <= a[p] /\ a[p] <= PGROUNDUP(top[p])
    /\ st[p] = "alloc" /\ call[p] = "exec" => seg[p].vaddr + seg[p].filesz <= top[p]
    /\ call[p] = "stack" =>
         bsz[p] = PGROUNDUP(bsz[p]) * PGSIZE /\ top[p] = bsz[p] + 2 * PGSIZE

ProcInv(p) == CallInv(p) /\ SpaceInv(p) /\ GuardInv(p) /\ ImageInv(p) /\ BuildInv(p)

IInv ==
    /\ TypeOK /\ PagesConserved /\ SlotInv /\ ForkInv /\ ~panicked
    /\ \A p \in Procs : ProcInv(p)

-----------------------------------------------------------------------------
(* Sizes and pages. *)

\* The quotient and the remainder.
LEMMA DivMod ==
    ASSUME NEW n \in Nat, NEW m \in Nat \ {0}
    PROVE  /\ (n % m) \in 0..(m - 1)
           /\ n = m * (n \div m) + (n % m)
           /\ (n \div m) \in Nat
OBVIOUS

\* Multiplication by the size of a page keeps the order.
LEMMA PageOrder ==
    ASSUME NEW x \in Int, NEW y \in Int
    PROVE  x < y <=> x * PGSIZE < y * PGSIZE
<1>1. PGSIZE \in Nat /\ PGSIZE > 0
  BY PagesAssumption
<1> DEFINE s == PGSIZE
<1> HIDE DEF s
<1>2. s \in Nat /\ s > 0
  BY <1>1 DEF s
<1>3. ASSUME NEW u \in Int, NEW v \in Int, u < v PROVE u * s < v * s
  <2>1. v = u + (v - u) /\ v - u \in Nat /\ v - u > 0
    BY <1>3
  <2>2. \A d \in Nat : d > 0 => d * s > 0
    BY <1>2
  <2>3. (v - u) * s > 0
    BY <2>1, <2>2
  <2>4. v * s = u * s + (v - u) * s
    BY <1>2
  <2>5. QED
    BY <1>2, <2>3, <2>4
<1>4. x < y => x * s < y * s
  BY <1>3
<1>5. y < x => y * s < x * s
  BY <1>3
<1>6. QED
  BY <1>2, <1>4, <1>5 DEF s

\* PGROUNDUP(n) counts the pages that begin below n.
LEMMA RoundUp ==
    ASSUME NEW n \in Nat
    PROVE  /\ PGROUNDUP(n) \in Nat
           /\ \A v \in Nat : v * PGSIZE < n <=> v < PGROUNDUP(n)
<1>1. PGSIZE \in Nat \ {0}
  BY PagesAssumption
<1>2. n + PGSIZE - 1 \in Nat
  BY <1>1
<1> DEFINE q == PGROUNDUP(n)
           r == (n + PGSIZE - 1) % PGSIZE
<1>3. q \in Nat /\ r \in 0..(PGSIZE - 1) /\ n + PGSIZE - 1 = PGSIZE * q + r
  BY <1>1, <1>2, DivMod DEF PGROUNDUP
<1> HIDE DEF q, r
<1>4. ASSUME NEW v \in Nat PROVE v * PGSIZE < n <=> v < q
  <2>1. v * PGSIZE \in Nat /\ q * PGSIZE \in Nat /\ PGSIZE * q = q * PGSIZE
        /\ (v + 1) * PGSIZE = v * PGSIZE + PGSIZE
    BY <1>1, <1>3
  <2>2. q < v + 1 <=> q * PGSIZE < (v + 1) * PGSIZE
    BY <1>3, PageOrder
  <2>3. v < q <=> v * PGSIZE < q * PGSIZE
    BY <1>3, PageOrder
  <2>4. q < v + 1 <=> ~(v < q)
    BY <1>3
  <2>5. QED
    BY <1>1, <1>3, <2>1, <2>2, <2>3, <2>4
<1>5. QED
  BY <1>3, <1>4 DEF q

\* The pages of a size that ends at a page boundary.
LEMMA RoundWhole ==
    ASSUME NEW k \in Nat
    PROVE  k * PGSIZE \in Nat /\ PGROUNDUP(k * PGSIZE) = k
<1>1. PGSIZE \in Nat \ {0}
  BY PagesAssumption
<1>2. k * PGSIZE \in Nat
  BY <1>1
<1> DEFINE n == k * PGSIZE
           q == PGROUNDUP(n)
<1>3. q \in Nat /\ (\A v \in Nat : v * PGSIZE < n <=> v < q)
  BY <1>2, RoundUp
<1>4. \A v \in Nat : v * PGSIZE < n <=> v < k
  BY PageOrder
<1> HIDE DEF n, q
<1>5. q = k
  BY <1>3, <1>4
<1>6. QED
  BY <1>2, <1>5 DEF n, q

\* A larger size has no fewer pages.
LEMMA RoundMono ==
    ASSUME NEW m \in Nat, NEW n \in Nat, m <= n
    PROVE  PGROUNDUP(m) <= PGROUNDUP(n)
<1> DEFINE x == PGROUNDUP(m)
           y == PGROUNDUP(n)
<1>1. /\ x \in Nat /\ y \in Nat
      /\ y * PGSIZE < m <=> y < x
      /\ y * PGSIZE < n <=> y < y
  BY RoundUp
<1>2. y * PGSIZE \in Nat
  BY <1>1, PagesAssumption
<1> HIDE DEF x, y
<1>3. x <= y
  BY <1>1, <1>2
<1>4. QED
  BY <1>3 DEF x, y

\* User memory is made of whole pages.
LEMMA PagesOf ==
    /\ \A v : v \in Pages <=> v \in Nat /\ v * PGSIZE < KERNBASE
    /\ 0 \in Pages /\ Pages \in SUBSET Nat
<1> DEFINE K == KERNBASE \div PGSIZE
           t == PGSIZE * NPTENTRIES
           d == KERNBASE \div t
<1>1. PGSIZE \in Nat \ {0} /\ NPTENTRIES \in Nat \ {0} /\ KERNBASE \in Nat \ {0}
  BY PagesAssumption
<1>2. t \in Nat \ {0}
  BY <1>1
<1>3. d \in Nat /\ KERNBASE = t * d + (KERNBASE % t)
  BY <1>1, <1>2, DivMod
<1>4. KERNBASE % t = 0
  BY PagesAssumption
<1>5. KERNBASE = PGSIZE * (NPTENTRIES * d)
  BY <1>1, <1>3, <1>4
<1>6. K \in Nat /\ KERNBASE = PGSIZE * K + (KERNBASE % PGSIZE)
      /\ (KERNBASE % PGSIZE) \in 0..(PGSIZE - 1)
  BY <1>1, DivMod
<1>7. KERNBASE = K * PGSIZE
  <2> DEFINE e == NPTENTRIES * d
             r == KERNBASE % PGSIZE
  <2>1. e \in Nat /\ KERNBASE = e * PGSIZE
    BY <1>1, <1>3, <1>5
  <2>2. K \in Nat /\ r \in Nat /\ r < PGSIZE /\ KERNBASE = K * PGSIZE + r
    BY <1>1, <1>6
  <2> HIDE DEF e, r, K
  <2>3. (K + 1) * PGSIZE = K * PGSIZE + PGSIZE
    BY <1>1, <2>2
  <2>4. e < K + 1 <=> e * PGSIZE < (K + 1) * PGSIZE
    BY <2>1, <2>2, PageOrder
  <2>5. e < K <=> e * PGSIZE < K * PGSIZE
    BY <2>1, <2>2, PageOrder
  <2>6. K * PGSIZE \in Nat
    BY <1>1, <2>2
  <2>7. e = K
    BY <1>1, <2>1, <2>2, <2>3, <2>4, <2>5, <2>6
  <2>8. QED
    BY <2>1, <2>7
<1> HIDE DEF K, t, d
<1>8. Pages = 0..(K - 1)
  BY DEF Pages, K
<1>9. \A v \in Nat : v < K <=> v * PGSIZE < KERNBASE
  BY <1>6, <1>7, PageOrder
<1>10. \A v : v \in Pages <=> v \in Nat /\ v * PGSIZE < KERNBASE
  BY <1>6, <1>8, <1>9
<1>11. 0 * PGSIZE = 0
  BY <1>1
<1>12. QED
  BY <1>1, <1>8, <1>10, <1>11

\* The loops of allocuvm() and copyuvm() go on with a page of user memory.
LEMMA LoopPage ==
    ASSUME NEW v \in Nat, NEW n \in 0..KERNBASE
    PROVE  /\ PGROUNDUP(n) \in Nat
           /\ v * PGSIZE < n <=> v < PGROUNDUP(n)
           /\ v < PGROUNDUP(n) => v \in Pages
<1>1. n \in Nat /\ KERNBASE \in Nat /\ v * PGSIZE \in Nat
  BY PagesAssumption
<1>2. QED
  BY <1>1, RoundUp, PagesOf

\* One more page.
LEMMA UptoNext ==
    ASSUME NEW k \in Pages
    PROVE  /\ k \notin Upto(k) /\ Upto(k) \cup {k} = Upto(k + 1)
           /\ Upto(0) = {}
BY PagesOf DEF Upto

-----------------------------------------------------------------------------
(* Counting the pages of address spaces. *)

\* A set of naturals that is not empty has a least element.
LEMMA Least ==
    ASSUME NEW T \in SUBSET Nat, T # {}
    PROVE  Min(T) \in T
<1>1. PICK x \in T : \A y \in T : ~(<<y, x>> \in OpToRel(<, Nat))
  BY WFMin, NatLessThanWellFounded
<1>2. \A y \in T : ~(y < x)
  BY <1>1 DEF OpToRel
<1>3. \E z \in T : \A y \in T : z <= y
  BY <1>2
<1>4. QED
  BY <1>3 DEF Min

\* There are finitely many pages and page tables.
LEMMA Finite ==
    /\ IsFiniteSet(Pages) /\ IsFiniteSet(Tables)
    /\ Ktabs \in SUBSET Nat /\ Ktabs \in SUBSET Tables
    /\ \A v \in Pages : PDX(v) \in Tables
<1> DEFINE K == KERNBASE \div PGSIZE
           D == KERNBASE \div (PGSIZE * NPTENTRIES)
<1>1. K \in Nat /\ D \in Nat /\ KTABLES \in Nat /\ NPTENTRIES \in Nat \ {0}
  <2>1. PGSIZE \in Nat \ {0} /\ PGSIZE * NPTENTRIES \in Nat \ {0} /\ KERNBASE \in Nat
    BY PagesAssumption
  <2>2. QED
    BY <2>1, DivMod, PagesAssumption
<1>2. IsFiniteSet(Pages)
  <2>1. 0 \in Int /\ K - 1 \in Int
    BY <1>1
  <2>2. QED
    BY <2>1, FS_Interval DEF Pages
<1>3. Ktabs = {D + i : i \in 0..(KTABLES - 1)}
  BY DEF Ktabs
<1>4. \A v \in Pages : v \in Nat /\ v < K
  BY <1>1 DEF Pages
<1>5. \A v \in Nat : PDX(v) \in Nat /\ PDX(v) <= v
  <2> SUFFICES ASSUME NEW v \in Nat PROVE PDX(v) \in Nat /\ PDX(v) <= v
    OBVIOUS
  <2> DEFINE q == v \div NPTENTRIES
             r == v % NPTENTRIES
  <2>1. q \in Nat /\ r \in 0..(NPTENTRIES - 1) /\ v = NPTENTRIES * q + r
    BY <1>1, DivMod
  <2> HIDE DEF q, r
  <2>2. NPTENTRIES * q >= q
    <3>1. NPTENTRIES = 1 + (NPTENTRIES - 1) /\ NPTENTRIES - 1 \in Nat
      BY <1>1
    <3>2. NPTENTRIES * q = q + (NPTENTRIES - 1) * q /\ (NPTENTRIES - 1) * q \in Nat
      BY <1>1, <2>1, <3>1
    <3>3. QED
      BY <1>1, <2>1, <3>2
  <2>3. q <= v
    BY <1>1, <2>1, <2>2
  <2>4. QED
    BY <2>1, <2>3 DEF q, PDX
<1> HIDE DEF K, D
<1>6. \A t \in Ktabs : t \in Nat /\ t <= D + KTABLES
  BY <1>1, <1>3
<1>7. Tables \in SUBSET Nat /\ K + D + KTABLES \in Nat
  BY <1>1, <1>4, <1>5, <1>6 DEF Tables
<1>8. \A t \in Tables : t <= K + D + KTABLES
  <2> SUFFICES ASSUME NEW t \in Tables PROVE t <= K + D + KTABLES
    OBVIOUS
  <2>1. CASE t \in Ktabs
    BY <1>1, <1>6, <2>1
  <2>2. CASE \E v \in Pages : t = PDX(v)
    <3>1. PICK v \in Pages : t = PDX(v)
      BY <2>2
    <3>2. v \in Nat /\ v < K /\ t \in Nat /\ t <= v
      BY <1>4, <1>5, <3>1
    <3>3. QED
      BY <1>1, <3>2
  <2>3. QED
    BY <2>1, <2>2 DEF Tables
<1>9. IsFiniteSet(Tables)
  BY <1>7, <1>8, FS_BoundedSetOfNaturals
<1>10. QED
  BY <1>2, <1>6, <1>9 DEF Tables

\* The sets of an address space are finite.
LEMMA SpaceFinite ==
    ASSUME NEW m \in Spaces
    PROVE  /\ IsFiniteSet(m.tab) /\ Cardinality(m.tab) \in Nat
           /\ IsFiniteSet(m.pg) /\ Cardinality(m.pg) \in Nat
           /\ FramesOf(m) \in Nat
<1>1. m.tab \in SUBSET Tables /\ m.pg \in SUBSET Pages
  BY DEF Spaces
<1>2. IsFiniteSet(m.tab) /\ IsFiniteSet(m.pg)
  BY <1>1, Finite, FS_Subset
<1>3. Cardinality(m.tab) \in Nat /\ Cardinality(m.pg) \in Nat
  BY <1>2, FS_CardinalityType
<1>4. QED
  BY <1>2, <1>3 DEF FramesOf

\* The parts of an address space are as many as its pages.
LEMMA PartsCount ==
    ASSUME NEW m \in Spaces
    PROVE  IsFiniteSet(Parts(m)) /\ Cardinality(Parts(m)) = FramesOf(m)
<1> DEFINE A == IF m.dir THEN {<<"dir", 0>>} ELSE {}
           B == {"tab"} \X m.tab
           C == {"pg"} \X m.pg
<1>1. IsFiniteSet(A) /\ Cardinality(A) = IF m.dir THEN 1 ELSE 0
  BY FS_EmptySet, FS_Singleton
<1>2. IsFiniteSet({"tab"}) /\ Cardinality({"tab"}) = 1 /\ IsFiniteSet({"pg"}) /\ Cardinality({"pg"}) = 1
  BY FS_Singleton
<1>3. /\ IsFiniteSet(m.tab) /\ Cardinality(m.tab) \in Nat
      /\ IsFiniteSet(m.pg) /\ Cardinality(m.pg) \in Nat
  BY SpaceFinite
<1>4. IsFiniteSet(B) /\ Cardinality(B) = 1 * Cardinality(m.tab)
  BY <1>2, <1>3, FS_Product
<1>5. IsFiniteSet(C) /\ Cardinality(C) = 1 * Cardinality(m.pg)
  BY <1>2, <1>3, FS_Product
<1>6. A \cap B = {} /\ (A \cup B) \cap C = {}
  <2>1. \A x \in A : x[1] = "dir"
    OBVIOUS
  <2>2. \A x \in B : x[1] = "tab"
    OBVIOUS
  <2>3. \A x \in C : x[1] = "pg"
    OBVIOUS
  <2> HIDE DEF A, B, C
  <2>4. QED
    BY <2>1, <2>2, <2>3
<1>7. Parts(m) = (A \cup B) \cup C
  BY DEF Parts
<1> HIDE DEF A, B, C
<1>8. IsFiniteSet(A \cup B) /\ Cardinality(A \cup B) = Cardinality(A) + Cardinality(B) - Cardinality({})
  BY <1>1, <1>4, <1>6, FS_Union
<1>9. /\ IsFiniteSet((A \cup B) \cup C)
      /\ Cardinality((A \cup B) \cup C) = Cardinality(A \cup B) + Cardinality(C) - Cardinality({})
  BY <1>5, <1>6, <1>8, FS_Union
<1>10. Cardinality({}) = 0
  BY FS_EmptySet
<1>11. QED
  BY <1>1, <1>3, <1>4, <1>5, <1>7, <1>8, <1>9, <1>10 DEF FramesOf

\* The pages of all address spaces but p's.
Others(f, p) == UNION {{q} \X Parts(f[q]) : q \in Procs \ {p}}

\* The pages of all address spaces, counted as p's and the others'.
LEMMA OwnedSplit ==
    ASSUME NEW f \in [Procs -> Spaces], NEW p \in Procs
    PROVE  /\ IsFiniteSet(Others(f, p)) /\ Cardinality(Others(f, p)) \in Nat
           /\ Cardinality(Owned(f)) = Cardinality(Others(f, p)) + FramesOf(f[p])
<1> DEFINE S == {{q} \X Parts(f[q]) : q \in Procs \ {p}}
           T == {p} \X Parts(f[p])
<1>1. \A q \in Procs : IsFiniteSet({q} \X Parts(f[q]))
  <2> SUFFICES ASSUME NEW q \in Procs PROVE IsFiniteSet({q} \X Parts(f[q]))
    OBVIOUS
  <2>1. f[q] \in Spaces
    OBVIOUS
  <2>2. IsFiniteSet(Parts(f[q])) /\ IsFiniteSet({q})
    BY <2>1, PartsCount, FS_Singleton
  <2>3. QED
    BY <2>2, FS_Product
<1>2. IsFiniteSet(S)
  <2> DEFINE P == Procs \ {p}
             g == [q \in P |-> {q} \X Parts(f[q])]
  <2>1. IsFiniteSet(P)
    BY SlotsAssumption, FS_RemoveElement
  <2>2. g \in Surjection(P, S)
    BY DEF Surjection
  <2> HIDE DEF P, g, S
  <2>3. QED
    BY <2>1, <2>2, FS_Surjection
<1>3. IsFiniteSet(UNION S)
  <2>1. \A X \in S : IsFiniteSet(X)
    BY <1>1
  <2> HIDE DEF S
  <2>2. QED
    BY <1>2, <2>1, FS_UNION
<1>4. UNION S = Others(f, p)
  BY DEF Others
<1>5. IsFiniteSet(T) /\ Cardinality(T) = FramesOf(f[p]) /\ FramesOf(f[p]) \in Nat
  <2>1. f[p] \in Spaces
    OBVIOUS
  <2>2. IsFiniteSet(Parts(f[p])) /\ Cardinality(Parts(f[p])) = FramesOf(f[p]) /\ FramesOf(f[p]) \in Nat
    BY <2>1, PartsCount, SpaceFinite
  <2>3. IsFiniteSet({p}) /\ Cardinality({p}) = 1
    BY FS_Singleton
  <2>4. IsFiniteSet(T) /\ Cardinality(T) = 1 * Cardinality(Parts(f[p]))
    BY <2>2, <2>3, FS_Product
  <2>5. QED
    BY <2>2, <2>4
<1>6. Owned(f) = Others(f, p) \cup T
  BY DEF Owned, Others
<1>7. Others(f, p) \cap T = {}
  <2>1. \A x \in T : x[1] = p
    OBVIOUS
  <2>2. \A x \in Others(f, p) : x[1] # p
    BY DEF Others
  <2> HIDE DEF T
  <2>3. QED
    BY <2>1, <2>2
<1> HIDE DEF S, T
<1>8. IsFiniteSet(Others(f, p)) /\ Cardinality(Others(f, p)) \in Nat
  BY <1>3, <1>4, FS_CardinalityType
<1>9. Cardinality(Others(f, p) \cup T) = Cardinality(Others(f, p)) + Cardinality(T) - Cardinality({})
  BY <1>5, <1>7, <1>8, FS_Union
<1>10. Cardinality({}) = 0
  BY FS_EmptySet
<1>11. QED
  BY <1>5, <1>6, <1>8, <1>9, <1>10

\* What a change of one address space adds to the pages of all.
LEMMA OwnedChange ==
    ASSUME NEW f \in [Procs -> Spaces], NEW p \in Procs, NEW m \in Spaces
    PROVE  /\ Cardinality(Owned(f)) \in Nat /\ FramesOf(f[p]) \in Nat /\ FramesOf(m) \in Nat
           /\ Cardinality(Owned([f EXCEPT ![p] = m]))
                = Cardinality(Owned(f)) - FramesOf(f[p]) + FramesOf(m)
<1> DEFINE g == [f EXCEPT ![p] = m]
<1>1. g \in [Procs -> Spaces] /\ g[p] = m /\ \A q \in Procs \ {p} : g[q] = f[q]
  OBVIOUS
<1> HIDE DEF g
<1>2. Others(g, p) = Others(f, p)
  BY <1>1 DEF Others
<1>3. /\ Cardinality(Others(f, p)) \in Nat
      /\ Cardinality(Owned(f)) = Cardinality(Others(f, p)) + FramesOf(f[p])
  BY OwnedSplit
<1>4. Cardinality(Owned(g)) = Cardinality(Others(g, p)) + FramesOf(g[p])
  BY <1>1, OwnedSplit
<1>5. FramesOf(f[p]) \in Nat /\ FramesOf(m) \in Nat
  <2>1. f[p] \in Spaces
    OBVIOUS
  <2>2. QED
    BY <2>1, SpaceFinite
<1>6. QED
  BY <1>1, <1>2, <1>3, <1>4, <1>5 DEF g

-----------------------------------------------------------------------------
(* vm.c on one address space. *)

\* No address space has no pages.
LEMMA NoImageSpace == NoImage \in Spaces /\ FramesOf(NoImage) = 0
<1>1. Cardinality({}) = 0
  BY FS_EmptySet
<1>2. QED
  BY <1>1 DEF NoImage, Spaces, FramesOf

\* mappages() uses what kalloc() was asked for.
LEMMA MappedSpace ==
    ASSUME NEW m \in Spaces, NEW v \in Pages, v \notin m.pg, NEW user \in BOOLEAN
    PROVE  /\ Mapped(m, v, user) \in Spaces
           /\ FramesOf(Mapped(m, v, user)) = FramesOf(m) + Cost(m, v)
           /\ Cost(m, v) \in Nat
           /\ Mapped(m, v, user).tab = m.tab \cup {PDX(v)}
           /\ Mapped(m, v, user).pg = m.pg \cup {v}
           /\ Mapped(m, v, user).sup = IF user THEN m.sup ELSE m.sup \cup {v}
<1> DEFINE w == Mapped(m, v, user)
<1>1. m.tab \cup {PDX(v)} \in SUBSET Tables /\ m.pg \cup {v} \in SUBSET Pages
      /\ m.sup \cup {v} \in SUBSET Pages
  BY Finite DEF Spaces
<1>2. /\ w.dir = m.dir /\ w.tab = m.tab \cup {PDX(v)} /\ w.pg = m.pg \cup {v}
      /\ w.sup = IF user THEN m.sup ELSE m.sup \cup {v}
  BY DEF Mapped, Spaces
<1>3. w \in Spaces
  BY <1>1 DEF Mapped, Spaces
<1> HIDE DEF w
<1>4. /\ IsFiniteSet(m.tab) /\ Cardinality(m.tab) \in Nat
      /\ IsFiniteSet(m.pg) /\ Cardinality(m.pg) \in Nat
  BY SpaceFinite
<1>5. Cardinality(w.tab) = IF PDX(v) \in m.tab THEN Cardinality(m.tab) ELSE Cardinality(m.tab) + 1
  BY <1>2, <1>4, FS_AddElement
<1>6. Cardinality(w.pg) = Cardinality(m.pg) + 1
  BY <1>2, <1>4, FS_AddElement
<1>7. FramesOf(w) = FramesOf(m) + Cost(m, v) /\ Cost(m, v) \in Nat
  BY <1>2, <1>4, <1>5, <1>6 DEF FramesOf, Cost
<1>8. QED
  BY <1>2, <1>3, <1>7 DEF w

\* deallocuvm() frees what it takes out.
LEMMA DeallocSpace ==
    ASSUME NEW m \in Spaces, NEW x, NEW y
    PROVE  /\ Dealloc(m, x, y) \in Spaces
           /\ Cardinality(Dropped(m, x, y)) \in Nat
           /\ FramesOf(m) = FramesOf(Dealloc(m, x, y)) + Cardinality(Dropped(m, x, y))
           /\ Dealloc(m, x, y).tab = m.tab
           /\ Dealloc(m, x, y).pg = m.pg \ Dropped(m, x, y)
           /\ Dealloc(m, x, y).sup = m.sup \ Dropped(m, x, y)
<1> DEFINE w == Dealloc(m, x, y)
           D == Dropped(m, x, y)
<1>1. D \in SUBSET m.pg
  BY DEF Dropped
<1> HIDE DEF D
<1>2. w = [m EXCEPT !.pg = @ \ D, !.sup = @ \ D]
  BY DEF Dealloc, D
<1> HIDE DEF w
<1>3. w.dir = m.dir /\ w.tab = m.tab /\ w.pg = m.pg \ D /\ w.sup = m.sup \ D
  BY <1>2 DEF Spaces
<1>4. w \in Spaces
  BY <1>2 DEF Spaces
<1>5. /\ IsFiniteSet(m.tab) /\ Cardinality(m.tab) \in Nat
      /\ IsFiniteSet(m.pg) /\ Cardinality(m.pg) \in Nat
  BY SpaceFinite
<1>6. IsFiniteSet(D) /\ Cardinality(D) \in Nat
  BY <1>1, <1>5, FS_Subset, FS_CardinalityType
<1>7. Cardinality(m.pg \ D) = Cardinality(m.pg) - Cardinality(m.pg \cap D)
  BY <1>5, FS_Difference
<1>8. m.pg \cap D = D
  BY <1>1
<1>9. FramesOf(m) = FramesOf(w) + Cardinality(D)
  BY <1>3, <1>5, <1>6, <1>7, <1>8 DEF FramesOf
<1>10. QED
  BY <1>3, <1>4, <1>6, <1>9 DEF w, D

\* deallocuvm() of an address space whose pages reach up to k, no further than
\* the old size and at least to the new one.
LEMMA DeallocPages ==
    ASSUME NEW m \in Spaces, NEW x \in Nat, NEW y \in Nat, NEW k \in Nat,
           m.pg = Upto(k), \A v \in m.pg : PDX(v) \in m.tab,
           PGROUNDUP(y) <= k, k <= PGROUNDUP(x)
    PROVE  /\ Dealloc(m, x, y).pg = Below(y)
           /\ Dealloc(m, x, y).sup = m.sup \ {v \in Pages : PGROUNDUP(y) <= v /\ v < k}
<1> DEFINE X == PGROUNDUP(x)
           Y == PGROUNDUP(y)
<1>1. X \in Nat /\ Y \in Nat /\ (\A v \in Nat : v * PGSIZE < x <=> v < X)
  BY RoundUp
<1>2. Y <= k /\ k <= X /\ Below(y) = Upto(Y)
  BY DEF Below, Upto
<1>3. Dropped(m, x, y) = {v \in m.pg : PDX(v) \in m.tab /\ v >= Y /\ v * PGSIZE < x}
  BY DEF Dropped
<1> HIDE DEF X, Y
<1>4. Dropped(m, x, y) = {v \in Pages : Y <= v /\ v < k}
  <2>1. \A v \in m.pg : v \in Pages /\ v \in Nat /\ v < k
    BY PagesOf DEF Upto
  <2>2. \A v \in Pages : v \in Nat /\ (v < k => v \in m.pg)
    BY PagesOf DEF Upto
  <2>3. \A v \in m.pg : v * PGSIZE < x
    BY <1>1, <1>2, <2>1
  <2>4. QED
    BY <1>1, <1>3, <2>1, <2>2, <2>3
<1>5. Upto(k) \ {v \in Pages : Y <= v /\ v < k} = Upto(Y)
  BY <1>1, <1>2, PagesOf DEF Upto
<1>6. Dealloc(m, x, y).pg = m.pg \ Dropped(m, x, y) /\ Dealloc(m, x, y).sup = m.sup \ Dropped(m, x, y)
  BY DeallocSpace
<1>7. QED
  BY <1>2, <1>4, <1>5, <1>6 DEF Y

\* freevm() frees everything.
LEMMA FreedAll ==
    ASSUME NEW m \in Spaces, \A v \in m.pg : PDX(v) \in m.tab
    PROVE  Freed(m) = FramesOf(m)
<1>1. 0 \in Nat /\ KERNBASE \in Nat
  BY PagesAssumption
<1>2. PGROUNDUP(0) \in Nat /\ \A v \in Nat : v * PGSIZE < 0 <=> v < PGROUNDUP(0)
  BY <1>1, RoundUp
<1>3. PGROUNDUP(0) = 0
  <2>1. 0 * PGSIZE = 0
    BY PagesAssumption
  <2>2. QED
    BY <1>2, <2>1
<1>4. \A v \in m.pg : v \in Nat /\ v * PGSIZE < KERNBASE /\ v >= PGROUNDUP(0)
  BY <1>3, PagesOf DEF Spaces
<1>5. Dropped(m, KERNBASE, 0) = m.pg
  BY <1>4 DEF Dropped
<1>6. QED
  BY <1>5 DEF Freed, FramesOf

-----------------------------------------------------------------------------
(* What a step leaves alone. *)

\* What the invariant says about q is left alone.
Untouched(q) ==
    /\ image'[q] = image[q] /\ build'[q] = build[q] /\ sz'[q] = sz[q] /\ stk'[q] = stk[q]
    /\ st'[q] = st[q] /\ call'[q] = call[q] /\ bsz'[q] = bsz[q] /\ a'[q] = a[q]
    /\ top'[q] = top[q] /\ seg'[q] = seg[q]

\* A process that a step does not touch keeps its part of the invariant.
LEMMA Frame ==
    ASSUME NEW q \in Procs, ProcInv(q), Untouched(q)
    PROVE  ProcInv(q)'
<1>1. CallInv(q)' /\ SpaceInv(q)' /\ GuardInv(q)'
  BY DEF ProcInv, Untouched, CallInv, SpaceInv, GuardInv
<1>2. ImageInv(q)'
  BY DEF ProcInv, Untouched, ImageInv
<1>3. BuildInv(q)'
  BY DEF ProcInv, Untouched, BuildInv
<1>4. QED
  BY <1>1, <1>2, <1>3 DEF ProcInv

\* Pages move between the free list, the stacks and one or two address spaces.
LEMMA Conserve ==
    ASSUME TypeOK, PagesConserved, NEW p \in Procs, NEW q \in Procs,
           NEW m \in Spaces, NEW n \in Spaces,
           image' = [image EXCEPT ![p] = m], build' = [build EXCEPT ![q] = n],
           nfree' \in Nat, Cardinality(kstack') \in Nat, Cardinality(kstack) \in Nat,
           nfree' + Cardinality(kstack') + FramesOf(m) + FramesOf(n)
             = nfree + Cardinality(kstack) + FramesOf(image[p]) + FramesOf(build[q])
    PROVE  PagesConserved'
<1>1. nfree \in Nat /\ image \in [Procs -> Spaces] /\ build \in [Procs -> Spaces]
  BY DEF TypeOK
<1>2. /\ Cardinality(Owned(image)) \in Nat /\ FramesOf(image[p]) \in Nat /\ FramesOf(m) \in Nat
      /\ Cardinality(Owned(image')) = Cardinality(Owned(image)) - FramesOf(image[p]) + FramesOf(m)
  BY <1>1, OwnedChange
<1>3. /\ Cardinality(Owned(build)) \in Nat /\ FramesOf(build[q]) \in Nat /\ FramesOf(n) \in Nat
      /\ Cardinality(Owned(build')) = Cardinality(Owned(build)) - FramesOf(build[q]) + FramesOf(n)
  BY <1>1, OwnedChange
<1>4. NFRAMES \in Nat /\ NFRAMES = nfree + Cardinality(kstack)
              + Cardinality(Owned(image)) + Cardinality(Owned(build))
  BY SlotsAssumption DEF PagesConserved
<1>5. NFRAMES = nfree' + Cardinality(kstack')
              + Cardinality(Owned(image')) + Cardinality(Owned(build'))
  BY <1>1, <1>2, <1>3, <1>4
<1>6. Owned(image)' = Owned(image') /\ Owned(build)' = Owned(build')
  BY DEF Owned
<1>7. QED
  BY <1>5, <1>6 DEF PagesConserved

\* The same when only the address space being made changes.
LEMMA ConserveBuild ==
    ASSUME TypeOK, PagesConserved, NEW q \in Procs, NEW n \in Spaces,
           image' = image, build' = [build EXCEPT ![q] = n],
           nfree' \in Nat, Cardinality(kstack') \in Nat, Cardinality(kstack) \in Nat,
           nfree' + Cardinality(kstack') + FramesOf(n)
             = nfree + Cardinality(kstack) + FramesOf(build[q])
    PROVE  PagesConserved'
<1>1. image[q] \in Spaces /\ build[q] \in Spaces /\ nfree \in Nat
  BY DEF TypeOK
<1>2. image' = [image EXCEPT ![q] = image[q]]
  BY DEF TypeOK
<1>3. FramesOf(image[q]) \in Nat /\ FramesOf(n) \in Nat /\ FramesOf(build[q]) \in Nat
  BY <1>1, SpaceFinite
<1>4. nfree' + Cardinality(kstack') + FramesOf(image[q]) + FramesOf(n)
       = nfree + Cardinality(kstack) + FramesOf(image[q]) + FramesOf(build[q])
  BY <1>1, <1>3
<1>5. QED
  BY <1>1, <1>2, <1>4, Conserve

\* The same when only a process's own address space changes.
LEMMA ConserveImage ==
    ASSUME TypeOK, PagesConserved, NEW p \in Procs, NEW m \in Spaces,
           image' = [image EXCEPT ![p] = m], build' = build,
           nfree' \in Nat, Cardinality(kstack') \in Nat, Cardinality(kstack) \in Nat,
           nfree' + Cardinality(kstack') + FramesOf(m)
             = nfree + Cardinality(kstack) + FramesOf(image[p])
    PROVE  PagesConserved'
<1>1. image[p] \in Spaces /\ build[p] \in Spaces /\ nfree \in Nat
  BY DEF TypeOK
<1>2. build' = [build EXCEPT ![p] = build[p]]
  BY DEF TypeOK
<1>3. FramesOf(image[p]) \in Nat /\ FramesOf(m) \in Nat /\ FramesOf(build[p]) \in Nat
  BY <1>1, SpaceFinite
<1>4. nfree' + Cardinality(kstack') + FramesOf(m) + FramesOf(build[p])
       = nfree + Cardinality(kstack) + FramesOf(image[p]) + FramesOf(build[p])
  BY <1>1, <1>3
<1>5. QED
  BY <1>1, <1>2, <1>4, Conserve

\* The same when no page moves.
LEMMA ConserveNothing ==
    ASSUME PagesConserved, image' = image, build' = build, nfree' = nfree, kstack' = kstack
    PROVE  PagesConserved'
BY DEF PagesConserved, Owned

\* The kernel stacks are a finite set.
LEMMA StacksFinite ==
    ASSUME NEW S \in SUBSET Procs
    PROVE  IsFiniteSet(S) /\ Cardinality(S) \in Nat
BY SlotsAssumption, FS_Subset, FS_CardinalityType

-----------------------------------------------------------------------------
(* The calls. *)

\* fork() fails or exec() goes to bad.
LEMMA GiveUpStep ==
    ASSUME IInv, NEW p \in Procs, call[p] \in {"fork", "exec", "stack"}, GiveUp(p)
    PROVE  IInv'
<1>1. TypeOK /\ PagesConserved /\ SlotInv /\ ForkInv /\ ~panicked
      /\ \A q \in Procs : ProcInv(q)
  BY DEF IInv
<1> PICK c \in Procs : c = child[p]
  BY <1>1 DEF TypeOK
<1>2. st[p] \in {"setup", "alloc", "copy", "header"} /\ (call[p] = "fork" => st[c] = "embryo" /\ c # p)
  <2>1. st[p] \in {"unused", "embryo", "user", "setup", "alloc", "copy", "header", "zombie"}
    BY <1>1 DEF TypeOK
  <2>2. QED
    BY <1>1, <2>1 DEF ProcInv, CallInv, ForkInv
<1>3. \A q \in Procs : st'[q] = IF q = p THEN "user"
                                ELSE IF call[p] = "fork" /\ q = c THEN "unused" ELSE st[q]
  BY <1>1, <1>2 DEF GiveUp, TypeOK
<1>4. TypeOK'
  <2>1. NoImage \in Spaces /\ FramesOf(build[p]) \in Nat /\ Freed(build[p]) = FramesOf(build[p])
    BY <1>1, NoImageSpace, SpaceFinite, FreedAll DEF TypeOK, ProcInv, SpaceInv
  <2>2. nfree' \in Nat /\ kstack' \subseteq Procs
    BY <1>1, <2>1 DEF TypeOK, GiveUp
  <2>3. build' \in [Procs -> Spaces] /\ image' \in [Procs -> Spaces]
    BY <1>1, <2>1 DEF TypeOK, GiveUp
  <2>4. st' \in [Procs -> {"unused", "embryo", "user", "setup", "alloc", "copy", "header", "zombie"}]
    BY <1>1 DEF TypeOK, GiveUp
  <2>5. KERNBASE \in Nat /\ MaxSegments \in Nat /\ 1 \in Procs
    BY PagesAssumption, SlotsAssumption
  <2>6. QED
    BY <1>1, <2>2, <2>3, <2>4, <2>5 DEF TypeOK, GiveUp, Return
<1>5. PagesConserved'
  <2>1. NoImage \in Spaces /\ FramesOf(NoImage) = 0
    BY NoImageSpace
  <2>2. FramesOf(build[p]) \in Nat /\ Freed(build[p]) = FramesOf(build[p]) /\ nfree \in Nat
    BY <1>1, SpaceFinite, FreedAll DEF TypeOK, ProcInv, SpaceInv
  <2>3. Cardinality(kstack) \in Nat /\ IsFiniteSet(kstack)
    BY <1>1, StacksFinite DEF TypeOK
  <2>4. Cardinality(kstack') \in Nat
    BY <1>4, StacksFinite DEF TypeOK
  <2>5. Cardinality(kstack') = IF call[p] = "fork" THEN Cardinality(kstack) - 1 ELSE Cardinality(kstack)
    <3>1. CASE call[p] = "fork"
      <4>1. c \in kstack /\ kstack' = kstack \ {c}
        BY <1>1, <1>2, <3>1 DEF SlotInv, GiveUp
      <4>2. QED
        BY <2>3, <3>1, <4>1, FS_RemoveElement
    <3>2. CASE call[p] # "fork"
      BY <3>2 DEF GiveUp
    <3>3. QED
      BY <3>1, <3>2
  <2>6. nfree' = nfree + FramesOf(build[p]) + (IF call[p] = "fork" THEN 1 ELSE 0)
    BY <2>2 DEF GiveUp
  <2>7. nfree' \in Nat /\ nfree' + Cardinality(kstack') + FramesOf(NoImage)
          = nfree + Cardinality(kstack) + FramesOf(build[p])
    BY <2>1, <2>2, <2>3, <2>5, <2>6
  <2>8. image' = image /\ build' = [build EXCEPT ![p] = NoImage]
    BY DEF GiveUp
  <2>9. QED
    BY <1>1, <2>1, <2>3, <2>4, <2>7, <2>8, ConserveBuild
<1>6. SlotInv'
  <2>1. kstack' = IF call[p] = "fork" THEN kstack \ {c} ELSE kstack
    BY DEF GiveUp
  <2>2. kstack' = {q \in Procs : st'[q] # "unused"}
    BY <1>1, <1>2, <1>3, <2>1 DEF SlotInv
  <2>3. QED
    BY <2>2 DEF SlotInv
<1>7. ForkInv'
  <2>1. /\ \A q \in Procs : call'[q] = IF q = p THEN "none" ELSE call[q]
        /\ \A q \in Procs \ {p} : child'[q] = child[q]
    BY <1>1 DEF GiveUp, Return, TypeOK
  <2>2. \A q \in Procs : child[q] \in Procs
    BY <1>1 DEF TypeOK
  <2>3. QED
    BY <1>1, <1>2, <1>3, <2>1, <2>2 DEF ForkInv
<1>8. \A q \in Procs : ProcInv(q)'
  <2>1. ASSUME NEW q \in Procs, q # p, call[p] = "fork" => q # c PROVE ProcInv(q)'
    <3>1. Untouched(q)
      BY <1>1, <1>3, <2>1 DEF Untouched, GiveUp, Return, TypeOK
    <3>2. QED
      BY <1>1, <3>1, Frame
  <2>2. ProcInv(p)'
    <3>1. /\ image'[p] = image[p] /\ build'[p] = NoImage /\ sz'[p] = sz[p] /\ stk'[p] = stk[p]
          /\ st'[p] = "user" /\ call'[p] = "none" /\ bsz'[p] = 0 /\ a'[p] = 0
      BY <1>1, <1>3 DEF GiveUp, Return, TypeOK
    <3>2. CallInv(p)' /\ GuardInv(p)' /\ SpaceInv(p)'
      BY <1>1, <3>1 DEF ProcInv, CallInv, GuardInv, SpaceInv, NoImage
    <3>3. ImageInv(p)' /\ BuildInv(p)'
      BY <1>1, <3>1 DEF ProcInv, ImageInv, BuildInv
    <3>4. QED
      BY <3>2, <3>3 DEF ProcInv
  <2>3. ASSUME call[p] = "fork" PROVE ProcInv(c)'
    <3>1. c # p /\ st[c] = "embryo" /\ st'[c] = "unused"
      BY <1>1, <1>2, <1>3, <2>3
    <3>2. /\ image'[c] = image[c] /\ build'[c] = build[c] /\ sz'[c] = sz[c] /\ stk'[c] = stk[c]
          /\ call'[c] = call[c] /\ bsz'[c] = bsz[c] /\ a'[c] = a[c]
      BY <1>1, <3>1 DEF GiveUp, Return, TypeOK
    <3>3. ProcInv(c)
      BY <1>1
    <3>4. CallInv(c)' /\ GuardInv(c)' /\ SpaceInv(c)'
      BY <3>1, <3>2, <3>3 DEF ProcInv, CallInv, GuardInv, SpaceInv
    <3>5. ImageInv(c)' /\ BuildInv(c)'
      BY <3>1, <3>2, <3>3 DEF ProcInv, CallInv, ImageInv, BuildInv
    <3>6. QED
      BY <3>4, <3>5 DEF ProcInv
  <2>4. QED
    BY <1>1, <2>1, <2>2, <2>3
<1>9. ~panicked'
  BY <1>1 DEF GiveUp
<1>10. QED
  BY <1>4, <1>5, <1>6, <1>7, <1>8, <1>9 DEF IInv

\* A step of a process that has a slot, keeps it, and touches no other.
OneProc(p) ==
    /\ kstack' = kstack /\ ~panicked'
    /\ st[p] \notin {"unused", "embryo"} /\ st'[p] # "unused"
    /\ call'[p] = "fork" => call[p] = "fork" /\ child'[p] = child[p]
    /\ \A q \in Procs \ {p} : Untouched(q) /\ child'[q] = child[q]

\* Such a step keeps the invariant if it keeps the process's own part of it.
LEMMA OneProcStep ==
    ASSUME IInv, NEW p \in Procs, OneProc(p), TypeOK', PagesConserved', ProcInv(p)'
    PROVE  IInv'
<1>1. TypeOK /\ SlotInv /\ ForkInv /\ \A q \in Procs : ProcInv(q)
  BY DEF IInv
<1>2. \A q \in Procs : ProcInv(q)'
  BY <1>1, Frame DEF OneProc
<1>3. \A q \in Procs \ {p} : st'[q] = st[q] /\ call'[q] = call[q] /\ child'[q] = child[q]
  BY DEF OneProc, Untouched
<1>4. SlotInv'
  <2>1. kstack' = {q \in Procs : st'[q] # "unused"}
    BY <1>1, <1>3 DEF OneProc, SlotInv
  <2>2. QED
    BY <2>1 DEF SlotInv
<1>5. ForkInv'
  <2>1. \A q \in Procs : child[q] \in Procs
    BY <1>1 DEF TypeOK
  <2>2. QED
    BY <1>1, <1>3, <2>1 DEF OneProc, ForkInv
<1>6. ~panicked'
  BY DEF OneProc
<1>7. QED
  BY <1>2, <1>4, <1>5, <1>6 DEF IInv

\* A process that can run has exactly the pages of its size.
LEMMA CanRunPages ==
    ASSUME IInv, NEW p \in Procs, CanRun(p)
    PROVE  /\ st[p] = "user" /\ call[p] = "none" /\ build[p] = NoImage
           /\ a[p] = 0 /\ bsz[p] = 0
           /\ image[p].pg = Below(sz[p])
           /\ 0 < PGROUNDUP(sz[p]) /\ stk[p] < PGROUNDUP(sz[p])
<1>1. ProcInv(p)
  BY DEF IInv
<1>2. st[p] = "user" /\ 0 \in image[p].pg /\ stk[p] \in image[p].pg
  BY DEF CanRun
<1>3. call[p] = "none" /\ build[p] = NoImage /\ a[p] = 0 /\ bsz[p] = 0
  BY <1>1, <1>2 DEF ProcInv, CallInv, SpaceInv, BuildInv
<1>4. image[p].pg = Below(sz[p])
  BY <1>1, <1>2 DEF ProcInv, ImageInv
<1>5. QED
  BY <1>2, <1>3, <1>4 DEF Below

\* The first steps of exec().
LEMMA ExecStep ==
    ASSUME IInv, NEW p \in Procs, Exec(p)
    PROVE  IInv'
<1>1. TypeOK /\ PagesConserved /\ ~panicked /\ ProcInv(p)
  BY DEF IInv
<1>2. /\ st[p] = "user" /\ call[p] = "none" /\ build[p] = NoImage /\ a[p] = 0 /\ bsz[p] = 0
      /\ image[p].pg = Below(sz[p]) /\ 0 < PGROUNDUP(sz[p]) /\ stk[p] < PGROUNDUP(sz[p])
  BY CanRunPages DEF Exec
<1>3. TypeOK'
  BY <1>1 DEF Exec, Goto, locals, TypeOK
<1>4. PagesConserved'
  BY <1>1, ConserveNothing DEF Exec
<1>5. OneProc(p)
  BY <1>1, <1>2 DEF OneProc, Untouched, Exec, Goto, locals, TypeOK
<1>6. ProcInv(p)'
  <2>1. /\ st'[p] = "setup" /\ call'[p] = "exec" /\ image'[p] = image[p] /\ build'[p] = NoImage
        /\ sz'[p] = sz[p] /\ stk'[p] = stk[p] /\ a'[p] = 0 /\ bsz'[p] = 0
    BY <1>1, <1>2 DEF Exec, Goto, locals, TypeOK
  <2>2. CallInv(p)' /\ SpaceInv(p)' /\ GuardInv(p)'
    BY <1>1, <1>2, <2>1 DEF ProcInv, CallInv, SpaceInv, GuardInv
  <2>3. ImageInv(p)' /\ BuildInv(p)'
    BY <1>2, <2>1 DEF ImageInv, BuildInv, NoImage
  <2>4. QED
    BY <2>2, <2>3 DEF ProcInv
<1>7. QED
  BY <1>3, <1>4, <1>5, <1>6, OneProcStep

\* growproc() begins to grow the process.
LEMMA SbrkGrowStep ==
    ASSUME IInv, NEW p \in Procs, NEW n \in Deltas, SbrkGrow(p, n)
    PROVE  IInv'
<1>1. TypeOK /\ PagesConserved /\ ~panicked /\ ProcInv(p)
  BY DEF IInv
<1>2. /\ st[p] = "user" /\ call[p] = "none" /\ build[p] = NoImage
      /\ image[p].pg = Below(sz[p]) /\ 0 < PGROUNDUP(sz[p]) /\ stk[p] < PGROUNDUP(sz[p])
  BY CanRunPages DEF SbrkGrow
<1>3. /\ sz[p] \in Nat /\ sz[p] + n \in 0..KERNBASE /\ sz[p] + n \in Nat /\ sz[p] <= sz[p] + n
  BY <1>1, PagesAssumption DEF SbrkGrow, TypeOK
<1>4. PGROUNDUP(sz[p]) \in Nat /\ PGROUNDUP(sz[p]) <= PGROUNDUP(sz[p] + n)
  BY <1>3, RoundUp, RoundMono
<1>5. TypeOK'
  BY <1>1, <1>3, <1>4 DEF SbrkGrow, Goto, TypeOK
<1>6. PagesConserved'
  BY <1>1, ConserveNothing DEF SbrkGrow
<1>7. OneProc(p)
  BY <1>1, <1>2 DEF OneProc, Untouched, SbrkGrow, Goto, TypeOK
<1>8. ProcInv(p)'
  <2>1. /\ st'[p] = "alloc" /\ call'[p] = "sbrk" /\ image'[p] = image[p] /\ build'[p] = NoImage
        /\ sz'[p] = sz[p] /\ stk'[p] = stk[p]
        /\ a'[p] = PGROUNDUP(sz[p]) /\ top'[p] = sz[p] + n
    BY <1>1, <1>2 DEF SbrkGrow, Goto, TypeOK
  <2>2. CallInv(p)' /\ SpaceInv(p)' /\ GuardInv(p)'
    BY <1>1, <1>2, <2>1 DEF ProcInv, CallInv, SpaceInv, GuardInv
  <2>3. ImageInv(p)' /\ BuildInv(p)'
    BY <1>2, <1>3, <1>4, <2>1 DEF ImageInv, BuildInv, Below, Upto
  <2>4. QED
    BY <2>2, <2>3 DEF ProcInv
<1>9. QED
  BY <1>5, <1>6, <1>7, <1>8, OneProcStep

\* A size of 0 has no pages.
LEMMA BelowZero == PGROUNDUP(0) = 0 /\ Below(0) = {} /\ Upto(0) = {}
<1>1. PGROUNDUP(0) = 0
  <2>1. 0 \in Nat /\ 0 * PGSIZE = 0
    BY PagesAssumption
  <2>2. PGROUNDUP(0) = 0
    BY <2>1, RoundWhole
  <2>3. QED
    BY <2>2
<1>2. QED
  BY <1>1, PagesOf DEF Below, Upto

\* growproc() with a negative argument.
LEMMA SbrkShrinkStep ==
    ASSUME IInv, NEW p \in Procs, NEW n \in Deltas, SbrkShrink(p, n)
    PROVE  IInv'
<1> DEFINE newsz == (sz[p] + n) % WRAP
<1>1. TypeOK /\ PagesConserved /\ ~panicked /\ ProcInv(p)
  BY DEF IInv
<1>2. /\ st[p] = "user" /\ call[p] = "none" /\ build[p] = NoImage
      /\ image[p].pg = Below(sz[p]) /\ 0 < PGROUNDUP(sz[p]) /\ stk[p] < PGROUNDUP(sz[p])
  BY CanRunPages DEF SbrkShrink
<1>3. PICK y \in Nat : y = newsz
  <2>1. sz[p] + n \in Int /\ WRAP \in Nat \ {0}
    BY <1>1, PagesAssumption DEF TypeOK
  <2>2. QED
    BY <2>1
<1> HIDE DEF newsz
<1>4. y < sz[p] /\ sz[p] \in 0..KERNBASE /\ sz[p] \in Nat /\ KERNBASE \in Nat
  BY <1>1, <1>3, PagesAssumption DEF SbrkShrink, TypeOK, newsz
<1>5. /\ PGROUNDUP(sz[p]) \in Nat /\ PGROUNDUP(y) \in Nat
      /\ PGROUNDUP(y) <= PGROUNDUP(sz[p])
  BY <1>4, RoundUp, RoundMono
<1>6. PICK m \in Spaces : m = Dealloc(image[p], sz[p], y)
  BY <1>1, DeallocSpace DEF TypeOK
<1>7. /\ image[p] \in Spaces /\ image[p].pg = Upto(PGROUNDUP(sz[p])) /\ \A v \in image[p].pg : PDX(v) \in image[p].tab
  BY <1>1, <1>2 DEF TypeOK, ProcInv, SpaceInv, Below, Upto
<1>8. /\ m.pg = Below(y) /\ m.tab = image[p].tab
      /\ m.sup = image[p].sup \ {v \in Pages : PGROUNDUP(y) <= v /\ v < PGROUNDUP(sz[p])}
  <2>1. m.tab = image[p].tab
    BY <1>6, <1>7, DeallocSpace
  <2>2. /\ m.pg = Below(y)
        /\ m.sup = image[p].sup \ {v \in Pages : PGROUNDUP(y) <= v /\ v < PGROUNDUP(sz[p])}
    BY <1>4, <1>5, <1>6, <1>7, DeallocPages
  <2>3. QED
    BY <2>1, <2>2
<1>9. /\ image' = [image EXCEPT ![p] = m]
      /\ nfree' = nfree + Cardinality(Dropped(image[p], sz[p], y))
      /\ sz' = [sz EXCEPT ![p] = IF y = 0 THEN sz[p] ELSE y]
      /\ UNCHANGED <<kstack, stk, st, call, build, locals, panicked>>
  BY <1>3, <1>6 DEF SbrkShrink, newsz
<1>10. /\ Cardinality(Dropped(image[p], sz[p], y)) \in Nat /\ nfree \in Nat
       /\ FramesOf(image[p]) = FramesOf(m) + Cardinality(Dropped(image[p], sz[p], y))
  BY <1>1, <1>6, <1>7, DeallocSpace DEF TypeOK
<1>11. TypeOK'
  BY <1>1, <1>4, <1>9, <1>10 DEF locals, TypeOK
<1>12. PagesConserved'
  <2>1. Cardinality(kstack) \in Nat /\ kstack' = kstack /\ build' = build /\ nfree' \in Nat
    BY <1>1, <1>9, <1>10, StacksFinite DEF TypeOK
  <2>2. FramesOf(m) \in Nat
    BY SpaceFinite
  <2>3. nfree' + Cardinality(kstack') + FramesOf(m) = nfree + Cardinality(kstack) + FramesOf(image[p])
    BY <1>9, <1>10, <2>1, <2>2
  <2>4. QED
    BY <1>1, <1>9, <2>1, <2>3, ConserveImage
<1>13. OneProc(p)
  BY <1>1, <1>2, <1>9 DEF OneProc, Untouched, locals, TypeOK
<1>14. ProcInv(p)'
  <2>1. /\ st'[p] = "user" /\ call'[p] = "none" /\ image'[p] = m /\ build'[p] = NoImage
        /\ sz'[p] = (IF y = 0 THEN sz[p] ELSE y) /\ stk'[p] = stk[p]
        /\ a'[p] = a[p] /\ bsz'[p] = bsz[p]
    BY <1>1, <1>2, <1>9 DEF locals, TypeOK
  <2>2. CallInv(p)' /\ SpaceInv(p)' /\ BuildInv(p)'
    <3>1. m.pg \subseteq image[p].pg
      BY <1>5, <1>7, <1>8, PagesOf DEF Below, Upto
    <3>2. QED
      BY <1>1, <1>2, <1>7, <1>8, <2>1, <3>1 DEF ProcInv, CallInv, SpaceInv, BuildInv, NoImage
  <2>3. GuardInv(p)'
    <3> SUFFICES ASSUME stk[p] # 0, stk[p] \in m.pg
                 PROVE  stk[p] - 1 \in m.sup /\ stk[p] \notin m.sup
      BY <2>1 DEF GuardInv
    <3>1. stk[p] \in Nat /\ stk[p] < PGROUNDUP(y) /\ stk[p] \in image[p].pg
      BY <1>5, <1>7, <1>8, PagesOf DEF Below, Upto
    <3>2. stk[p] - 1 \in image[p].sup /\ stk[p] \notin image[p].sup
      BY <1>1, <3>1 DEF ProcInv, GuardInv
    <3>3. QED
      BY <1>5, <1>8, <3>1, <3>2
  <2>4. ImageInv(p)'
    BY <1>2, <1>8, <2>1, BelowZero DEF ImageInv
  <2>5. QED
    BY <2>2, <2>3, <2>4 DEF ProcInv
<1>15. QED
  BY <1>11, <1>12, <1>13, <1>14, OneProcStep

\* exit().
LEMMA ExitStep ==
    ASSUME IInv, NEW p \in Procs, Exit(p)
    PROVE  IInv'
<1>1. TypeOK /\ PagesConserved /\ ~panicked /\ ProcInv(p)
  BY DEF IInv
<1>2. TypeOK'
  BY <1>1 DEF Exit, Goto, locals, TypeOK
<1>3. PagesConserved'
  BY <1>1, ConserveNothing DEF Exit
<1>4. OneProc(p)
  BY <1>1 DEF OneProc, Untouched, Exit, Goto, locals, TypeOK
<1>5. ProcInv(p)'
  <2>1. /\ st[p] = "user" /\ st'[p] = "zombie" /\ call'[p] = call[p] /\ image'[p] = image[p]
        /\ build'[p] = build[p] /\ sz'[p] = sz[p] /\ stk'[p] = stk[p] /\ a'[p] = a[p]
        /\ bsz'[p] = bsz[p]
    BY <1>1 DEF Exit, Goto, locals, TypeOK
  <2>2. call[p] = "none"
    BY <1>1, <2>1 DEF ProcInv, CallInv
  <2>3. CallInv(p)' /\ SpaceInv(p)' /\ GuardInv(p)'
    BY <1>1, <2>1, <2>2 DEF ProcInv, CallInv, SpaceInv, GuardInv
  <2>4. ImageInv(p)' /\ BuildInv(p)'
    BY <1>1, <2>1, <2>2 DEF ProcInv, ImageInv, BuildInv
  <2>5. QED
    BY <2>3, <2>4 DEF ProcInv
<1>6. QED
  BY <1>2, <1>3, <1>4, <1>5, OneProcStep

-----------------------------------------------------------------------------
(* setupkvm() and allocuvm(). *)

\* One page of setupkvm().
LEMMA SetupPageStep ==
    ASSUME IInv, NEW p \in Procs, SetupPage(p)
    PROVE  IInv'
<1>1. TypeOK /\ PagesConserved /\ ~panicked /\ ProcInv(p)
  BY DEF IInv
<1>2. /\ st[p] = "setup" /\ nfree \in Nat /\ nfree > 0 /\ build[p] \in Spaces
      /\ ~build[p].dir \/ SetupMissing(p) # {}
  BY <1>1 DEF SetupPage, SetupNeedsPage, TypeOK
<1> DEFINE m == SetupNext(p)
<1>3. /\ IsFiniteSet(build[p].tab) /\ Cardinality(build[p].tab) \in Nat
      /\ Cardinality(build[p].pg) \in Nat /\ FramesOf(build[p]) \in Nat
  BY <1>2, SpaceFinite
<1>4. PICK w \in Spaces : w = m /\ FramesOf(w) = FramesOf(build[p]) + 1 /\ w.pg = build[p].pg
                          /\ w.sup = build[p].sup /\ build[p].tab \subseteq w.tab
  <2>1. CASE build[p].dir
    <3>1. SetupMissing(p) \in SUBSET Nat /\ SetupMissing(p) # {}
      BY <1>2, <2>1, Finite DEF SetupMissing
    <3>2. PICK t : t = Min(SetupMissing(p))
      OBVIOUS
    <3>3. t \in Tables /\ t \notin build[p].tab
      BY <3>1, <3>2, Least, Finite DEF SetupMissing
    <3>4. m = [build[p] EXCEPT !.tab = @ \cup {t}]
      BY <2>1, <3>2 DEF SetupNext
    <3> HIDE DEF m
    <3>5. m \in Spaces /\ m.pg = build[p].pg /\ m.sup = build[p].sup /\ m.dir = build[p].dir
          /\ m.tab = build[p].tab \cup {t}
      BY <1>2, <3>3, <3>4 DEF Spaces
    <3>6. Cardinality(m.tab) = Cardinality(build[p].tab) + 1
      BY <1>3, <3>3, <3>5, FS_AddElement
    <3>7. FramesOf(m) = FramesOf(build[p]) + 1
      BY <1>3, <3>5, <3>6 DEF FramesOf
    <3>8. QED
      BY <3>5, <3>7
  <2>2. CASE ~build[p].dir
    <3>1. m = [build[p] EXCEPT !.dir = TRUE]
      BY <2>2 DEF SetupNext
    <3> HIDE DEF m
    <3>2. m \in Spaces /\ m.pg = build[p].pg /\ m.sup = build[p].sup /\ m.dir
          /\ m.tab = build[p].tab
      BY <1>2, <3>1 DEF Spaces
    <3>3. FramesOf(m) = FramesOf(build[p]) + 1
      BY <1>3, <2>2, <3>2 DEF FramesOf
    <3>4. QED
      BY <3>2, <3>3
  <2>3. QED
    BY <2>1, <2>2
<1>5. /\ nfree' = nfree - 1 /\ build' = [build EXCEPT ![p] = w]
      /\ UNCHANGED <<kstack, image, sz, stk, st, call, locals, panicked>>
  <2>1. build' = [build EXCEPT ![p] = m]
    BY DEF SetupPage
  <2> HIDE DEF m
  <2>2. QED
    BY <1>4, <2>1 DEF SetupPage
<1> HIDE DEF m
<1>6. TypeOK'
  BY <1>1, <1>2, <1>5 DEF locals, TypeOK
<1>7. PagesConserved'
  <2>1. Cardinality(kstack) \in Nat /\ kstack' = kstack /\ image' = image /\ nfree' \in Nat
    BY <1>1, <1>2, <1>5, StacksFinite DEF TypeOK
  <2>2. nfree' + Cardinality(kstack') + FramesOf(w) = nfree + Cardinality(kstack) + FramesOf(build[p])
    BY <1>2, <1>3, <1>4, <1>5, <2>1
  <2>3. QED
    BY <1>1, <1>5, <2>1, <2>2, ConserveBuild
<1>8. OneProc(p)
  BY <1>1, <1>2, <1>5 DEF OneProc, Untouched, locals, TypeOK
<1>9. ProcInv(p)'
  <2>1. /\ st'[p] = "setup" /\ call'[p] = call[p] /\ image'[p] = image[p] /\ build'[p] = w
        /\ sz'[p] = sz[p] /\ stk'[p] = stk[p] /\ a'[p] = a[p] /\ bsz'[p] = bsz[p] /\ top'[p] = top[p]
    BY <1>1, <1>2, <1>5 DEF locals, TypeOK
  <2>2. call[p] \in {"fork", "exec"}
    BY <1>1, <1>2 DEF ProcInv, CallInv
  <2>3. CallInv(p)' /\ SpaceInv(p)' /\ GuardInv(p)'
    BY <1>1, <1>2, <1>4, <2>1, <2>2 DEF ProcInv, CallInv, SpaceInv, GuardInv
  <2>4. ImageInv(p)' /\ BuildInv(p)'
    BY <1>1, <1>2, <1>4, <2>1, <2>2 DEF ProcInv, ImageInv, BuildInv
  <2>5. QED
    BY <2>3, <2>4 DEF ProcInv
<1>10. QED
  BY <1>6, <1>7, <1>8, <1>9, OneProcStep

\* The end of setupkvm().
LEMMA SetupDoneStep ==
    ASSUME IInv, NEW p \in Procs, SetupDone(p)
    PROVE  IInv'
<1>1. TypeOK /\ PagesConserved /\ ~panicked /\ ProcInv(p)
  BY DEF IInv
<1>2. st[p] = "setup"
  BY DEF SetupDone
<1>3. TypeOK'
  BY <1>1 DEF SetupDone, Goto, locals, TypeOK
<1>4. PagesConserved'
  BY <1>1, ConserveNothing DEF SetupDone
<1>5. OneProc(p)
  BY <1>1, <1>2 DEF OneProc, Untouched, SetupDone, Goto, locals, TypeOK
<1>6. ProcInv(p)'
  <2>1. /\ st'[p] = (IF call[p] = "fork" THEN "copy" ELSE "header")
        /\ call'[p] = call[p] /\ image'[p] = image[p] /\ build'[p] = build[p]
        /\ sz'[p] = sz[p] /\ stk'[p] = stk[p] /\ a'[p] = a[p] /\ bsz'[p] = bsz[p] /\ top'[p] = top[p]
    BY <1>1 DEF SetupDone, Goto, locals, TypeOK
  <2>2. /\ call[p] \in {"fork", "exec"} /\ a[p] = 0 /\ bsz[p] = 0
        /\ build[p].pg = {} /\ build[p].sup = {}
    BY <1>1, <1>2 DEF ProcInv, CallInv, BuildInv
  <2>3. CallInv(p)' /\ SpaceInv(p)' /\ GuardInv(p)'
    BY <1>1, <2>1, <2>2 DEF ProcInv, CallInv, SpaceInv, GuardInv
  <2>4. ImageInv(p)'
    BY <1>1, <2>1, <2>2 DEF ProcInv, ImageInv
  <2>5. BuildInv(p)'
    <3>1. 0 <= PGROUNDUP(sz[p])
      BY <1>1, RoundUp DEF TypeOK
    <3>2. QED
      BY <2>1, <2>2, <3>1, BelowZero DEF BuildInv
  <2>6. QED
    BY <2>3, <2>4, <2>5 DEF ProcInv
<1>7. QED
  BY <1>3, <1>4, <1>5, <1>6, OneProcStep

\* One page of allocuvm() for sbrk().
LEMMA AllocPageSbrk ==
    ASSUME IInv, NEW p \in Procs, AllocPage(p), call[p] = "sbrk"
    PROVE  IInv'
<1>1. TypeOK /\ PagesConserved /\ ~panicked /\ ProcInv(p)
  BY DEF IInv
<1>2. /\ st[p] = "alloc" /\ a[p] * PGSIZE < top[p] /\ nfree \in Nat /\ image[p] \in Spaces
      /\ a[p] \in Nat /\ top[p] \in 0..KERNBASE /\ sz[p] \in Nat /\ stk[p] \in Pages
  BY <1>1, PagesAssumption DEF AllocPage, AllocNeedsPage, TypeOK
<1>3. /\ build[p] = NoImage /\ image[p].pg = Upto(a[p]) /\ sz[p] <= top[p]
      /\ PGROUNDUP(sz[p]) <= a[p] /\ 0 < PGROUNDUP(sz[p]) /\ stk[p] < PGROUNDUP(sz[p])
  BY <1>1 DEF ProcInv, SpaceInv, ImageInv
<1>4. a[p] < PGROUNDUP(top[p]) /\ a[p] \in Pages /\ PGROUNDUP(top[p]) \in Nat
  BY <1>2, LoopPage
<1>5. a[p] \notin image[p].pg /\ Upto(a[p]) \cup {a[p]} = Upto(a[p] + 1)
  BY <1>3, <1>4, UptoNext
<1>6. PICK w \in Spaces, k \in Nat :
        /\ w = Mapped(image[p], a[p], TRUE) /\ FramesOf(w) = FramesOf(image[p]) + k
        /\ k = Cost(image[p], a[p])
        /\ w.tab = image[p].tab \cup {PDX(a[p])} /\ w.pg = image[p].pg \cup {a[p]}
        /\ w.sup = image[p].sup
  <2>1. TRUE \in BOOLEAN
    OBVIOUS
  <2>2. /\ Mapped(image[p], a[p], TRUE) \in Spaces
        /\ FramesOf(Mapped(image[p], a[p], TRUE)) = FramesOf(image[p]) + Cost(image[p], a[p])
        /\ Cost(image[p], a[p]) \in Nat
        /\ Mapped(image[p], a[p], TRUE).tab = image[p].tab \cup {PDX(a[p])}
        /\ Mapped(image[p], a[p], TRUE).pg = image[p].pg \cup {a[p]}
        /\ Mapped(image[p], a[p], TRUE).sup = IF TRUE THEN image[p].sup ELSE image[p].sup \cup {a[p]}
    BY <1>2, <1>4, <1>5, <2>1, MappedSpace
  <2>3. QED
    BY <2>2
<1>7. /\ nfree' = nfree - k /\ nfree >= k /\ ~panicked' /\ panicked' \in BOOLEAN
      /\ image' = [image EXCEPT ![p] = w] /\ a' = [a EXCEPT ![p] = @ + 1]
      /\ UNCHANGED <<kstack, sz, stk, st, call, build, bsz, top, seg, nseg, child>>
  <2>1. Grown(p) = image[p]
    BY DEF Grown
  <2>2. panicked' = (a[p] \in Grown(p).pg)
    BY DEF AllocPage
  <2>3. panicked' \in BOOLEAN /\ ~panicked'
    <3>1. panicked' \in BOOLEAN
      BY <2>2
    <3>2. ~panicked'
      BY <1>5, <2>1, <2>2
    <3>3. QED
      BY <3>1, <3>2
  <2>4. image' = [image EXCEPT ![p] = w] /\ build' = build
    BY <1>6, <2>1 DEF AllocPage, SetGrown
  <2>5. QED
    BY <1>6, <2>1, <2>3, <2>4 DEF AllocPage
<1>8. TypeOK'
  <2>1. nfree' \in Nat
    BY <1>2, <1>6, <1>7
  <2>2. QED
    BY <1>1, <1>7, <2>1 DEF TypeOK
<1>9. PagesConserved'
  <2>1. Cardinality(kstack) \in Nat /\ kstack' = kstack /\ build' = build /\ nfree' \in Nat
    BY <1>1, <1>7, <1>8, StacksFinite DEF TypeOK
  <2>2. FramesOf(image[p]) \in Nat
    BY <1>2, SpaceFinite
  <2>3. nfree' = nfree - k /\ FramesOf(w) = FramesOf(image[p]) + k /\ nfree \in Nat
    BY <1>2, <1>6, <1>7
  <2>4. nfree' + Cardinality(kstack') + FramesOf(w) = nfree + Cardinality(kstack) + FramesOf(image[p])
    BY <2>1, <2>2, <2>3
  <2>5. QED
    BY <1>1, <1>7, <2>1, <2>4, ConserveImage
<1>10. OneProc(p)
  BY <1>1, <1>2, <1>7 DEF OneProc, Untouched, TypeOK
<1>11. ProcInv(p)'
  <2>1. /\ st'[p] = "alloc" /\ call'[p] = "sbrk" /\ image'[p] = w /\ build'[p] = NoImage
        /\ sz'[p] = sz[p] /\ stk'[p] = stk[p] /\ a'[p] = a[p] + 1 /\ top'[p] = top[p]
    BY <1>1, <1>2, <1>3, <1>7 DEF TypeOK
  <2>2. CallInv(p)'
    BY <2>1 DEF CallInv
  <2>3. SpaceInv(p)'
    BY <1>1, <1>6, <2>1 DEF ProcInv, SpaceInv, NoImage
  <2>4. GuardInv(p)'
    <3>1. stk[p] \in image[p].pg
      BY <1>2, <1>3, <1>4, PagesOf, RoundUp DEF Upto
    <3>2. QED
      BY <1>1, <1>6, <2>1, <3>1 DEF ProcInv, GuardInv
  <2>5. ImageInv(p)'
    <3>1. PGROUNDUP(sz[p]) \in Nat
      BY <1>2, RoundUp
    <3>2. PGROUNDUP(sz[p]) <= a[p] + 1 /\ a[p] + 1 <= PGROUNDUP(top[p])
      BY <1>2, <1>3, <1>4, <3>1
    <3>3. QED
      BY <1>3, <1>5, <1>6, <2>1, <3>2 DEF ImageInv
  <2>6. BuildInv(p)'
    BY <2>1 DEF BuildInv
  <2>7. QED
    BY <2>2, <2>3, <2>4, <2>5, <2>6 DEF ProcInv
<1>12. QED
  BY <1>8, <1>9, <1>10, <1>11, OneProcStep

\* One page of allocuvm() for exec().
LEMMA AllocPageExec ==
    ASSUME IInv, NEW p \in Procs, AllocPage(p), call[p] # "sbrk"
    PROVE  IInv'
<1>1. TypeOK /\ PagesConserved /\ ~panicked /\ ProcInv(p)
  BY DEF IInv
<1>2. /\ st[p] = "alloc" /\ a[p] * PGSIZE < top[p] /\ nfree \in Nat /\ build[p] \in Spaces
      /\ a[p] \in Nat /\ top[p] \in 0..KERNBASE /\ bsz[p] \in Nat
  BY <1>1, PagesAssumption DEF AllocPage, AllocNeedsPage, TypeOK
<1>3. /\ call[p] \in {"exec", "stack"} /\ build[p].pg = Upto(a[p]) /\ build[p].sup = {}
      /\ bsz[p] <= top[p] /\ PGROUNDUP(bsz[p]) <= a[p]
  BY <1>1, <1>2 DEF ProcInv, CallInv, BuildInv
<1>4. a[p] < PGROUNDUP(top[p]) /\ a[p] \in Pages /\ PGROUNDUP(top[p]) \in Nat
  BY <1>2, LoopPage
<1>5. a[p] \notin build[p].pg /\ Upto(a[p]) \cup {a[p]} = Upto(a[p] + 1)
  BY <1>3, <1>4, UptoNext
<1>6. PICK w \in Spaces, k \in Nat :
        /\ w = Mapped(build[p], a[p], TRUE) /\ FramesOf(w) = FramesOf(build[p]) + k
        /\ k = Cost(build[p], a[p])
        /\ w.tab = build[p].tab \cup {PDX(a[p])} /\ w.pg = build[p].pg \cup {a[p]}
        /\ w.sup = build[p].sup
  <2>1. TRUE \in BOOLEAN
    OBVIOUS
  <2>2. /\ Mapped(build[p], a[p], TRUE) \in Spaces
        /\ FramesOf(Mapped(build[p], a[p], TRUE)) = FramesOf(build[p]) + Cost(build[p], a[p])
        /\ Cost(build[p], a[p]) \in Nat
        /\ Mapped(build[p], a[p], TRUE).tab = build[p].tab \cup {PDX(a[p])}
        /\ Mapped(build[p], a[p], TRUE).pg = build[p].pg \cup {a[p]}
        /\ Mapped(build[p], a[p], TRUE).sup = IF TRUE THEN build[p].sup ELSE build[p].sup \cup {a[p]}
    BY <1>2, <1>4, <1>5, <2>1, MappedSpace
  <2>3. QED
    BY <2>2
<1>7. /\ nfree' = nfree - k /\ nfree >= k /\ ~panicked' /\ panicked' \in BOOLEAN
      /\ build' = [build EXCEPT ![p] = w] /\ a' = [a EXCEPT ![p] = @ + 1]
      /\ UNCHANGED <<kstack, sz, stk, st, call, image, bsz, top, seg, nseg, child>>
  <2>1. Grown(p) = build[p]
    BY DEF Grown
  <2>2. panicked' = (a[p] \in Grown(p).pg)
    BY DEF AllocPage
  <2>3. panicked' \in BOOLEAN /\ ~panicked'
    <3>1. panicked' \in BOOLEAN
      BY <2>2
    <3>2. ~panicked'
      BY <1>5, <2>1, <2>2
    <3>3. QED
      BY <3>1, <3>2
  <2>4. build' = [build EXCEPT ![p] = w] /\ image' = image
    BY <1>6, <2>1 DEF AllocPage, SetGrown
  <2>5. QED
    BY <1>6, <2>1, <2>3, <2>4 DEF AllocPage
<1>8. TypeOK'
  <2>1. nfree' \in Nat
    BY <1>2, <1>6, <1>7
  <2>2. QED
    BY <1>1, <1>7, <2>1 DEF TypeOK
<1>9. PagesConserved'
  <2>1. Cardinality(kstack) \in Nat /\ kstack' = kstack /\ image' = image /\ nfree' \in Nat
    BY <1>1, <1>7, <1>8, StacksFinite DEF TypeOK
  <2>2. FramesOf(build[p]) \in Nat
    BY <1>2, SpaceFinite
  <2>3. nfree' = nfree - k /\ FramesOf(w) = FramesOf(build[p]) + k /\ nfree \in Nat
    BY <1>2, <1>6, <1>7
  <2>4. nfree' + Cardinality(kstack') + FramesOf(w) = nfree + Cardinality(kstack) + FramesOf(build[p])
    BY <2>1, <2>2, <2>3
  <2>5. QED
    BY <1>1, <1>7, <2>1, <2>4, ConserveBuild
<1>10. OneProc(p)
  BY <1>1, <1>2, <1>7 DEF OneProc, Untouched, TypeOK
<1>11. ProcInv(p)'
  <2>1. /\ st'[p] = "alloc" /\ call'[p] = call[p] /\ image'[p] = image[p] /\ build'[p] = w
        /\ sz'[p] = sz[p] /\ stk'[p] = stk[p] /\ a'[p] = a[p] + 1 /\ top'[p] = top[p]
        /\ bsz'[p] = bsz[p] /\ seg'[p] = seg[p]
    BY <1>1, <1>2, <1>7 DEF TypeOK
  <2>2. CallInv(p)' /\ GuardInv(p)'
    BY <1>1, <1>3, <2>1 DEF ProcInv, CallInv, GuardInv
  <2>3. SpaceInv(p)'
    BY <1>1, <1>3, <1>6, <2>1 DEF ProcInv, SpaceInv
  <2>4. ImageInv(p)'
    BY <1>1, <1>3, <2>1 DEF ProcInv, ImageInv
  <2>5. BuildInv(p)'
    <3>1. PGROUNDUP(bsz[p]) \in Nat
      BY <1>2, RoundUp
    <3>2. PGROUNDUP(bsz[p]) <= a[p] + 1 /\ a[p] + 1 <= PGROUNDUP(top[p])
      BY <1>2, <1>3, <1>4, <3>1
    <3>3. w.pg = Upto(a[p] + 1) /\ w.sup = {}
      BY <1>3, <1>5, <1>6
    <3>4. QED
      BY <1>1, <1>2, <1>3, <2>1, <3>2, <3>3 DEF ProcInv, BuildInv
  <2>6. QED
    BY <2>2, <2>3, <2>4, <2>5 DEF ProcInv
<1>12. QED
  BY <1>8, <1>9, <1>10, <1>11, OneProcStep

\* The end of the loops of allocuvm() and copyuvm().
LEMMA LoopDone ==
    ASSUME NEW v \in Nat, NEW n \in 0..KERNBASE, v <= PGROUNDUP(n), ~(v * PGSIZE < n)
    PROVE  v = PGROUNDUP(n) /\ Upto(v) = Below(n)
<1>1. PGROUNDUP(n) \in Nat /\ (v * PGSIZE < n <=> v < PGROUNDUP(n))
  BY LoopPage
<1>2. v = PGROUNDUP(n)
  BY <1>1
<1>3. QED
  BY <1>2 DEF Upto, Below

\* allocuvm() fails for sbrk() and takes back what it has mapped.
LEMMA AllocFailsSbrkStep ==
    ASSUME IInv, NEW p \in Procs, AllocFailsSbrk(p)
    PROVE  IInv'
<1>1. TypeOK /\ PagesConserved /\ ~panicked /\ ProcInv(p) /\ call[p] = "sbrk" /\ st[p] = "alloc"
  BY DEF IInv, AllocFailsSbrk, AllocNeedsPage
<1>2. /\ nfree \in Nat /\ image[p] \in Spaces /\ a[p] \in Nat /\ top[p] \in Nat /\ sz[p] \in Nat
      /\ stk[p] \in Pages
  BY <1>1, PagesAssumption DEF TypeOK
<1>3. /\ build[p] = NoImage /\ image[p].pg = Upto(a[p]) /\ sz[p] <= top[p]
      /\ PGROUNDUP(sz[p]) <= a[p] /\ a[p] <= PGROUNDUP(top[p]) /\ stk[p] < PGROUNDUP(sz[p])
      /\ \A v \in image[p].pg : PDX(v) \in image[p].tab
  BY <1>1 DEF ProcInv, SpaceInv, ImageInv
<1>4. PICK w \in Spaces : w = Dealloc(image[p], top[p], sz[p])
  BY <1>2, DeallocSpace
<1>5. /\ w.pg = Below(sz[p])
      /\ w.sup = image[p].sup \ {v \in Pages : PGROUNDUP(sz[p]) <= v /\ v < a[p]}
  BY <1>2, <1>3, <1>4, DeallocPages
<1>6. PICK k \in Nat : w.tab = image[p].tab /\ FramesOf(image[p]) = FramesOf(w) + k
  BY <1>2, <1>4, DeallocSpace
<1>7. FramesOf(w) \in Nat
  BY SpaceFinite
<1>8. image' = [image EXCEPT ![p] = w]
  BY <1>1, <1>4 DEF AllocFailsSbrk, AllocUndone, Grown, OldSize
<1>9. nfree' = nfree + k
  <2>1. image'[p] = w
    BY <1>1, <1>8 DEF TypeOK
  <2>2. nfree' = nfree + FramesOf(image[p]) - FramesOf(image'[p])
    BY DEF AllocFailsSbrk
  <2>3. nfree' = nfree + (FramesOf(w) + k) - FramesOf(w)
    BY <1>6, <2>1, <2>2
  <2>4. QED
    BY <1>2, <1>7, <2>3
<1>10. /\ \A q \in Procs : st'[q] = IF q = p THEN "user" ELSE st[q]
       /\ Return(p) /\ UNCHANGED <<kstack, sz, stk, build, panicked>>
  BY <1>1 DEF AllocFailsSbrk, Goto, TypeOK
<1>11. TypeOK'
  <2>1. KERNBASE \in Nat /\ MaxSegments \in Nat /\ 1 \in Procs /\ nfree' \in Nat
    BY <1>2, <1>9, PagesAssumption, SlotsAssumption
  <2>2. st' \in [Procs -> {"unused", "embryo", "user", "setup", "alloc", "copy", "header", "zombie"}]
    BY <1>1 DEF TypeOK, AllocFailsSbrk, Goto
  <2>3. image' \in [Procs -> Spaces]
    BY <1>1, <1>8 DEF TypeOK
  <2>4. Return(p) /\ UNCHANGED <<kstack, sz, stk, build, panicked>>
    BY <1>10
  <2>5. QED
    BY <1>1, <2>1, <2>2, <2>3, <2>4 DEF TypeOK, Return
<1>12. PagesConserved'
  <2>1. Cardinality(kstack) \in Nat /\ kstack' = kstack /\ build' = build /\ nfree' \in Nat
    BY <1>1, <1>10, <1>11, StacksFinite DEF TypeOK
  <2>2. nfree' + Cardinality(kstack') + FramesOf(w) = nfree + Cardinality(kstack) + FramesOf(image[p])
    BY <1>2, <1>6, <1>7, <1>9, <2>1
  <2>3. QED
    BY <1>1, <1>8, <2>1, <2>2, ConserveImage
<1>13. OneProc(p)
  BY <1>1, <1>8, <1>10 DEF OneProc, Untouched, Return, TypeOK
<1>14. ProcInv(p)'
  <2>1. /\ st'[p] = "user" /\ call'[p] = "none" /\ image'[p] = w /\ build'[p] = NoImage
        /\ sz'[p] = sz[p] /\ stk'[p] = stk[p] /\ a'[p] = 0 /\ bsz'[p] = 0
    BY <1>1, <1>3, <1>8, <1>10 DEF Return, TypeOK
  <2>2. CallInv(p)' /\ ImageInv(p)' /\ BuildInv(p)'
    BY <1>5, <2>1 DEF CallInv, ImageInv, BuildInv
  <2>3. PGROUNDUP(sz[p]) \in Nat /\ stk[p] \in Nat
    BY <1>2, RoundUp, PagesOf
  <2>4. SpaceInv(p)'
    <3>1. w.pg \subseteq image[p].pg
      BY <1>2, <1>3, <1>5, <2>3, PagesOf DEF Below, Upto
    <3>2. QED
      BY <1>3, <1>6, <2>1, <3>1 DEF SpaceInv, NoImage
  <2>5. GuardInv(p)'
    <3>1. stk[p] \in image[p].pg
      BY <1>2, <1>3, <2>3 DEF Upto
    <3>2. stk[p] # 0 => stk[p] - 1 \in image[p].sup /\ stk[p] \notin image[p].sup
      BY <1>1, <3>1 DEF ProcInv, GuardInv
    <3>3. QED
      BY <1>3, <1>5, <2>1, <2>3, <3>2 DEF GuardInv
  <2>6. QED
    BY <2>2, <2>4, <2>5 DEF ProcInv
<1>15. QED
  BY <1>11, <1>12, <1>13, <1>14, OneProcStep

\* growproc() stores the new size.
LEMMA AllocDoneSbrkStep ==
    ASSUME IInv, NEW p \in Procs, AllocDoneSbrk(p)
    PROVE  IInv'
<1>1. TypeOK /\ PagesConserved /\ ~panicked /\ ProcInv(p) /\ call[p] = "sbrk" /\ st[p] = "alloc"
      /\ ~(a[p] * PGSIZE < top[p])
  BY DEF IInv, AllocDoneSbrk, AllocNeedsPage
<1>2. a[p] \in Nat /\ top[p] \in 0..KERNBASE
  BY <1>1 DEF TypeOK
<1>3. build[p] = NoImage /\ image[p].pg = Upto(a[p]) /\ a[p] <= PGROUNDUP(top[p])
  BY <1>1 DEF ProcInv, SpaceInv, ImageInv
<1>4. image[p].pg = Below(top[p])
  BY <1>1, <1>2, <1>3, LoopDone
<1>5. TypeOK'
  <2>1. KERNBASE \in Nat /\ MaxSegments \in Nat /\ 1 \in Procs
    BY PagesAssumption, SlotsAssumption
  <2>2. QED
    BY <1>1, <2>1 DEF AllocDoneSbrk, Goto, Return, TypeOK
<1>6. PagesConserved'
  BY <1>1, ConserveNothing DEF AllocDoneSbrk
<1>7. OneProc(p)
  BY <1>1 DEF OneProc, Untouched, AllocDoneSbrk, Goto, Return, TypeOK
<1>8. ProcInv(p)'
  <2>1. /\ st'[p] = "user" /\ call'[p] = "none" /\ image'[p] = image[p] /\ build'[p] = NoImage
        /\ sz'[p] = top[p] /\ stk'[p] = stk[p] /\ a'[p] = 0 /\ bsz'[p] = 0
    BY <1>1, <1>3 DEF AllocDoneSbrk, Goto, Return, TypeOK
  <2>2. CallInv(p)' /\ SpaceInv(p)' /\ GuardInv(p)'
    BY <1>1, <2>1 DEF ProcInv, CallInv, SpaceInv, GuardInv, NoImage
  <2>3. ImageInv(p)' /\ BuildInv(p)'
    BY <1>4, <2>1 DEF ImageInv, BuildInv
  <2>4. QED
    BY <2>2, <2>3 DEF ProcInv
<1>9. QED
  BY <1>5, <1>6, <1>7, <1>8, OneProcStep

-----------------------------------------------------------------------------
(* fork() and wait(). *)

\* fork() up to the end of allocproc().
LEMMA ForkStep ==
    ASSUME IInv, NEW p \in Procs, NEW c \in Procs, Fork(p, c)
    PROVE  IInv'
<1>1. TypeOK /\ PagesConserved /\ SlotInv /\ ForkInv /\ ~panicked /\ \A q \in Procs : ProcInv(q)
  BY DEF IInv
<1>2. /\ st[p] = "user" /\ call[p] = "none" /\ build[p] = NoImage /\ a[p] = 0 /\ bsz[p] = 0
      /\ image[p].pg = Below(sz[p]) /\ 0 < PGROUNDUP(sz[p]) /\ stk[p] < PGROUNDUP(sz[p])
  BY CanRunPages DEF Fork
<1>3. st[c] = "unused" /\ c # p /\ nfree \in Nat /\ nfree > 0
  BY <1>1, <1>2 DEF Fork, TypeOK
<1>4. \A q \in Procs : /\ st'[q] = IF q = p THEN "setup" ELSE IF q = c THEN "embryo" ELSE st[q]
                       /\ call'[q] = IF q = p THEN "fork" ELSE call[q]
                       /\ child'[q] = IF q = p THEN c ELSE child[q]
  BY <1>1, <1>3 DEF Fork, TypeOK
<1>5. TypeOK'
  BY <1>1, <1>3 DEF Fork, TypeOK
<1>6. PagesConserved'
  <2>1. IsFiniteSet(kstack) /\ Cardinality(kstack) \in Nat
    BY <1>1, StacksFinite DEF TypeOK
  <2>2. c \notin kstack /\ kstack' = kstack \cup {c}
    BY <1>1, <1>3 DEF SlotInv, Fork
  <2>3. Cardinality(kstack') = Cardinality(kstack) + 1
    BY <2>1, <2>2, FS_AddElement
  <2>4. image' = image /\ build' = [build EXCEPT ![p] = build[p]] /\ nfree' = nfree - 1
    BY <1>1 DEF Fork, TypeOK
  <2>5. build[p] \in Spaces /\ FramesOf(build[p]) \in Nat
    BY <1>1, SpaceFinite DEF TypeOK
  <2>6. nfree' \in Nat /\ Cardinality(kstack') \in Nat
        /\ nfree' + Cardinality(kstack') + FramesOf(build[p])
             = nfree + Cardinality(kstack) + FramesOf(build[p])
    BY <1>3, <2>1, <2>3, <2>4, <2>5
  <2>7. QED
    BY <1>1, <2>1, <2>4, <2>5, <2>6, ConserveBuild
<1>7. SlotInv'
  <2>1. kstack' = kstack \cup {c}
    BY DEF Fork
  <2>2. kstack' = {q \in Procs : st'[q] # "unused"}
    BY <1>1, <1>2, <1>4, <2>1 DEF SlotInv
  <2>3. QED
    BY <2>2 DEF SlotInv
<1>8. ForkInv'
  <2>1. \A q \in Procs : child[q] \in Procs
    BY <1>1 DEF TypeOK
  <2>2. \A q \in Procs : call[q] = "fork" => child[q] # c /\ child[q] # p /\ q # p
    BY <1>1, <1>2, <1>3 DEF ForkInv
  <2>3. QED
    BY <1>1, <1>3, <1>4, <2>1, <2>2 DEF ForkInv
<1>9. \A q \in Procs : ProcInv(q)'
  <2>1. ASSUME NEW q \in Procs, q # p, q # c PROVE ProcInv(q)'
    <3>1. Untouched(q)
      BY <1>4, <2>1 DEF Untouched, Fork
    <3>2. QED
      BY <1>1, <3>1, Frame
  <2>2. ProcInv(p)'
    <3>1. /\ st'[p] = "setup" /\ call'[p] = "fork" /\ image'[p] = image[p] /\ build'[p] = NoImage
          /\ sz'[p] = sz[p] /\ stk'[p] = stk[p] /\ a'[p] = 0 /\ bsz'[p] = 0
      BY <1>2, <1>4 DEF Fork
    <3>2. CallInv(p)' /\ SpaceInv(p)' /\ GuardInv(p)'
      BY <1>1, <1>2, <3>1 DEF ProcInv, CallInv, SpaceInv, GuardInv
    <3>3. ImageInv(p)' /\ BuildInv(p)'
      BY <1>2, <3>1 DEF ImageInv, BuildInv, NoImage
    <3>4. QED
      BY <3>2, <3>3 DEF ProcInv
  <2>3. ProcInv(c)'
    <3>1. /\ st'[c] = "embryo" /\ call'[c] = call[c] /\ image'[c] = image[c] /\ build'[c] = build[c]
          /\ sz'[c] = sz[c] /\ stk'[c] = stk[c] /\ a'[c] = a[c] /\ bsz'[c] = bsz[c]
      BY <1>3, <1>4 DEF Fork
    <3>2. ProcInv(c) /\ call[c] = "none"
      BY <1>1, <1>3 DEF ProcInv, CallInv
    <3>3. CallInv(c)' /\ SpaceInv(c)' /\ GuardInv(c)'
      BY <1>3, <3>1, <3>2 DEF ProcInv, CallInv, SpaceInv, GuardInv
    <3>4. ImageInv(c)' /\ BuildInv(c)'
      BY <1>3, <3>1, <3>2 DEF ProcInv, ImageInv, BuildInv
    <3>5. QED
      BY <3>3, <3>4 DEF ProcInv
  <2>4. QED
    BY <2>1, <2>2, <2>3
<1>10. ~panicked'
  BY <1>1 DEF Fork
<1>11. QED
  BY <1>5, <1>6, <1>7, <1>8, <1>9, <1>10 DEF IInv

\* wait() frees a zombie.
LEMMA ReapStep ==
    ASSUME IInv, NEW c \in Procs, Reap(c)
    PROVE  IInv'
<1>1. TypeOK /\ PagesConserved /\ SlotInv /\ ForkInv /\ ~panicked /\ \A q \in Procs : ProcInv(q)
  BY DEF IInv
<1>2. st[c] = "zombie" /\ nfree \in Nat /\ image[c] \in Spaces /\ FramesOf(image[c]) \in Nat
  BY <1>1, SpaceFinite DEF Reap, TypeOK
<1>3. Freed(image[c]) = FramesOf(image[c])
  BY <1>1, <1>2, FreedAll DEF ProcInv, SpaceInv
<1>4. \A q \in Procs : st'[q] = IF q = c THEN "unused" ELSE st[q]
  BY <1>1 DEF Reap, Goto, TypeOK
<1>5. NoImage \in Spaces /\ FramesOf(NoImage) = 0
  BY NoImageSpace
<1>6. nfree' = nfree + 1 + FramesOf(image[c]) /\ nfree' \in Nat
  BY <1>2, <1>3 DEF Reap
<1>7. TypeOK'
  BY <1>1, <1>5, <1>6, PagesOf, PagesAssumption DEF Reap, Goto, locals, TypeOK
<1>8. PagesConserved'
  <2>1. IsFiniteSet(kstack) /\ Cardinality(kstack) \in Nat
    BY <1>1, StacksFinite DEF TypeOK
  <2>2. c \in kstack /\ kstack' = kstack \ {c}
    BY <1>1, <1>2 DEF SlotInv, Reap
  <2>3. Cardinality(kstack') = Cardinality(kstack) - 1
    BY <2>1, <2>2, FS_RemoveElement
  <2>4. Cardinality(kstack') \in Nat
    BY <1>7, StacksFinite DEF TypeOK
  <2>5. image' = [image EXCEPT ![c] = NoImage] /\ build' = build
    BY DEF Reap
  <2>6. nfree' + Cardinality(kstack') + FramesOf(NoImage)
          = nfree + Cardinality(kstack) + FramesOf(image[c])
    BY <1>2, <1>5, <1>6, <2>1, <2>3
  <2>7. QED
    BY <1>1, <1>5, <1>6, <2>1, <2>4, <2>5, <2>6, ConserveImage
<1>9. SlotInv'
  <2>1. kstack' = kstack \ {c}
    BY DEF Reap
  <2>2. kstack' = {q \in Procs : st'[q] # "unused"}
    BY <1>1, <1>4, <2>1 DEF SlotInv
  <2>3. QED
    BY <2>2 DEF SlotInv
<1>10. ForkInv'
  <2>1. call' = call /\ child' = child /\ \A q \in Procs : child[q] \in Procs
    BY <1>1 DEF Reap, locals, TypeOK
  <2>2. QED
    BY <1>1, <1>2, <1>4, <2>1 DEF ForkInv
<1>11. \A q \in Procs : ProcInv(q)'
  <2>1. ASSUME NEW q \in Procs, q # c PROVE ProcInv(q)'
    <3>1. Untouched(q)
      BY <1>1, <1>4, <2>1 DEF Untouched, Reap, locals, TypeOK
    <3>2. QED
      BY <1>1, <3>1, Frame
  <2>2. ProcInv(c)'
    <3>1. /\ st'[c] = "unused" /\ call'[c] = call[c] /\ image'[c] = NoImage /\ build'[c] = build[c]
          /\ stk'[c] = 0 /\ a'[c] = a[c] /\ bsz'[c] = bsz[c]
      BY <1>1, <1>4 DEF Reap, locals, TypeOK
    <3>2. ProcInv(c) /\ call[c] = "none"
      BY <1>1, <1>2 DEF ProcInv, CallInv
    <3>3. CallInv(c)' /\ SpaceInv(c)' /\ GuardInv(c)'
      BY <3>1, <3>2 DEF ProcInv, CallInv, SpaceInv, GuardInv, NoImage
    <3>4. ImageInv(c)' /\ BuildInv(c)'
      BY <1>2, <3>1, <3>2 DEF ProcInv, ImageInv, BuildInv
    <3>5. QED
      BY <3>3, <3>4 DEF ProcInv
  <2>3. QED
    BY <2>1, <2>2
<1>12. ~panicked'
  BY <1>1 DEF Reap
<1>13. QED
  BY <1>7, <1>8, <1>9, <1>10, <1>11, <1>12 DEF IInv

\* One page of copyuvm().
LEMMA CopyPageStep ==
    ASSUME IInv, NEW p \in Procs, CopyPage(p)
    PROVE  IInv'
<1>1. TypeOK /\ PagesConserved /\ ~panicked /\ ProcInv(p)
  BY DEF IInv
<1>2. /\ st[p] = "copy" /\ a[p] * PGSIZE < sz[p] /\ nfree \in Nat /\ build[p] \in Spaces
      /\ a[p] \in Nat /\ sz[p] \in 0..KERNBASE
  BY <1>1 DEF CopyPage, CopyNeedsPage, TypeOK
<1>3. /\ call[p] = "fork" /\ image[p].pg = Below(sz[p]) /\ build[p].pg = Upto(a[p])
      /\ build[p].sup = image[p].sup \cap Upto(a[p])
  BY <1>1, <1>2 DEF ProcInv, CallInv, ImageInv, BuildInv
<1>4. a[p] < PGROUNDUP(sz[p]) /\ a[p] \in Pages /\ PGROUNDUP(sz[p]) \in Nat
  BY <1>2, LoopPage
<1>5. /\ a[p] \notin build[p].pg /\ Upto(a[p]) \cup {a[p]} = Upto(a[p] + 1)
      /\ a[p] \in image[p].pg
  BY <1>3, <1>4, UptoNext DEF Below
<1>6. PICK w \in Spaces, k \in Nat :
        /\ w = Mapped(build[p], a[p], CopiedFlag(p, a[p])) /\ FramesOf(w) = FramesOf(build[p]) + k
        /\ k = Cost(build[p], a[p])
        /\ w.tab = build[p].tab \cup {PDX(a[p])} /\ w.pg = build[p].pg \cup {a[p]}
        /\ w.sup = IF CopiedFlag(p, a[p]) THEN build[p].sup ELSE build[p].sup \cup {a[p]}
  <2>1. TRUE \in BOOLEAN /\ FALSE \in BOOLEAN
    OBVIOUS
  <2>2. /\ Mapped(build[p], a[p], TRUE) \in Spaces
        /\ FramesOf(Mapped(build[p], a[p], TRUE)) = FramesOf(build[p]) + Cost(build[p], a[p])
        /\ Cost(build[p], a[p]) \in Nat
        /\ Mapped(build[p], a[p], TRUE).tab = build[p].tab \cup {PDX(a[p])}
        /\ Mapped(build[p], a[p], TRUE).pg = build[p].pg \cup {a[p]}
        /\ Mapped(build[p], a[p], TRUE).sup = IF TRUE THEN build[p].sup ELSE build[p].sup \cup {a[p]}
    BY <1>2, <1>4, <1>5, <2>1, MappedSpace
  <2>3. /\ Mapped(build[p], a[p], FALSE) \in Spaces
        /\ FramesOf(Mapped(build[p], a[p], FALSE)) = FramesOf(build[p]) + Cost(build[p], a[p])
        /\ Cost(build[p], a[p]) \in Nat
        /\ Mapped(build[p], a[p], FALSE).tab = build[p].tab \cup {PDX(a[p])}
        /\ Mapped(build[p], a[p], FALSE).pg = build[p].pg \cup {a[p]}
        /\ Mapped(build[p], a[p], FALSE).sup = IF FALSE THEN build[p].sup ELSE build[p].sup \cup {a[p]}
    BY <1>2, <1>4, <1>5, <2>1, MappedSpace
  <2>4. CopiedFlag(p, a[p]) = TRUE \/ CopiedFlag(p, a[p]) = FALSE
    BY DEF CopiedFlag
  <2>5. QED
    BY <2>2, <2>3, <2>4
<1>7. w.sup = image[p].sup \cap Upto(a[p] + 1) /\ w.pg = Upto(a[p] + 1)
  BY <1>3, <1>5, <1>6 DEF CopiedFlag
<1>8. /\ nfree' = nfree - k /\ nfree >= k /\ ~panicked' /\ panicked' \in BOOLEAN
      /\ build' = [build EXCEPT ![p] = w] /\ a' = [a EXCEPT ![p] = @ + 1]
      /\ UNCHANGED <<kstack, sz, stk, st, call, image, bsz, top, seg, nseg, child>>
  <2>1. panicked' = (a[p] \notin image[p].pg)
    BY DEF CopyPage
  <2>2. panicked' \in BOOLEAN
    BY <2>1
  <2>3. ~panicked'
    BY <1>5, <2>1
  <2>4. build' = [build EXCEPT ![p] = w]
    BY <1>6 DEF CopyPage
  <2>5. QED
    BY <1>6, <2>2, <2>3, <2>4 DEF CopyPage
<1>9. TypeOK'
  <2>1. nfree' \in Nat
    BY <1>2, <1>6, <1>8
  <2>2. QED
    BY <1>1, <1>8, <2>1 DEF TypeOK
<1>10. PagesConserved'
  <2>1. Cardinality(kstack) \in Nat /\ kstack' = kstack /\ image' = image /\ nfree' \in Nat
    BY <1>1, <1>8, <1>9, StacksFinite DEF TypeOK
  <2>2. FramesOf(build[p]) \in Nat
    BY <1>2, SpaceFinite
  <2>3. nfree' = nfree - k /\ FramesOf(w) = FramesOf(build[p]) + k /\ nfree \in Nat
    BY <1>2, <1>6, <1>8
  <2>4. nfree' + Cardinality(kstack') + FramesOf(w) = nfree + Cardinality(kstack) + FramesOf(build[p])
    BY <2>1, <2>2, <2>3
  <2>5. QED
    BY <1>1, <1>8, <2>1, <2>4, ConserveBuild
<1>11. OneProc(p)
  BY <1>1, <1>2, <1>8 DEF OneProc, Untouched, TypeOK
<1>12. ProcInv(p)'
  <2>1. /\ st'[p] = "copy" /\ call'[p] = "fork" /\ image'[p] = image[p] /\ build'[p] = w
        /\ sz'[p] = sz[p] /\ stk'[p] = stk[p] /\ a'[p] = a[p] + 1
    BY <1>1, <1>2, <1>3, <1>8 DEF TypeOK
  <2>2. CallInv(p)' /\ GuardInv(p)'
    BY <1>1, <2>1 DEF ProcInv, CallInv, GuardInv
  <2>3. SpaceInv(p)'
    BY <1>1, <1>6, <2>1 DEF ProcInv, SpaceInv
  <2>4. ImageInv(p)'
    BY <1>1, <1>3, <2>1 DEF ProcInv, ImageInv
  <2>5. BuildInv(p)'
    <3>1. a[p] + 1 <= PGROUNDUP(sz[p])
      BY <1>2, <1>4
    <3>2. QED
      BY <1>7, <2>1, <3>1 DEF BuildInv
  <2>6. QED
    BY <2>2, <2>3, <2>4, <2>5 DEF ProcInv
<1>13. QED
  BY <1>9, <1>10, <1>11, <1>12, OneProcStep

\* The rest of fork(): the child gets the copy.
LEMMA CopyDoneStep ==
    ASSUME IInv, NEW p \in Procs, CopyDone(p)
    PROVE  IInv'
<1>1. TypeOK /\ PagesConserved /\ SlotInv /\ ForkInv /\ ~panicked /\ \A q \in Procs : ProcInv(q)
  BY DEF IInv
<1> PICK c \in Procs : c = child[p]
  BY <1>1 DEF TypeOK
<1>2. /\ st[p] = "copy" /\ call[p] = "fork" /\ ~(a[p] * PGSIZE < sz[p])
      /\ a[p] \in Nat /\ sz[p] \in 0..KERNBASE /\ build[p] \in Spaces
  BY <1>1 DEF CopyDone, CopyNeedsPage, TypeOK, ProcInv, CallInv
<1>3. /\ image[p].pg = Below(sz[p]) /\ build[p].pg = Upto(a[p]) /\ a[p] <= PGROUNDUP(sz[p])
      /\ build[p].sup = image[p].sup \cap Upto(a[p])
  BY <1>1, <1>2 DEF ProcInv, ImageInv, BuildInv
<1>4. Upto(a[p]) = Below(sz[p])
  BY <1>2, <1>3, LoopDone
<1>5. /\ st[c] = "embryo" /\ c # p /\ image[c] = NoImage /\ build[c] = NoImage /\ call[c] = "none"
      /\ a[c] = 0 /\ bsz[c] = 0
  <2>1. st[c] = "embryo"
    BY <1>1, <1>2 DEF ForkInv
  <2>2. ProcInv(c)
    BY <1>1
  <2>3. call[c] = "none"
    BY <2>1, <2>2 DEF ProcInv, CallInv
  <2>4. QED
    BY <1>2, <2>1, <2>2, <2>3 DEF ProcInv, SpaceInv, BuildInv
<1>6. /\ image' = [image EXCEPT ![c] = build[p]] /\ build' = [build EXCEPT ![p] = NoImage]
      /\ sz' = [sz EXCEPT ![c] = sz[p]] /\ stk' = [stk EXCEPT ![c] = stk[p]]
      /\ Return(p) /\ UNCHANGED <<nfree, kstack, panicked>>
      /\ st' = [st EXCEPT ![p] = "user", ![c] = "user"]
  BY DEF CopyDone
<1>7. \A q \in Procs : /\ st'[q] = IF q = p \/ q = c THEN "user" ELSE st[q]
                       /\ call'[q] = IF q = p THEN "none" ELSE call[q]
                       /\ q # p => child'[q] = child[q]
  BY <1>1, <1>5, <1>6 DEF Return, TypeOK
<1>8. NoImage \in Spaces /\ FramesOf(NoImage) = 0
  BY NoImageSpace
<1>9. TypeOK'
  <2>1. KERNBASE \in Nat /\ MaxSegments \in Nat /\ 1 \in Procs
    BY PagesAssumption, SlotsAssumption
  <2>2. image' \in [Procs -> Spaces] /\ build' \in [Procs -> Spaces]
    BY <1>1, <1>2, <1>6, <1>8 DEF TypeOK
  <2>3. st' \in [Procs -> {"unused", "embryo", "user", "setup", "alloc", "copy", "header", "zombie"}]
    BY <1>1, <1>6 DEF TypeOK
  <2>4. sz' \in [Procs -> 0..KERNBASE] /\ stk' \in [Procs -> Pages]
    BY <1>1, <1>6 DEF TypeOK
  <2>5. Return(p) /\ UNCHANGED <<nfree, kstack, panicked>>
    BY <1>6
  <2>6. QED
    BY <1>1, <2>1, <2>2, <2>3, <2>4, <2>5 DEF TypeOK, Return
<1>10. PagesConserved'
  <2>1. Cardinality(kstack) \in Nat /\ kstack' = kstack /\ nfree' = nfree /\ nfree \in Nat
    BY <1>1, <1>6, StacksFinite DEF TypeOK
  <2>2. FramesOf(build[p]) \in Nat /\ FramesOf(image[c]) = 0
    BY <1>2, <1>5, <1>8, SpaceFinite
  <2>3. nfree' + Cardinality(kstack') + FramesOf(build[p]) + FramesOf(NoImage)
          = nfree + Cardinality(kstack) + FramesOf(image[c]) + FramesOf(build[p])
    BY <1>8, <2>1, <2>2
  <2>4. QED
    BY <1>1, <1>2, <1>6, <1>8, <2>1, <2>3, Conserve
<1>11. SlotInv'
  <2>1. kstack' = kstack /\ kstack = {q \in Procs : st[q] # "unused"}
    BY <1>1, <1>6 DEF SlotInv
  <2>2. \A q \in Procs : st'[q] # "unused" <=> st[q] # "unused"
    BY <1>2, <1>5, <1>7
  <2>3. QED
    BY <2>1, <2>2 DEF SlotInv
<1>12. ForkInv'
  <2>1. \A q \in Procs : child[q] \in Procs
    BY <1>1 DEF TypeOK
  <2>2. \A q \in Procs : call[q] = "fork" /\ q # p => child[q] # c /\ child[q] # p
    BY <1>1, <1>2 DEF ForkInv
  <2>3. QED
    BY <1>1, <1>7, <2>1, <2>2 DEF ForkInv
<1>13. \A q \in Procs : ProcInv(q)'
  <2>1. ASSUME NEW q \in Procs, q # p, q # c PROVE ProcInv(q)'
    <3>1. Untouched(q)
      BY <1>1, <1>6, <1>7, <2>1 DEF Untouched, Return, TypeOK
    <3>2. QED
      BY <1>1, <3>1, Frame
  <2>2. ProcInv(p)'
    <3>1. /\ st'[p] = "user" /\ call'[p] = "none" /\ image'[p] = image[p] /\ build'[p] = NoImage
          /\ sz'[p] = sz[p] /\ stk'[p] = stk[p] /\ a'[p] = 0 /\ bsz'[p] = 0
      BY <1>1, <1>5, <1>6, <1>7 DEF Return, TypeOK
    <3>2. CallInv(p)' /\ SpaceInv(p)' /\ GuardInv(p)'
      BY <1>1, <3>1 DEF ProcInv, CallInv, SpaceInv, GuardInv, NoImage
    <3>3. ImageInv(p)' /\ BuildInv(p)'
      BY <1>3, <3>1 DEF ImageInv, BuildInv
    <3>4. QED
      BY <3>2, <3>3 DEF ProcInv
  <2>3. ProcInv(c)'
    <3>1. /\ st'[c] = "user" /\ call'[c] = "none" /\ image'[c] = build[p] /\ build'[c] = NoImage
          /\ sz'[c] = sz[p] /\ stk'[c] = stk[p] /\ a'[c] = 0 /\ bsz'[c] = 0
      BY <1>1, <1>5, <1>6, <1>7 DEF Return, TypeOK
    <3>2. CallInv(c)' /\ SpaceInv(c)'
      BY <1>1, <3>1 DEF ProcInv, CallInv, SpaceInv, NoImage
    <3>3. GuardInv(c)'
      <4> SUFFICES ASSUME stk[p] # 0, stk[p] \in build[p].pg
                   PROVE  stk[p] - 1 \in build[p].sup /\ stk[p] \notin build[p].sup
        BY <3>1 DEF GuardInv
      <4>1. stk[p] \in image[p].pg /\ stk[p] < a[p] /\ stk[p] \in Pages
        BY <1>3, <1>4 DEF Upto
      <4>2. stk[p] - 1 \in image[p].sup /\ stk[p] \notin image[p].sup
        BY <1>1, <4>1 DEF ProcInv, GuardInv
      <4>3. stk[p] - 1 \in Pages
        BY <1>1, <4>2 DEF TypeOK, Spaces
      <4>4. stk[p] - 1 \in Upto(a[p])
        BY <1>2, <4>1, <4>3, PagesOf DEF Upto
      <4>5. QED
        BY <1>3, <4>2, <4>4
    <3>4. ImageInv(c)' /\ BuildInv(c)'
      BY <1>3, <1>4, <3>1 DEF ImageInv, BuildInv
    <3>5. QED
      BY <3>2, <3>3, <3>4 DEF ProcInv
  <2>4. QED
    BY <2>1, <2>2, <2>3
<1>14. ~panicked'
  BY <1>1, <1>6
<1>15. QED
  BY <1>9, <1>10, <1>11, <1>12, <1>13, <1>14 DEF IInv

-----------------------------------------------------------------------------
(* exec() after setupkvm(). *)

\* The quotient is the only one.
LEMMA DivUnique ==
    ASSUME NEW n \in Nat, NEW m \in Nat \ {0}, NEW q \in Nat, NEW r \in 0..(m - 1),
           n = m * q + r
    PROVE  n \div m = q
OBVIOUS

\* The larger of two sizes.
LEMMA MaxOfTwo ==
    ASSUME NEW x \in Nat, NEW y \in Nat
    PROVE  Max({x, y}) \in {x, y} /\ Max({x, y}) >= x /\ Max({x, y}) >= y
<1>1. \E z \in {x, y} : \A u \in {x, y} : z >= u
  OBVIOUS
<1>2. QED
  BY <1>1 DEF Max

\* A good program header does not wrap.
LEMMA SegmentFits ==
    ASSUME NEW s \in Segments, ~BadSegment(s)
    PROVE  /\ s.vaddr \in Nat /\ s.memsz \in Nat /\ s.filesz \in Nat /\ s.filesz <= s.memsz
           /\ SegmentEnd(s) = s.vaddr + s.memsz
<1> DEFINE v == s.vaddr
           m == s.memsz
           e == (v + m) % WRAP
<1>1. v \in 0..(WRAP - 1) /\ m \in 0..(WRAP - 1) /\ s.filesz \in 0..(WRAP - 1) /\ WRAP \in Nat \ {0}
      /\ s \in [vaddr : 0..WRAP - 1, memsz : 0..WRAP - 1, filesz : 0..WRAP - 1]
  BY PagesAssumption
<1>2. ~(m < s.filesz) /\ ~(e < v)
  BY DEF BadSegment
<1>3. v + m < WRAP
  <2> SUFFICES ASSUME v + m >= WRAP PROVE FALSE
    BY <1>1
  <2>1. e = v + m - WRAP
    <3>1. v + m \in Nat /\ 1 \in Nat /\ v + m - WRAP \in 0..(WRAP - 1)
          /\ v + m = WRAP * 1 + (v + m - WRAP)
      BY <1>1
    <3>2. (v + m) % WRAP = v + m - WRAP
      BY <1>1, <3>1
    <3>3. QED
      BY <3>2
  <2> HIDE DEF v, m, e
  <2>2. QED
    BY <1>1, <1>2, <2>1
<1>4. e = v + m
  BY <1>1, <1>3
<1>5. QED
  BY <1>1, <1>2, <1>4 DEF SegmentEnd

\* exec() reads a good header.
LEMMA ExecSegmentStep ==
    ASSUME IInv, NEW p \in Procs, NEW s \in Segments, ExecSegment(p, s)
    PROVE  IInv'
<1>1. TypeOK /\ PagesConserved /\ ~panicked /\ ProcInv(p)
  BY DEF IInv
<1>2. /\ st[p] = "header" /\ ~BadSegment(s) /\ ~TooHigh(SegmentEnd(s)) /\ nseg[p] < MaxSegments
      /\ bsz[p] \in 0..KERNBASE /\ bsz[p] \in Nat /\ KERNBASE \in Nat /\ MaxSegments \in Nat
      /\ nseg[p] \in 0..MaxSegments
  BY <1>1, PagesAssumption DEF ExecSegment, TypeOK
<1>3. /\ s.vaddr \in Nat /\ s.memsz \in Nat /\ s.filesz \in Nat /\ s.filesz <= s.memsz
      /\ SegmentEnd(s) = s.vaddr + s.memsz
  BY <1>2, SegmentFits
<1>4. PICK t \in 0..KERNBASE : /\ t = Max({bsz[p], SegmentEnd(s)})
                               /\ bsz[p] <= t /\ s.vaddr + s.filesz <= t
  <2>1. SegmentEnd(s) \in Nat
    BY <1>3
  <2>2. /\ Max({bsz[p], SegmentEnd(s)}) \in {bsz[p], SegmentEnd(s)}
        /\ Max({bsz[p], SegmentEnd(s)}) >= bsz[p] /\ Max({bsz[p], SegmentEnd(s)}) >= SegmentEnd(s)
    BY <1>2, <2>1, MaxOfTwo
  <2>3. QED
    BY <1>2, <1>3, <2>1, <2>2 DEF TooHigh
<1>5. PGROUNDUP(bsz[p]) \in Nat /\ PGROUNDUP(bsz[p]) <= PGROUNDUP(t)
  BY <1>2, <1>4, RoundUp, RoundMono
<1>6. /\ call[p] = "exec" /\ build[p].pg = Below(bsz[p]) /\ build[p].sup = {}
  BY <1>1, <1>2 DEF ProcInv, CallInv, BuildInv
<1>7. /\ seg' = [seg EXCEPT ![p] = s] /\ nseg' = [nseg EXCEPT ![p] = @ + 1]
      /\ a' = [a EXCEPT ![p] = PGROUNDUP(bsz[p])] /\ top' = [top EXCEPT ![p] = t]
      /\ st' = [st EXCEPT ![p] = "alloc"]
      /\ UNCHANGED <<nfree, kstack, image, sz, stk, call, build, bsz, child, panicked>>
  BY <1>4 DEF ExecSegment, Goto
<1>8. TypeOK'
  <2>1. nseg[p] + 1 \in 0..MaxSegments
    BY <1>2
  <2>2. QED
    BY <1>1, <1>4, <1>5, <1>7, <2>1 DEF TypeOK
<1>9. PagesConserved'
  BY <1>1, <1>7, ConserveNothing
<1>10. OneProc(p)
  BY <1>1, <1>2, <1>7 DEF OneProc, Untouched, TypeOK
<1>11. ProcInv(p)'
  <2>1. /\ st'[p] = "alloc" /\ call'[p] = "exec" /\ image'[p] = image[p] /\ build'[p] = build[p]
        /\ sz'[p] = sz[p] /\ stk'[p] = stk[p] /\ a'[p] = PGROUNDUP(bsz[p]) /\ top'[p] = t
        /\ bsz'[p] = bsz[p] /\ seg'[p] = s
    BY <1>1, <1>6, <1>7 DEF TypeOK
  <2>2. CallInv(p)' /\ SpaceInv(p)' /\ GuardInv(p)'
    BY <1>1, <1>2, <1>6, <2>1 DEF ProcInv, CallInv, SpaceInv, GuardInv
  <2>3. ImageInv(p)'
    BY <1>1, <1>6, <2>1 DEF ProcInv, ImageInv
  <2>4. BuildInv(p)'
    <3>1. build[p].pg = Upto(PGROUNDUP(bsz[p]))
      BY <1>6 DEF Below, Upto
    <3>2. QED
      BY <1>4, <1>5, <1>6, <2>1, <3>1 DEF BuildInv
  <2>5. QED
    BY <2>2, <2>3, <2>4 DEF ProcInv
<1>12. QED
  BY <1>8, <1>9, <1>10, <1>11, OneProcStep

\* A segment is loaded; every page that loaduvm() looks for is there.
LEMMA ExecLoadStep ==
    ASSUME IInv, NEW p \in Procs, ExecLoad(p)
    PROVE  IInv'
<1>1. TypeOK /\ PagesConserved /\ ~panicked /\ ProcInv(p)
  BY DEF IInv
<1>2. /\ st[p] = "alloc" /\ call[p] = "exec" /\ ~(a[p] * PGSIZE < top[p])
      /\ a[p] \in Nat /\ top[p] \in 0..KERNBASE /\ KERNBASE \in Nat
  BY <1>1, PagesAssumption DEF ExecLoad, AllocNeedsPage, TypeOK
<1>3. /\ build[p].pg = Upto(a[p]) /\ build[p].sup = {} /\ a[p] <= PGROUNDUP(top[p])
      /\ seg[p].vaddr + seg[p].filesz <= top[p]
      /\ \A v \in build[p].pg : PDX(v) \in build[p].tab
  BY <1>1, <1>2 DEF ProcInv, BuildInv, SpaceInv
<1>4. build[p].pg = Below(top[p])
  BY <1>2, <1>3, LoopDone
<1>5. seg[p].vaddr \in Nat /\ seg[p].filesz \in Nat
  <2>1. seg[p] \in Segments \cup {NoSegment}
    BY <1>1 DEF TypeOK
  <2>2. WRAP \in Nat
    BY PagesAssumption
  <2>3. CASE seg[p] = NoSegment
    BY <2>3 DEF NoSegment
  <2>4. CASE seg[p] \in Segments
    <3>1. seg[p] \in [vaddr : 0..WRAP - 1, memsz : 0..WRAP - 1, filesz : 0..WRAP - 1]
      BY <2>4, PagesAssumption
    <3>2. QED
      BY <2>2, <3>1
  <2>5. QED
    BY <2>1, <2>3, <2>4
<1>6. Below(seg[p].vaddr + seg[p].filesz) \subseteq build[p].pg
  <2>1. /\ seg[p].vaddr + seg[p].filesz \in Nat /\ top[p] \in Nat
        /\ seg[p].vaddr + seg[p].filesz <= top[p]
    BY <1>2, <1>3, <1>5
  <2>2. /\ PGROUNDUP(seg[p].vaddr + seg[p].filesz) \in Nat /\ PGROUNDUP(top[p]) \in Nat
        /\ PGROUNDUP(seg[p].vaddr + seg[p].filesz) <= PGROUNDUP(top[p])
    BY <2>1, RoundUp, RoundMono
  <2>3. QED
    BY <1>4, <2>2, PagesOf DEF Below
<1>7. panicked' \in BOOLEAN /\ ~panicked'
  <2>1. panicked' = \E v \in Below(seg[p].vaddr + seg[p].filesz) :
                      v * PGSIZE >= seg[p].vaddr /\ PDX(v) \notin build[p].tab
    BY DEF ExecLoad
  <2>2. panicked' \in BOOLEAN
    BY <2>1
  <2>3. ~panicked'
    BY <1>3, <1>6, <2>1
  <2>4. QED
    BY <2>2, <2>3
<1>8. TypeOK'
  BY <1>1, <1>2, <1>7 DEF ExecLoad, Goto, TypeOK
<1>9. PagesConserved'
  BY <1>1, ConserveNothing DEF ExecLoad
<1>10. OneProc(p)
  BY <1>1, <1>2, <1>7 DEF OneProc, Untouched, ExecLoad, Goto, TypeOK
<1>11. ProcInv(p)'
  <2>1. /\ st'[p] = "header" /\ call'[p] = "exec" /\ image'[p] = image[p] /\ build'[p] = build[p]
        /\ sz'[p] = sz[p] /\ stk'[p] = stk[p] /\ bsz'[p] = top[p]
    BY <1>1, <1>2 DEF ExecLoad, Goto, TypeOK
  <2>2. CallInv(p)' /\ SpaceInv(p)' /\ GuardInv(p)'
    BY <1>1, <1>2, <2>1 DEF ProcInv, CallInv, SpaceInv, GuardInv
  <2>3. ImageInv(p)'
    BY <1>1, <1>2, <2>1 DEF ProcInv, ImageInv
  <2>4. BuildInv(p)'
    BY <1>3, <1>4, <2>1 DEF BuildInv
  <2>5. QED
    BY <2>2, <2>3, <2>4 DEF ProcInv
<1>12. QED
  BY <1>8, <1>9, <1>10, <1>11, OneProcStep

\* exec() asks for the stack, from a page boundary.
LEMMA ExecStackStep ==
    ASSUME IInv, NEW p \in Procs, ExecStack(p)
    PROVE  IInv'
<1>1. TypeOK /\ PagesConserved /\ ~panicked /\ ProcInv(p)
  BY DEF IInv
<1>2. /\ st[p] = "header" /\ call[p] = "exec" /\ bsz[p] \in Nat
      /\ KERNBASE \in Nat /\ PGSIZE \in Nat \ {0}
  BY <1>1, PagesAssumption DEF ExecStack, TypeOK
<1>3. build[p].pg = Below(bsz[p]) /\ build[p].sup = {}
  BY <1>1, <1>2 DEF ProcInv, BuildInv
<1>4. PICK k \in Nat : k = PGROUNDUP(bsz[p])
  BY <1>2, RoundUp
<1>5. PICK s \in Nat : s = k * PGSIZE /\ PGROUNDUP(s) = k
  BY RoundWhole
<1>6. CASE TooHigh(s + 2 * PGSIZE)
  <2>1. GiveUp(p)
    BY <1>4, <1>5, <1>6 DEF ExecStack
  <2>2. QED
    BY <1>2, <2>1, GiveUpStep
<1>7. CASE ~TooHigh(s + 2 * PGSIZE)
  <2>1. /\ bsz' = [bsz EXCEPT ![p] = s] /\ a' = [a EXCEPT ![p] = k]
        /\ top' = [top EXCEPT ![p] = s + 2 * PGSIZE]
        /\ call' = [call EXCEPT ![p] = "stack"] /\ st' = [st EXCEPT ![p] = "alloc"]
        /\ UNCHANGED <<nfree, kstack, image, sz, stk, build, seg, nseg, child, panicked>>
    BY <1>4, <1>5, <1>7 DEF ExecStack, Goto
  <2>2. s + 2 * PGSIZE \in Nat /\ s + 2 * PGSIZE \in 0..KERNBASE /\ s \in 0..KERNBASE
        /\ s <= s + 2 * PGSIZE
    BY <1>2, <1>7 DEF TooHigh
  <2>3. k <= PGROUNDUP(s + 2 * PGSIZE)
    BY <1>5, <2>2, RoundMono
  <2>4. TypeOK'
    BY <1>1, <2>1, <2>2 DEF TypeOK
  <2>5. PagesConserved'
    BY <1>1, <2>1, ConserveNothing
  <2>6. OneProc(p)
    BY <1>1, <1>2, <2>1 DEF OneProc, Untouched, TypeOK
  <2>7. ProcInv(p)'
    <3>1. /\ st'[p] = "alloc" /\ call'[p] = "stack" /\ image'[p] = image[p] /\ build'[p] = build[p]
          /\ sz'[p] = sz[p] /\ stk'[p] = stk[p] /\ a'[p] = k /\ bsz'[p] = s
          /\ top'[p] = s + 2 * PGSIZE
      BY <1>1, <2>1 DEF TypeOK
    <3>2. CallInv(p)' /\ SpaceInv(p)' /\ GuardInv(p)'
      BY <1>1, <3>1 DEF ProcInv, CallInv, SpaceInv, GuardInv
    <3>3. ImageInv(p)'
      BY <1>1, <1>2, <3>1 DEF ProcInv, ImageInv
    <3>4. build[p].pg = Upto(k)
      BY <1>3, <1>4 DEF Below, Upto
    <3>5. BuildInv(p)'
      BY <1>3, <1>5, <2>2, <2>3, <3>1, <3>4 DEF BuildInv
    <3>6. QED
      BY <3>2, <3>3, <3>5 DEF ProcInv
  <2>8. QED
    BY <2>4, <2>5, <2>6, <2>7, OneProcStep
<1>8. QED
  BY <1>6, <1>7

\* The commit of exec().
LEMMA ExecCommitStep ==
    ASSUME IInv, NEW p \in Procs, NEW n \in ArgSizes, ExecCommit(p, n)
    PROVE  IInv'
<1>1. TypeOK /\ PagesConserved /\ ~panicked /\ ProcInv(p)
  BY DEF IInv
<1>2. /\ st[p] = "alloc" /\ call[p] = "stack" /\ ~(a[p] * PGSIZE < top[p]) /\ a[p] \in Nat
      /\ bsz[p] \in Nat /\ top[p] \in 0..KERNBASE /\ KERNBASE \in Nat /\ PGSIZE \in Nat \ {0}
      /\ build[p] \in Spaces /\ image[p] \in Spaces /\ nfree \in Nat
  BY <1>1, PagesAssumption DEF ExecCommit, AllocNeedsPage, TypeOK
<1>3. /\ build[p].pg = Upto(a[p]) /\ build[p].sup = {} /\ a[p] <= PGROUNDUP(top[p])
      /\ bsz[p] = PGROUNDUP(bsz[p]) * PGSIZE /\ top[p] = bsz[p] + 2 * PGSIZE
      /\ (\A v \in build[p].pg : PDX(v) \in build[p].tab)
      /\ (\A v \in image[p].pg : PDX(v) \in image[p].tab)
  BY <1>1, <1>2 DEF ProcInv, BuildInv, SpaceInv
<1>4. PICK k \in Nat : bsz[p] = k * PGSIZE
  BY <1>2, <1>3, RoundUp
<1>5. build[p].pg = Below(top[p])
  BY <1>2, <1>3, LoopDone
<1>6. /\ (top[p] - 2 * PGSIZE) \div PGSIZE = k /\ (top[p] - 1) \div PGSIZE = k + 1
  <2>1. /\ top[p] - 2 * PGSIZE = PGSIZE * k + 0 /\ top[p] - 2 * PGSIZE \in Nat
        /\ 0 \in 0..(PGSIZE - 1)
    BY <1>2, <1>3, <1>4
  <2>2. PGSIZE * (k + 1) = PGSIZE * k + PGSIZE
    BY <1>2
  <2>3. /\ top[p] - 1 = PGSIZE * (k + 1) + (PGSIZE - 1) /\ top[p] - 1 \in Nat
        /\ PGSIZE - 1 \in 0..(PGSIZE - 1) /\ k + 1 \in Nat
    BY <1>2, <1>3, <1>4, <2>2
  <2>4. (top[p] - 2 * PGSIZE) \div PGSIZE = k
    BY <1>2, <2>1, DivUnique
  <2>5. (top[p] - 1) \div PGSIZE = k + 1
    BY <1>2, <2>3, DivUnique
  <2>6. QED
    BY <2>4, <2>5
<1>7. k \in Below(top[p]) /\ k + 1 \in Below(top[p]) /\ k \in Pages /\ k + 1 \in Pages
  <2>1. (k + 1) * PGSIZE = k * PGSIZE + PGSIZE /\ k * PGSIZE \in Nat /\ k + 1 \in Nat
    BY <1>2
  <2>2. k * PGSIZE < top[p] /\ (k + 1) * PGSIZE < top[p]
    BY <1>2, <1>3, <1>4, <2>1
  <2>3. QED
    BY <1>2, <2>1, <2>2, LoopPage DEF Below
<1>8. PICK w \in Spaces : /\ w = Guarded(p) /\ w.pg = build[p].pg /\ w.tab = build[p].tab
                          /\ w.sup = {k} /\ FramesOf(w) = FramesOf(build[p])
  <2> DEFINE g == Guarded(p)
  <2>1. g = [build[p] EXCEPT !.sup = @ \cup {k}]
    BY <1>6 DEF Guarded
  <2> HIDE DEF g
  <2>2. g \in Spaces
    BY <1>2, <1>7, <2>1 DEF Spaces
  <2>3. /\ g.pg = build[p].pg /\ g.tab = build[p].tab /\ g.dir = build[p].dir
        /\ g.sup = build[p].sup \cup {k}
    BY <1>2, <2>1 DEF Spaces
  <2>4. g.sup = {k}
    BY <1>3, <2>3
  <2>5. FramesOf(g) = FramesOf(build[p])
    BY <2>3 DEF FramesOf
  <2>6. QED
    BY <2>2, <2>3, <2>4, <2>5 DEF g
<1>9. CASE ~ArgsFit(p, n)
  <2>1. GiveUp(p)
    BY <1>9 DEF ExecCommit
  <2>2. QED
    BY <1>2, <2>1, GiveUpStep
<1>10. CASE ArgsFit(p, n)
  <2>1. FramesOf(image[p]) \in Nat /\ Freed(image[p]) = FramesOf(image[p]) /\ FramesOf(build[p]) \in Nat
        /\ NoImage \in Spaces /\ FramesOf(NoImage) = 0
    BY <1>2, <1>3, SpaceFinite, FreedAll, NoImageSpace
  <2>2. /\ image' = [image EXCEPT ![p] = w] /\ build' = [build EXCEPT ![p] = NoImage]
        /\ sz' = [sz EXCEPT ![p] = top[p]] /\ stk' = [stk EXCEPT ![p] = k + 1]
        /\ nfree' = nfree + FramesOf(image[p]) /\ st' = [st EXCEPT ![p] = "user"]
        /\ Return(p) /\ UNCHANGED <<kstack, panicked>>
    BY <1>6, <1>8, <1>10, <2>1 DEF ExecCommit, Goto
  <2>3. TypeOK'
    <3>1. MaxSegments \in Nat /\ 1 \in Procs /\ nfree' \in Nat
      BY <1>2, <2>1, <2>2, PagesAssumption, SlotsAssumption
    <3>2. image' \in [Procs -> Spaces] /\ build' \in [Procs -> Spaces]
      BY <1>1, <2>1, <2>2 DEF TypeOK
    <3>3. sz' \in [Procs -> 0..KERNBASE] /\ stk' \in [Procs -> Pages]
      BY <1>1, <1>2, <1>7, <2>2 DEF TypeOK
    <3>4. st' \in [Procs -> {"unused", "embryo", "user", "setup", "alloc", "copy", "header", "zombie"}]
      BY <1>1, <2>2 DEF TypeOK
    <3>5. Return(p) /\ UNCHANGED <<kstack, panicked>>
      BY <2>2
    <3>6. QED
      BY <1>1, <1>2, <3>1, <3>2, <3>3, <3>4, <3>5 DEF TypeOK, Return
  <2>4. PagesConserved'
    <3>1. Cardinality(kstack) \in Nat /\ kstack' = kstack /\ nfree' \in Nat
      BY <1>1, <2>2, <2>3, StacksFinite DEF TypeOK
    <3>2. nfree' = nfree + FramesOf(image[p]) /\ FramesOf(w) = FramesOf(build[p])
      BY <1>8, <2>2
    <3>3. nfree' + Cardinality(kstack') + FramesOf(w) + FramesOf(NoImage)
            = nfree + Cardinality(kstack) + FramesOf(image[p]) + FramesOf(build[p])
      BY <1>2, <2>1, <3>1, <3>2
    <3>4. QED
      BY <1>1, <2>1, <2>2, <3>1, <3>3, Conserve
  <2>5. OneProc(p)
    BY <1>1, <1>2, <2>2 DEF OneProc, Untouched, Return, TypeOK
  <2>6. ProcInv(p)'
    <3>1. /\ st'[p] = "user" /\ call'[p] = "none" /\ image'[p] = w /\ build'[p] = NoImage
          /\ sz'[p] = top[p] /\ stk'[p] = k + 1 /\ a'[p] = 0 /\ bsz'[p] = 0
      BY <1>1, <2>2 DEF Return, TypeOK
    <3>2. CallInv(p)' /\ SpaceInv(p)'
      BY <1>3, <1>8, <3>1 DEF CallInv, SpaceInv, NoImage
    <3>3. GuardInv(p)'
      BY <1>8, <3>1 DEF GuardInv
    <3>4. ImageInv(p)' /\ BuildInv(p)'
      BY <1>5, <1>8, <3>1 DEF ImageInv, BuildInv
    <3>5. QED
      BY <3>2, <3>3, <3>4 DEF ProcInv
  <2>7. QED
    BY <2>3, <2>4, <2>5, <2>6, OneProcStep
<1>11. QED
  BY <1>9, <1>10

-----------------------------------------------------------------------------
(* The theorems. *)

\* After userinit() the invariant holds.
LEMMA InitIInv == Init => IInv
<1> SUFFICES ASSUME Init PROVE IInv
  OBVIOUS
<1> DEFINE first == [dir |-> TRUE, tab |-> Ktabs \cup {0}, pg |-> {0}, sup |-> {}]
<1>1. /\ 1 \in Procs /\ PGSIZE \in Nat \ {0} /\ KERNBASE \in Nat \ {0} /\ NPTENTRIES \in Nat \ {0}
      /\ KTABLES \in Nat \ {0} /\ MaxSegments \in Nat /\ NFRAMES \in Nat /\ NFRAMES >= KTABLES + 4
  BY PagesAssumption, SlotsAssumption
<1>2. 0 \in Pages /\ PDX(0) = 0 /\ 0 \in Tables
  <2>1. 0 \in Pages
    BY PagesOf
  <2>2. PDX(0) = 0
    <3>1. 0 = NPTENTRIES * 0 + 0 /\ 0 \in 0..(NPTENTRIES - 1) /\ 0 \in Nat
      BY <1>1
    <3>2. QED
      BY <1>1, <3>1, DivUnique DEF PDX
  <2>3. QED
    BY <2>1, <2>2, Finite
<1>3. PGROUNDUP(PGSIZE) = 1 /\ Below(PGSIZE) = {0} /\ PGSIZE \in 0..KERNBASE
  <2>1. 1 \in Nat /\ 1 * PGSIZE = PGSIZE
    BY <1>1
  <2>2. PGROUNDUP(PGSIZE) = 1
    BY <2>1, RoundWhole
  <2>3. Below(PGSIZE) = {0}
    BY <1>2, <2>2, PagesOf DEF Below
  <2>4. KERNBASE >= PGSIZE
    <3> DEFINE t == PGSIZE * NPTENTRIES
               d == KERNBASE \div t
    <3>1. t \in Nat \ {0}
      BY <1>1
    <3>2. d \in Nat /\ KERNBASE = t * d + (KERNBASE % t) /\ (KERNBASE % t) = 0
      BY <1>1, <3>1, DivMod, PagesAssumption
    <3>3. NPTENTRIES * d \in Nat /\ KERNBASE = PGSIZE * (NPTENTRIES * d)
      BY <1>1, <3>2
    <3> DEFINE e == NPTENTRIES * d
    <3>4. e \in Nat /\ KERNBASE = PGSIZE * e
      BY <3>3
    <3> HIDE DEF e
    <3>5. e >= 1
      BY <1>1, <3>4
    <3>6. PGSIZE * e = PGSIZE + PGSIZE * (e - 1) /\ e - 1 \in Nat
      BY <1>1, <3>4, <3>5
    <3>7. PGSIZE * (e - 1) \in Nat
      BY <1>1, <3>6
    <3>8. QED
      BY <1>1, <3>4, <3>6, <3>7
  <2>5. QED
    BY <1>1, <2>2, <2>3, <2>4
<1>4. first \in Spaces
  BY <1>2, Finite DEF Spaces
<1>5. NoImage \in Spaces /\ FramesOf(NoImage) = 0
  BY NoImageSpace
<1>6. /\ nfree = NFRAMES - 1 - FramesOf(first) /\ kstack = {1}
      /\ image = [p \in Procs |-> IF p = 1 THEN first ELSE NoImage]
      /\ build = [p \in Procs |-> NoImage]
      /\ \A p \in Procs : st[p] = IF p = 1 THEN "user" ELSE "unused"
      /\ \A p \in Procs : call[p] = "none" /\ a[p] = 0 /\ bsz[p] = 0 /\ stk[p] = 0
      /\ \A p \in Procs : sz[p] = IF p = 1 THEN PGSIZE ELSE 0
      /\ ~panicked
  BY DEF Init
<1>7. FramesOf(first) \in Nat /\ FramesOf(first) <= KTABLES + 3
  <2> DEFINE D == KERNBASE \div (PGSIZE * NPTENTRIES)
             I == D..(D + KTABLES - 1)
  <2>1. D \in Nat
    <3>1. PGSIZE * NPTENTRIES \in Nat \ {0}
      BY <1>1
    <3>2. QED
      BY <1>1, <3>1, DivMod
  <2> HIDE DEF D
  <2>2. Ktabs \in SUBSET I
    <3>1. Ktabs = {D + i : i \in 0..(KTABLES - 1)}
      BY DEF Ktabs, D
    <3>2. QED
      BY <1>1, <2>1, <3>1
  <2>3. IsFiniteSet(I) /\ Cardinality(I) = KTABLES
    <3>1. D \in Int /\ D + KTABLES - 1 \in Int /\ ~(D > D + KTABLES - 1)
          /\ (D + KTABLES - 1) - D + 1 = KTABLES
      BY <1>1, <2>1
    <3>2. /\ IsFiniteSet(I)
          /\ Cardinality(I) = IF D > D + KTABLES - 1 THEN 0 ELSE (D + KTABLES - 1) - D + 1
      BY <3>1, FS_Interval
    <3>3. QED
      BY <3>1, <3>2
  <2> HIDE DEF I
  <2>4. IsFiniteSet(Ktabs) /\ Cardinality(Ktabs) <= KTABLES /\ Cardinality(Ktabs) \in Nat
    BY <2>2, <2>3, FS_Subset, FS_CardinalityType
  <2>5. Cardinality(Ktabs \cup {0}) = IF 0 \in Ktabs THEN Cardinality(Ktabs) ELSE Cardinality(Ktabs) + 1
    BY <2>4, FS_AddElement
  <2>6. Cardinality({0}) = 1
    BY FS_Singleton
  <2>7. FramesOf(first) = 1 + Cardinality(Ktabs \cup {0}) + Cardinality({0})
    BY DEF FramesOf
  <2>8. QED
    BY <1>1, <2>4, <2>5, <2>6, <2>7
<1>8. TypeOK
  <2>1. nfree \in Nat /\ kstack \subseteq Procs
    BY <1>1, <1>6, <1>7
  <2>2. image \in [Procs -> Spaces] /\ build \in [Procs -> Spaces]
    BY <1>4, <1>5, <1>6
  <2>3. sz \in [Procs -> 0..KERNBASE] /\ stk \in [Procs -> Pages]
    BY <1>1, <1>2, <1>3 DEF Init
  <2>4. st \in [Procs -> {"unused", "embryo", "user", "setup", "alloc", "copy", "header", "zombie"}]
    BY DEF Init
  <2>5. /\ call \in [Procs -> {"none", "fork", "sbrk", "exec", "stack"}]
        /\ bsz \in [Procs -> 0..KERNBASE] /\ top \in [Procs -> 0..KERNBASE]
        /\ a \in [Procs -> Nat] /\ seg \in [Procs -> Segments \cup {NoSegment}]
        /\ nseg \in [Procs -> 0..MaxSegments] /\ child \in [Procs -> Procs]
    BY <1>1 DEF Init
  <2>6. panicked \in BOOLEAN
    BY DEF Init
  <2>7. QED
    BY <2>1, <2>2, <2>3, <2>4, <2>5, <2>6 DEF TypeOK
<1>9. PagesConserved
  <2> DEFINE empty == [p \in Procs |-> NoImage]
  <2>1. Parts(NoImage) = {}
    BY DEF Parts, NoImage
  <2>2. Owned(empty) = {}
    BY <2>1 DEF Owned
  <2>3. Cardinality(Owned(empty)) = 0
    BY <2>2, FS_EmptySet
  <2>4. empty \in [Procs -> Spaces] /\ empty[1] = NoImage /\ image = [empty EXCEPT ![1] = first]
        /\ build = empty
    BY <1>1, <1>5, <1>6
  <2> HIDE DEF empty, first
  <2>5. Cardinality(Owned(image)) = Cardinality(Owned(empty)) - FramesOf(empty[1]) + FramesOf(first)
    BY <1>1, <1>4, <2>4, OwnedChange
  <2>6. Cardinality(Owned(image)) = FramesOf(first) /\ Cardinality(Owned(build)) = 0
    BY <1>5, <1>7, <2>3, <2>4, <2>5
  <2>7. Cardinality(kstack) = 1
    BY <1>6, FS_Singleton
  <2>8. NFRAMES = nfree + Cardinality(kstack) + Cardinality(Owned(image)) + Cardinality(Owned(build))
    BY <1>1, <1>6, <1>7, <2>6, <2>7
  <2>9. QED
    BY <2>8 DEF PagesConserved
<1>10. SlotInv /\ ForkInv /\ ~panicked
  BY <1>1, <1>6 DEF SlotInv, ForkInv
<1>11. \A p \in Procs : ProcInv(p)
  <2> SUFFICES ASSUME NEW p \in Procs PROVE ProcInv(p)
    OBVIOUS
  <2>1. build[p] = NoImage /\ NoImage.pg = {}
    BY <1>6 DEF NoImage
  <2>2. CallInv(p) /\ GuardInv(p) /\ BuildInv(p)
    BY <1>6 DEF CallInv, GuardInv, BuildInv
  <2>3. CASE p = 1
    <3>1. st[p] = "user" /\ image[p].pg = {0} /\ 0 \in image[p].tab /\ sz[p] = PGSIZE
      BY <1>6, <2>3
    <3>2. SpaceInv(p) /\ ImageInv(p)
      BY <1>2, <1>3, <1>6, <2>1, <3>1 DEF SpaceInv, ImageInv
    <3>3. QED
      BY <2>2, <3>2 DEF ProcInv
  <2>4. CASE p # 1
    <3>1. st[p] = "unused" /\ image[p] = NoImage
      BY <1>6, <2>4
    <3>2. SpaceInv(p) /\ ImageInv(p)
      BY <1>6, <2>1, <3>1 DEF SpaceInv, ImageInv
    <3>3. QED
      BY <2>2, <3>2 DEF ProcInv
  <2>5. QED
    BY <2>3, <2>4
<1>12. QED
  BY <1>8, <1>9, <1>10, <1>11 DEF IInv

\* A step inside a call keeps the invariant.
LEMMA StepIInv ==
    ASSUME IInv, NEW p \in Procs, Step(p)
    PROVE  IInv'
<1>1. /\ st[p] = "setup" => call[p] \in {"fork", "exec"}
      /\ st[p] = "alloc" => call[p] \in {"sbrk", "exec", "stack"}
      /\ st[p] = "copy" => call[p] = "fork"
      /\ st[p] = "header" => call[p] = "exec"
  BY DEF IInv, ProcInv, CallInv
<1>2. CASE SetupPage(p) \/ SetupDone(p)
  BY <1>2, SetupPageStep, SetupDoneStep
<1>3. CASE SetupFails(p)
  <2>1. call[p] \in {"fork", "exec", "stack"} /\ GiveUp(p)
    BY <1>1, <1>3 DEF SetupFails, SetupNeedsPage
  <2>2. QED
    BY <2>1, GiveUpStep
<1>4. CASE AllocPage(p)
  BY <1>4, AllocPageSbrk, AllocPageExec
<1>5. CASE AllocFailsExec(p)
  <2>1. call[p] \in {"fork", "exec", "stack"} /\ GiveUp(p)
    BY <1>1, <1>5 DEF AllocFailsExec, AllocNeedsPage
  <2>2. QED
    BY <2>1, GiveUpStep
<1>6. CASE AllocFailsSbrk(p) \/ AllocDoneSbrk(p)
  BY <1>6, AllocFailsSbrkStep, AllocDoneSbrkStep
<1>7. CASE CopyPage(p) \/ CopyDone(p)
  BY <1>7, CopyPageStep, CopyDoneStep
<1>8. CASE CopyFails(p)
  <2>1. call[p] \in {"fork", "exec", "stack"} /\ GiveUp(p)
    BY <1>1, <1>8 DEF CopyFails, CopyNeedsPage
  <2>2. QED
    BY <2>1, GiveUpStep
<1>9. CASE \E s \in Segments : ExecSegment(p, s)
  BY <1>9, ExecSegmentStep
<1>10. CASE ExecBadSegment(p) \/ ExecLoadFails(p)
  <2>1. call[p] \in {"fork", "exec", "stack"} /\ GiveUp(p)
    BY <1>1, <1>10 DEF ExecBadSegment, ExecLoadFails
  <2>2. QED
    BY <2>1, GiveUpStep
<1>11. CASE ExecLoad(p) \/ ExecStack(p)
  BY <1>11, ExecLoadStep, ExecStackStep
<1>12. CASE \E n \in ArgSizes : ExecCommit(p, n)
  BY <1>12, ExecCommitStep
<1>13. QED
  BY <1>2, <1>3, <1>4, <1>5, <1>6, <1>7, <1>8, <1>9, <1>10, <1>11, <1>12 DEF Step

\* IInv is an invariant of physical pages and address spaces: of kalloc.c, vm.c,
\* exec(), fork(), growproc() and wait().
THEOREM Invariant == Spec => []IInv
<1>1. IInv /\ Next => IInv'
  <2> SUFFICES ASSUME IInv, Next PROVE IInv'
    OBVIOUS
  <2>1. PICK p \in Procs : \/ Exec(p) \/ Exit(p) \/ Reap(p) \/ Step(p)
                           \/ \E c \in Procs : Fork(p, c)
                           \/ \E n \in Deltas : SbrkGrow(p, n) \/ SbrkShrink(p, n)
    BY DEF Next
  <2>2. CASE Exec(p) \/ Exit(p) \/ Reap(p) \/ Step(p)
    BY <2>2, ExecStep, ExitStep, ReapStep, StepIInv
  <2>3. CASE \E c \in Procs : Fork(p, c)
    BY <2>3, ForkStep
  <2>4. CASE \E n \in Deltas : SbrkGrow(p, n) \/ SbrkShrink(p, n)
    BY <2>4, SbrkGrowStep, SbrkShrinkStep
  <2>5. QED
    BY <2>1, <2>2, <2>3, <2>4
<1>2. IInv /\ UNCHANGED vars => IInv'
  <2> SUFFICES ASSUME IInv, UNCHANGED vars PROVE IInv'
    OBVIOUS
  <2>1. \A q \in Procs : ProcInv(q) /\ Untouched(q)
    BY DEF IInv, vars, Untouched
  <2>2. \A q \in Procs : ProcInv(q)'
    BY <2>1, Frame
  <2>3. TypeOK' /\ SlotInv' /\ ForkInv' /\ ~panicked'
    BY DEF IInv, vars, TypeOK, SlotInv, ForkInv
  <2>4. PagesConserved'
    BY ConserveNothing DEF IInv, vars
  <2>5. QED
    BY <2>2, <2>3, <2>4 DEF IInv
<1>3. QED
  BY InitIInv, <1>1, <1>2, PTL DEF Spec

\* Every variable keeps its type.
THEOREM TypeCorrect == Spec => []TypeOK
<1>1. IInv => TypeOK
  BY DEF IInv
<1>2. QED
  BY <1>1, Invariant, PTL

\* kalloc() and kfree() balance: whichever allocation of fork(), exec() or sbrk()
\* fails, in whatever order processes make and free address spaces, every physical
\* page stays on the free list or has its place in one process.
THEOREM PagesConservedHolds == Spec => []PagesConserved
<1>1. IInv => PagesConserved
  BY DEF IInv
<1>2. QED
  BY <1>1, Invariant, PTL

\* A process that can run has exactly the pages below p->sz, and the panics of
\* mappages(), copyuvm() and loaduvm() are never reached.
THEOREM ImageMatchesSizeHolds == Spec => []ImageMatchesSize
<1>1. IInv => ImageMatchesSize
  <2> SUFFICES ASSUME IInv PROVE ImageMatchesSize
    OBVIOUS
  <2>1. \A p \in Procs : CanRun(p) => image[p].pg = Below(sz[p])
    BY CanRunPages
  <2>2. QED
    BY <2>1 DEF IInv, ImageMatchesSize
<1>2. QED
  BY <1>1, Invariant, PTL

\* The guard page that exec() puts below the user stack stays mapped and out of
\* reach, in children and after every sbrk().
THEOREM StackGuardedHolds == Spec => []StackGuarded
<1>1. IInv => StackGuarded
  <2> SUFFICES ASSUME IInv, NEW p \in Procs, CanRun(p), stk[p] # 0
               PROVE  /\ stk[p] - 1 \in image[p].pg \cap image[p].sup
                      /\ stk[p] \notin image[p].sup
    BY DEF StackGuarded
  <2>1. image[p].pg = Below(sz[p]) /\ stk[p] \in image[p].pg /\ sz[p] \in Nat
        /\ image[p] \in Spaces /\ GuardInv(p)
    BY CanRunPages DEF IInv, CanRun, TypeOK, ProcInv
  <2>2. stk[p] - 1 \in image[p].sup /\ stk[p] \notin image[p].sup
    BY <2>1 DEF GuardInv
  <2>3. stk[p] - 1 \in Pages /\ stk[p] \in Nat /\ stk[p] < PGROUNDUP(sz[p])
    BY <2>1, <2>2, PagesOf DEF Spaces, Below
  <2>4. PGROUNDUP(sz[p]) \in Nat
    BY <2>1, RoundUp
  <2>5. stk[p] - 1 \in Below(sz[p])
    BY <2>3, <2>4 DEF Below
  <2>6. QED
    BY <2>1, <2>2, <2>5
<1>2. QED
  BY <1>1, Invariant, PTL

=============================================================================
