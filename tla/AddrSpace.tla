----------------------------- MODULE AddrSpace ------------------------------
(***************************************************************************)
(* User address spaces and the pages they take: page_table.rs, and who     *)
(* uses it: alloc_proc, fork, free, exec (proc/elf.rs), sbrk, mmap and the *)
(* page fault that fills a mapping.                                        *)
(*                                                                         *)
(* Memory is counted in pages.  A page table is the set of its valid       *)
(* leaves and the set of regions it has tables for; a region's two levels  *)
(* of tables are one page.  A call that needs several pages takes them one *)
(* by one and may find memory exhausted at each.                           *)
(***************************************************************************)
EXTENDS Integers, Sequences, SequencesExt, FiniteSetsExt

CONSTANTS
  Procs, InitProc, None,
  NPAGES,         \* pages of physical memory
  PAGESIZE,
  LOWPAGES,       \* pages of the low region
  VMAPAGES,       \* pages of the high region below TRAPFRAME
  MaxSz,          \* bound: size of a process
  Deltas,         \* arguments of sbrk
  Images,         \* sizes of programs
  MaxVma          \* bound: mappings of a process

ASSUME AddrSpaceAssumption ==
  /\ InitProc \in Procs
  /\ {NPAGES, MaxSz, MaxVma, LOWPAGES, VMAPAGES} \subseteq Nat /\ PAGESIZE \in Nat \ {0}
  /\ Deltas \subseteq Int /\ Images \subseteq Nat
  /\ MaxSz <= LOWPAGES * PAGESIZE

TRAPFRAME == LOWPAGES + VMAPAGES
TRAMPOLINE == TRAPFRAME + 1

VARIABLES
  avail,   \* free pages
  state,   \* of a process: "unused", "used", "zombie"
  tf,      \* does ProcData.trapframe point to a page?
  pt,      \* ProcData.page_table, or None
  sz,      \* ProcData.sz
  vmas,    \* ProcData.vm_area: ranges of pages, as <<start, end>>
  cur_max, \* ProcData.cur_max
  oom,     \* has an allocation failed?
  panic    \* "no", or where the kernel has panicked: "fault", "exec", "table"

vars == <<avail, state, tf, pt, sz, vmas, cur_max, oom, panic>>

-----------------------------------------------------------------------------
(***************************************************************************)
(* page_table.rs.  The functions work on a record m of the free pages, one *)
(* page table and a result: "ok", "err", or "panic".                       *)
(***************************************************************************)
AlignUp(a) == ((a + PAGESIZE - 1) \div PAGESIZE) * PAGESIZE
Page(a) == a \div PAGESIZE
PagesUpTo(a) == Page(AlignUp(a))          \* pages below address a
Region(va) == IF va < LOWPAGES THEN "low" ELSE "high"
Fails(m, why) == [m EXCEPT !.res = why]

WalkAlloc(m, va) ==
  IF Region(va) \in m.pt.tabs THEN m
  ELSE IF m.avail = 0 THEN Fails(m, "err")
  ELSE [m EXCEPT !.avail = @ - 1, !.pt.tabs = @ \union {Region(va)}]

MapPages(m, va) ==
  LET w == WalkAlloc(m, va)
  IN IF w.res # "ok" THEN w
     ELSE IF va \in w.pt.leaf THEN Fails(w, "err")
     ELSE [w EXCEPT !.pt.leaf = @ \union {va}]

\* Mutant: a page that could not be mapped is freed by callee and caller.
MapNewTwice(m, va) ==
  IF m.res # "ok" THEN m
  ELSE IF m.avail = 0 THEN Fails(m, "err")
  ELSE LET w == MapPages([m EXCEPT !.avail = @ - 1], va)
       IN IF w.res = "ok" THEN w ELSE [w EXCEPT !.avail = @ + 2]

\* One turn of the loops of uvm_alloc and uvm_copy: a new page, mapped at va.
MapNew(m, va) ==
  IF m.res # "ok" THEN m
  ELSE IF m.avail = 0 THEN Fails(m, "err")
  ELSE LET w == MapPages([m EXCEPT !.avail = @ - 1], va)
       IN IF w.res = "ok" THEN w ELSE [w EXCEPT !.avail = @ + 1]

UnmapPage(m, va, freeing) ==
  IF m.res # "ok" THEN m
  ELSE IF va \notin m.pt.leaf THEN Fails(m, "err")
  ELSE [m EXCEPT !.avail = IF freeing THEN @ + 1 ELSE @, !.pt.leaf = @ \ {va}]

\* From page i, n pages.
MapRange(m, i, n) == FoldLeft(MapNew, m, [k \in 1..n |-> i + k - 1])
UnmapPages(m, i, n, freeing) ==
  FoldLeft(LAMBDA a, va : UnmapPage(a, va, freeing), m, [k \in 1..n |-> i + k - 1])

\* The error path calls uvm_dealloc(oldsz, newsz), which returns at once
\* because newsz >= oldsz.
UvmAlloc(m, oldsz, newsz) ==
  IF newsz <= oldsz THEN m
  ELSE MapRange(m, PagesUpTo(oldsz), PagesUpTo(newsz) - PagesUpTo(oldsz))

\* A newsz below 0 has wrapped around: it is not smaller than oldsz.
Shrinks(oldsz, newsz) == 0 <= newsz /\ newsz < oldsz

UvmDealloc(m, oldsz, newsz) ==
  IF ~Shrinks(oldsz, newsz) THEN m
  ELSE UnmapPages(m, PagesUpTo(newsz), PagesUpTo(oldsz) - PagesUpTo(newsz), TRUE)

\* The size that uvm_dealloc returns.
DeallocSz(oldsz, newsz) == IF Shrinks(oldsz, newsz) THEN AlignUp(newsz) ELSE oldsz

UnmapUserPageTable(m, size) ==
  LET a == UnmapPages(m, TRAMPOLINE, 1, FALSE)
      b == UnmapPages(a, TRAPFRAME, 1, FALSE)
      c == UnmapPages(b, 0, PagesUpTo(size), TRUE)
  IN IF c.res = "err" THEN Fails(c, "panic") ELSE c

\* Drop for PageTable: frees the tables, panics on a leaf.
DropTable(m) ==
  IF m.res = "panic" THEN m
  ELSE IF m.pt.leaf # {} THEN Fails(m, "panic")
  ELSE [m EXCEPT !.avail = @ + 1 + Cardinality(m.pt.tabs), !.pt = None]

\* alloc_user_page_table: the root, the trampoline, the trapframe; what it
\* has made is dropped if it fails.
AllocUserPageTable(free) ==
  LET none == [avail |-> free, pt |-> None, res |-> "err"]
      root == [avail |-> free - 1, pt |-> [tabs |-> {}, leaf |-> {}], res |-> "ok"]
      a == MapPages(root, TRAMPOLINE)
      b == IF a.res = "ok" THEN MapPages(a, TRAPFRAME) ELSE a
  IN IF free = 0 THEN none
     ELSE IF b.res = "ok" THEN b
     ELSE Fails(DropTable([b EXCEPT !.res = "ok"]), IF b.pt.leaf = {} THEN "err" ELSE "panic")

M(p) == [avail |-> avail, pt |-> pt[p], res |-> "ok"]

-----------------------------------------------------------------------------
\* The first process: user_init.
Init ==
  LET t == AllocUserPageTable(NPAGES - 1)
      m == MapNew(t, 0)
  IN /\ avail = m.avail
     /\ state = [p \in Procs |-> IF p = InitProc THEN "used" ELSE "unused"]
     /\ tf = [p \in Procs |-> p = InitProc]
     /\ pt = [p \in Procs |-> IF p = InitProc THEN m.pt ELSE None]
     /\ sz = [p \in Procs |-> IF p = InitProc THEN PAGESIZE ELSE 0]
     /\ vmas = [p \in Procs |-> {}]
     /\ cur_max = [p \in Procs |-> TRAPFRAME]
     /\ oom = FALSE /\ panic = "no"

Running(p) == state[p] = "used" /\ panic = "no"

PanicIf(m, where) == IF m.res = "panic" THEN where ELSE "no"

\* The record m is what becomes of the free pages and of p's page table.
Commit(p, m) ==
  /\ avail' = m.avail
  /\ pt' = [pt EXCEPT ![p] = m.pt]
  /\ panic' = PanicIf(m, "table")

(***************************************************************************)
(* sys_sbrk.                                                               *)
(***************************************************************************)
Sbrk(p, n) ==
  LET new == sz[p] + n
      m == IF n >= 0 THEN UvmAlloc(M(p), sz[p], new) ELSE UvmDealloc(M(p), sz[p], new)
  IN /\ Running(p) /\ new <= MaxSz
     /\ Commit(p, m)
     /\ oom' = (oom \/ (n >= 0 /\ m.res = "err"))
     /\ sz' = [sz EXCEPT ![p] = IF m.res # "ok" THEN @
                                ELSE IF n >= 0 THEN new ELSE DeallocSz(@, new)]
     /\ UNCHANGED <<state, tf, vmas, cur_max>>

\* sys_mmap of n pages: no page is taken.
Mmap(p, n) ==
  LET start == cur_max[p] - n
  IN /\ Running(p)
     /\ start >= LOWPAGES /\ Cardinality(vmas[p]) < MaxVma
     /\ vmas' = [vmas EXCEPT ![p] = @ \union {<<start, cur_max[p]>>}]
     /\ cur_max' = [cur_max EXCEPT ![p] = start]
     /\ UNCHANGED <<avail, state, tf, pt, sz, oom, panic>>

VmaPages(p) == UNION {r[1] .. r[2] - 1 : r \in vmas[p]}

\* A fault in a mapping, lazy_mmap.  handle_trap panics when there is no page,
\* or no table for it, and when the mapping's file cannot be read.
LazyMmap(p, va, readable) ==
  LET m == IF avail = 0 THEN Fails(M(p), "err") ELSE MapPages([M(p) EXCEPT !.avail = @ - 1], va)
  IN /\ Running(p)
     /\ va \in VmaPages(p) /\ va \notin pt[p].leaf
     /\ avail' = m.avail
     /\ pt' = [pt EXCEPT ![p] = m.pt]
     /\ panic' = IF m.res = "err" \/ ~readable THEN "fault" ELSE "no"
     /\ oom' = (oom \/ m.res = "err")
     /\ UNCHANGED <<state, tf, sz, vmas, cur_max>>

\* A fault elsewhere, a program's error: no mapping has the address or, at the
\* end of the highest one (`<= addr_end`), the trapframe's page is in the way.
Fault(p) ==
  /\ Running(p)
  /\ panic' = "fault"
  /\ UNCHANGED <<avail, state, tf, pt, sz, vmas, cur_max, oom>>

-----------------------------------------------------------------------------
\* Mutant: free forgets the mappings.
FreeMmapNot(m, p) == m

\* The second part of free: pages of the mappings.
FreeMmap(m, p) ==
  LET mapped == VmaPages(p) \intersect m.pt.leaf
  IN IF m.res # "ok" THEN m
     ELSE [m EXCEPT !.avail = @ + Cardinality(mapped), !.pt.leaf = @ \ mapped]

\* Proc::free: the trapframe, the process's pages, its page table.
Free(p, m, size) ==
  LET a == IF tf[p] THEN [m EXCEPT !.avail = @ + 1] ELSE m
  IN DropTable(FreeMmap(UnmapUserPageTable(a, size), p))

Exit(p) ==
  /\ Running(p) /\ p # InitProc
  /\ state' = [state EXCEPT ![p] = "zombie"]
  /\ UNCHANGED <<avail, tf, pt, sz, vmas, cur_max, oom, panic>>

\* What free leaves in the slot.
Slot(p, m) ==
  /\ Commit(p, m)
  /\ state' = [state EXCEPT ![p] = "unused"]
  /\ tf' = [tf EXCEPT ![p] = FALSE]
  /\ sz' = [sz EXCEPT ![p] = 0]
  /\ vmas' = [vmas EXCEPT ![p] = {}]
  /\ cur_max' = [cur_max EXCEPT ![p] = TRAPFRAME]

\* wait frees a zombie.
Reap(p) ==
  /\ state[p] = "zombie" /\ panic = "no"
  /\ Slot(p, Free(p, M(p), sz[p]))
  /\ UNCHANGED oom

-----------------------------------------------------------------------------
(***************************************************************************)
(* fork: alloc_proc with init_page_table, then uvm_copy.                   *)
(***************************************************************************)

\* The child has a trapframe and a page table, but no sz yet.
Allocated(c) ==
  IF avail = 0 THEN [avail |-> 0, pt |-> None, res |-> "err"]
  ELSE AllocUserPageTable(avail - 1)

CopyPages(p) == PagesUpTo(sz[p])

\* uvm_copy panics where the parent has no page.
UvmCopy(m, p) ==
  IF ~(0 .. CopyPages(p) - 1 \subseteq pt[p].leaf) THEN Fails(m, "panic")
  ELSE MapRange(m, 0, CopyPages(p))

\* init_page_table fails: the slot stays unused, with the trapframe it has
\* got, if any, which the next use of the slot overwrites.
ForkNoProc(p, c) ==
  /\ Running(p) /\ state[c] = "unused"
  /\ Allocated(c).res # "ok"
  /\ avail' = Allocated(c).avail
  /\ tf' = [tf EXCEPT ![c] = @ \/ avail > 0]
  /\ panic' = PanicIf(Allocated(c), "table")
  /\ oom' = TRUE
  /\ UNCHANGED <<state, pt, sz, vmas, cur_max>>

ForkCopies(p, c) ==
  LET m == UvmCopy(Allocated(c), p)
  IN /\ Running(p) /\ state[c] = "unused"
     /\ Allocated(c).res = "ok"
     /\ m.res # "err"
     /\ Commit(c, m)
     /\ tf' = [tf EXCEPT ![c] = TRUE]
     /\ state' = [state EXCEPT ![c] = "used"]
     /\ sz' = [sz EXCEPT ![c] = sz[p]]
     /\ UNCHANGED <<vmas, cur_max, oom>>

\* uvm_copy fails: the child is freed, with its sz still 0.
ForkFails(p, c) ==
  LET m == UvmCopy(Allocated(c), p)
      a == [m EXCEPT !.res = "ok", !.avail = @ + 1]
  IN /\ Running(p) /\ state[c] = "unused"
     /\ Allocated(c).res = "ok"
     /\ m.res = "err"
     /\ Slot(c, DropTable(UnmapUserPageTable(a, 0)))
     /\ oom' = TRUE

Fork(p, c) == ForkNoProc(p, c) \/ ForkCopies(p, c) \/ ForkFails(p, c)

-----------------------------------------------------------------------------
(***************************************************************************)
(* exec of a program of n bytes: a new page table, the program, two pages  *)
(* of stack.  Any error unmaps the size reached so far and drops the new   *)
(* table; `bad` is an error of the file or of the arguments.               *)
(***************************************************************************)

\* The new table, dropped.
Discard(m, size) == DropTable(UnmapUserPageTable([m EXCEPT !.res = "ok"], size))

\* Mutant: the old table's pages are not freed.
OldTableLeaks(m, p) == m
OldTable(m, p) ==
  LET old == DropTable(UnmapUserPageTable([avail |-> m.avail, pt |-> pt[p], res |-> "ok"], sz[p]))
  IN [m EXCEPT !.avail = old.avail, !.res = old.res]

\* What exec has at the end: p's page table, its size, and how it went.
Exec(p, n, bad) ==
  LET new == AllocUserPageTable(avail)
      prog == UvmAlloc(new, 0, n)
      all == UvmAlloc(prog, AlignUp(n), AlignUp(n) + 2 * PAGESIZE)
      fails(m) == /\ avail' = m.avail
                  /\ panic' = PanicIf(m, "table")
                  /\ UNCHANGED <<pt, sz>>
  IN /\ Running(p)
     /\ AlignUp(n) + 2 * PAGESIZE <= MaxSz
     /\ IF new.res # "ok" THEN fails(new)
        ELSE IF prog.res # "ok" THEN fails(Discard(prog, 0))
        ELSE IF all.res # "ok" THEN fails(Discard(all, AlignUp(n)))
        ELSE IF bad THEN fails(Discard(all, AlignUp(n) + 2 * PAGESIZE))
        ELSE /\ avail' = OldTable(all, p).avail
             /\ pt' = [pt EXCEPT ![p] = all.pt]
             /\ panic' = PanicIf(OldTable(all, p), "exec")
             /\ sz' = [sz EXCEPT ![p] = AlignUp(n) + 2 * PAGESIZE]
     /\ oom' = (oom \/ all.res # "ok")
     /\ UNCHANGED <<state, tf, vmas, cur_max>>

-----------------------------------------------------------------------------
Next ==
  \E p \in Procs :
    \/ \E n \in Deltas : Sbrk(p, n)
    \/ \E n \in 1..VMAPAGES : Mmap(p, n)
    \/ \E va \in LOWPAGES .. TRAPFRAME - 1, readable \in BOOLEAN : LazyMmap(p, va, readable)
    \/ Fault(p)
    \/ \E c \in Procs : Fork(p, c)
    \/ \E n \in Images, bad \in BOOLEAN : Exec(p, n, bad)
    \/ Exit(p) \/ Reap(p)

Spec == Init /\ [][Next]_vars

-----------------------------------------------------------------------------
(***************************************************************************)
(* Properties.                                                             *)
(***************************************************************************)
Tables == [tabs : SUBSET {"low", "high"}, leaf : SUBSET (0..TRAMPOLINE)] \union {None}

\* Types of ProcData's memory part.
TypeOK ==
  /\ avail \in 0..NPAGES
  /\ state \in [Procs -> {"unused", "used", "zombie"}]
  /\ tf \in [Procs -> BOOLEAN]
  /\ pt \in [Procs -> Tables]
  /\ sz \in [Procs -> 0..MaxSz]
  /\ \A p \in Procs : vmas[p] \subseteq (LOWPAGES..TRAPFRAME) \X (LOWPAGES..TRAPFRAME)
  /\ cur_max \in [Procs -> LOWPAGES..TRAPFRAME]
  /\ oom \in BOOLEAN /\ panic \in {"no", "fault", "exec", "table"}

\* Pages that a process owns: trapframe, tables, memory.
Owned(p) ==
  (IF tf[p] THEN 1 ELSE 0) +
  (IF pt[p] = None THEN 0
   ELSE 1 + Cardinality(pt[p].tabs) + Cardinality(pt[p].leaf \ {TRAMPOLINE, TRAPFRAME}))

\* As long as memory lasts every page is free or belongs to one process: fork,
\* exec, sbrk, faults and exits neither lose a page nor free one twice.
PagesAccounted ==
  panic = "no" /\ ~oom => avail + MapThenSumSet(Owned, Procs) = NPAGES

\* Even when memory runs out, in the middle of whatever call, no page is
\* freed twice or given out twice; some are lost (proc.rs:217, page_table.rs:147).
PagesNotTwice ==
  panic = "no" => avail + MapThenSumSet(Owned, Procs) <= NPAGES

\* As long as memory lasts a process has a page at each address below sz, and
\* but for its mappings nothing above: uvm_copy and unmap_pages find what they
\* expect.
SzIsMapped ==
  panic = "no" /\ ~oom => \A p \in Procs : state[p] # "unused" =>
    pt[p].leaf \ VmaPages(p) = 0 .. PagesUpTo(sz[p]) - 1 \union {TRAMPOLINE, TRAPFRAME}

\* The ranges of a process's mappings do not meet, nor do they meet its memory.
MappingsDisjoint ==
  \A p \in Procs :
    /\ \A r, s \in vmas[p] : r # s => r[2] <= s[1] \/ s[2] <= r[1]
    /\ \A r \in vmas[p] : cur_max[p] <= r[1] /\ PagesUpTo(sz[p]) <= r[1]

\* A page table is dropped without leaves, "phys memory should already be
\* freed" (page_table.rs:529), and the expects of unmap_user_page_table hold:
\* as long as memory lasts no sequence of calls makes the kernel panic over a
\* page table, but for exec by a process that has touched a mapping, whose
\* pages exec does not unmap (elf.rs:200).
TablesEmptyWhenDropped ==
  [][panic' \in {"exec", "table"} =>
       \/ oom'
       \/ panic' = "exec" /\ \E p \in Procs :
            pt'[p] # pt[p] /\ VmaPages(p) \intersect pt[p].leaf # {}]_vars
=============================================================================
