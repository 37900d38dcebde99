------------------------------- MODULE Kalloc -------------------------------
(***************************************************************************)
(* The kernel's heap: LinkedListAllocator (kalloc/linked_list.rs) and      *)
(* heap_init (kalloc.rs).  The list of free regions is a sequence; the     *)
(* nodes that the code keeps in the regions are their first NODE bytes.    *)
(* Every call holds the allocator's spinlock, so it is one step.           *)
(***************************************************************************)
EXTENDS Naturals, Sequences, SequencesExt, FiniteSets, FiniteSetsExt

CONSTANTS
  END,       \* the linker's `end`, where the heap starts
  PHYSTOP,   \* where it stops
  NODE,      \* size_of::<ListNode>()
  ALIGN,     \* align_of::<ListNode>()
  Layouts,   \* the layouts asked for: [size |-> , align |-> ]
  MaxLive    \* bound: allocations at a time

VARIABLES
  free,      \* the list: [start |-> , size |-> ] from head.next on
  live,      \* what callers own: [start |-> , layout |-> ]
  panicked   \* an assert! of add_free_region has failed

vars == <<free, live, panicked>>

-----------------------------------------------------------------------------
EndAddr(region) == region.start + region.size

AlignUp(addr, align) == ((addr + align - 1) \div align) * align

AlignOf(layout) == Max({layout.align, ALIGN})

\* size_align: a size that keeps what follows aligned and can hold a node.
SizeOf(layout) == Max({AlignUp(layout.size, AlignOf(layout)), NODE})

\* add_free_region's asserts, and the node that it puts in front.
Fits(addr, size) ==
  LET reduction == AlignUp(addr, ALIGN) - addr
  IN size > reduction /\ size - reduction >= NODE

NewNode(addr, size) ==
  [start |-> AlignUp(addr, ALIGN), size |-> size - (AlignUp(addr, ALIGN) - addr)]

AddFreeRegion(list, addr, size) ==
  IF Fits(addr, size)
  THEN free' = <<NewNode(addr, size)>> \o list /\ UNCHANGED panicked
  ELSE free' = list /\ panicked' = TRUE

-----------------------------------------------------------------------------
\* heap_init, which runs before any allocation.
Init ==
  /\ free = <<NewNode(END, PHYSTOP - END)>>
  /\ live = {}
  /\ panicked = ~Fits(END, PHYSTOP - END)

\* alloc_from_region is Ok.
AllocFromRegion(region, size, align) ==
  LET allocEnd == AlignUp(region.start, align) + size
      excess == EndAddr(region) - allocEnd
  IN /\ allocEnd <= EndAddr(region)
     /\ excess = 0 \/ excess >= NODE

Suitable(layout) ==
  {i \in DOMAIN free : AllocFromRegion(free[i], SizeOf(layout), AlignOf(layout))}

\* find_region takes the first suitable region out of the list.
Found(layout) == Min(Suitable(layout))

\* Where the rest of the region starts.
RestAt(region, allocEnd) == allocEnd

Alloc(layout) ==
  LET i == Found(layout)
      region == free[i]
      start == AlignUp(region.start, AlignOf(layout))
      end == start + SizeOf(layout)
      list == RemoveAt(free, i)
  IN /\ ~panicked /\ Cardinality(live) < MaxLive
     /\ Suitable(layout) # {}
     /\ live' = live \union {[start |-> start, layout |-> layout]}
     /\ IF EndAddr(region) > end
        THEN AddFreeRegion(list, RestAt(region, end), EndAddr(region) - end)
        ELSE free' = list /\ UNCHANGED panicked

\* The caller gives back what it owns, with the layout it asked with.
Dealloc(a) ==
  /\ ~panicked
  /\ live' = live \ {a}
  /\ AddFreeRegion(free, a.start, SizeOf(a.layout))

Next ==
  \/ \E layout \in Layouts : Alloc(layout)
  \/ \E a \in live : Dealloc(a)

Spec == Init /\ [][Next]_vars

-----------------------------------------------------------------------------
(***************************************************************************)
(* Properties.                                                             *)
(***************************************************************************)

\* Types of the list, whose nodes are aligned and fit into their regions, and
\* of what is owned.
TypeOK ==
  /\ free \in Seq([start : Nat, size : Nat])
  /\ \A i \in DOMAIN free : free[i].start % ALIGN = 0 /\ free[i].size >= NODE
  /\ \A a \in live : a.start \in Nat /\ a.layout \in Layouts
  /\ panicked \in BOOLEAN

Regions ==
  [k \in {<<"free", i>> : i \in DOMAIN free} \union {<<"live", a>> : a \in live} |->
     IF k[1] = "free" THEN free[k[2]]
     ELSE [start |-> k[2].start, size |-> SizeOf(k[2].layout)]]

\* No byte is owned by two callers, or by a caller and the list, and none lies
\* outside the heap.
Disjoint ==
  /\ \A k \in DOMAIN Regions : END <= Regions[k].start /\ EndAddr(Regions[k]) <= PHYSTOP
  /\ \A k, m \in DOMAIN Regions :
       k # m => \/ EndAddr(Regions[k]) <= Regions[m].start
                \/ EndAddr(Regions[m]) <= Regions[k].start

\* Every caller has the alignment and the size that it asked for.
AskedFor ==
  \A a \in live : a.start % a.layout.align = 0 /\ SizeOf(a.layout) >= a.layout.size

\* No sequence of calls reaches the asserts of add_free_region: a region that
\* is freed or left over can hold a node.
AssertsHold == ~panicked

Sizes == FoldLeft(LAMBDA n, r : n + r.size, 0, free)
         + FoldSet(LAMBDA a, n : n + SizeOf(a.layout), 0, live)

\* "This prevents memory regions from being lost" (linked_list.rs:60): all
\* of the heap is on the list or owned.
NothingLost == ~panicked => Sizes = PHYSTOP - AlignUp(END, ALIGN)
=============================================================================
