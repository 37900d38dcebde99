----------------------------- MODULE InodeTable -----------------------------
(***************************************************************************)
(* The table of in-memory inodes (fs.rs): iget, idup, ilock, iput, ialloc  *)
(* and the changes of the link count by create and unlink, for the files   *)
(* of one directory.                                                       *)
(*                                                                         *)
(* The table's `meta` is behind a spinlock, each entry's data behind a     *)
(* sleep-lock.  iget drops `meta` before it clears the data of an entry    *)
(* that it reuses, and iput frees an inode before it takes `meta` again to *)
(* count its reference out: a system call runs with interrupts off, so on  *)
(* one CPU nobody runs in between; with more (smp) others do.  A process   *)
(* has one inode at a time.                                                *)
(***************************************************************************)
EXTENDS Naturals, FiniteSets

CONSTANTS
  Procs,
  Inums,     \* inode numbers, in the order ialloc looks
  NINODE,    \* entries of the table
  None

ASSUME InodeTableAssumption ==
  /\ Inums \subseteq Nat
  /\ NINODE \in Nat /\ IsFiniteSet(Procs)
  /\ None \notin Procs \union Inums \union (1..NINODE)

Entries == 1..NINODE
Dinode == [used : BOOLEAN, nlink : 0..1]

VARIABLES
  smp,      \* does the machine have more than one CPU?
  meta,     \* InodeMeta: inum and refcnt
  data,     \* InodeData: the inum of `valid`, or None, and the dinode
  dlock,    \* who holds an entry's data
  disk,     \* the inodes on the disk, through the log
  dirent,   \* inodes with an entry in the directory
  dirlock,  \* who holds the directory's data
  pc,       \* where a process is
  want,     \* Inode.inum of its inode
  cur,      \* Inode.index
  panic     \* "no entry" or "no inode" once iget or ialloc has found none

\* smp and, until Halt, panic do not change: Next says so, not the actions.
vars == <<smp, meta, data, dlock, disk, dirent, dirlock, pc, want, cur, panic>>

Init ==
  /\ smp \in BOOLEAN
  /\ meta = [i \in Entries |-> [inum |-> None, refcnt |-> 0]]
  /\ data = [i \in Entries |-> [valid |-> None, dinode |-> [used |-> FALSE, nlink |-> 0]]]
  /\ dlock = [i \in Entries |-> None]
  /\ dirent \in SUBSET Inums
  /\ disk = [n \in Inums |-> IF n \in dirent THEN [used |-> TRUE, nlink |-> 1]
                                             ELSE [used |-> FALSE, nlink |-> 0]]
  /\ dirlock = None
  /\ pc = [p \in Procs |-> "idle"]
  /\ want = [p \in Procs |-> None]
  /\ cur = [p \in Procs |-> None]
  /\ panic = "none"

Goto(p, loc) == pc' = [pc EXCEPT ![p] = loc]

-----------------------------------------------------------------------------
(***************************************************************************)
(* iget: the entry that has the inode, referenced or not, or else the      *)
(* first one without a reference.                                          *)
(***************************************************************************)
Having(n) == {i \in Entries : meta[i].inum = n}

Unreferenced == {i \in Entries : meta[i].refcnt = 0}

\* Where a loop over the numbers in S stops: at its least, if it has any.
First(S) == {x \in S : \A y \in S : x <= y}

Clear(i) == [data EXCEPT ![i].valid = None]

Iget(p, n, loc) ==
  LET found == Having(n) # {}
  IN \E i \in First(IF found THEN Having(n) ELSE Unreferenced) :
       /\ meta' = [meta EXCEPT ![i] =
            [inum |-> n, refcnt |-> IF found THEN @.refcnt + 1 ELSE 1]]
       /\ data' = IF found \/ smp THEN data ELSE Clear(i)
       /\ want' = [want EXCEPT ![p] = n]
       /\ cur' = [cur EXCEPT ![p] = i]
       /\ Goto(p, IF found \/ ~smp THEN loc
                  ELSE CASE loc = "ref"    -> "clear"
                         [] loc = "create" -> "clear_create"
                         [] loc = "unlink" -> "clear_unlink")

\* The end of iget for an entry that is reused.
IgetClear(p) ==
  /\ pc[p] \in {"clear", "clear_create", "clear_unlink"}
  /\ dlock[cur[p]] = None
  /\ data' = Clear(cur[p])
  /\ Goto(p, CASE pc[p] = "clear"        -> "ref"
               [] pc[p] = "clear_create" -> "create"
               [] pc[p] = "clear_unlink" -> "unlink")
  /\ UNCHANGED <<meta, dlock, disk, dirent, dirlock, want, cur>>

\* iget's `empty.unwrap()` panics, with `meta` locked.
NoEntry(n) == Having(n) = {} /\ Unreferenced = {}

-----------------------------------------------------------------------------
(***************************************************************************)
(* How a process comes by an inode.                                        *)
(***************************************************************************)

\* dirlookup, with the directory locked; unlink keeps it locked.
Lookup(p, n) ==
  /\ pc[p] = "idle" /\ dirlock = None
  /\ n \in dirent
  /\ \/ Iget(p, n, "ref") /\ UNCHANGED dirlock
     \/ Iget(p, n, "unlink") /\ dirlock' = p
  /\ UNCHANGED <<dlock, disk, dirent>>

\* create locks the directory, and ialloc marks the first free inode.
Ialloc(p) ==
  /\ pc[p] = "idle" /\ dirlock = None
  /\ \E n \in First({m \in Inums : ~disk[m].used}) :
       /\ disk' = [disk EXCEPT ![n] = [used |-> TRUE, nlink |-> 0]]
       /\ Iget(p, n, "create")
  /\ dirlock' = p
  /\ UNCHANGED <<dlock, dirent>>

\* The panics of dirlookup and create: no entry for the inode, the new inode
\* already marked, or "no free inodes".
Halt(p) ==
  /\ pc[p] = "idle" /\ dirlock = None
  /\ \/ /\ \E n \in dirent : NoEntry(n)
        /\ panic' = "no entry"
        /\ UNCHANGED disk
     \/ \E n \in First({m \in Inums : ~disk[m].used}) :
          /\ NoEntry(n)
          /\ panic' = "no entry"
          /\ disk' = [disk EXCEPT ![n] = [used |-> TRUE, nlink |-> 0]]
     \/ /\ \A n \in Inums : disk[n].used
        /\ panic' = "no inode"
        /\ UNCHANGED disk
  /\ dirlock' = p
  /\ UNCHANGED <<meta, data, dlock, dirent, pc, want, cur>>

\* Mutant: no reference is counted.
IdupUncounted(p, q) ==
  /\ pc[p] = "ref" /\ pc[q] = "idle"
  /\ want' = [want EXCEPT ![q] = want[p]]
  /\ cur' = [cur EXCEPT ![q] = cur[p]]
  /\ Goto(q, "ref")
  /\ UNCHANGED <<meta, data, dlock, disk, dirent, dirlock>>

\* idup, for a child's cwd.
Idup(p, q) ==
  /\ pc[p] = "ref" /\ pc[q] = "idle"
  /\ meta' = [meta EXCEPT ![cur[p]].refcnt = @ + 1]
  /\ want' = [want EXCEPT ![q] = want[p]]
  /\ cur' = [cur EXCEPT ![q] = cur[p]]
  /\ Goto(q, "ref")
  /\ UNCHANGED <<data, dlock, disk, dirent, dirlock>>

-----------------------------------------------------------------------------
(***************************************************************************)
(* ilock, and what is done with a locked inode.                            *)
(***************************************************************************)
Locked(loc) ==
  CASE loc = "ref" -> "locked" [] loc = "create" -> "creating" [] loc = "unlink" -> "unlinking"

\* ilock reads the inode if it is not valid; panics if it has no type.
Ilock(p) ==
  LET i == cur[p]
      load == data[i].valid = None
  IN /\ pc[p] \in {"ref", "create", "unlink"} /\ dlock[i] = None
     /\ dlock' = [dlock EXCEPT ![i] = p]
     /\ data' = IF load THEN [data EXCEPT ![i] = [valid |-> want[p], dinode |-> disk[want[p]]]]
                        ELSE data
     /\ Goto(p, IF load /\ ~disk[want[p]].used THEN "panic" ELSE Locked(pc[p]))
     /\ UNCHANGED <<meta, disk, dirent, dirlock, want, cur>>

Iunlock(p) ==
  /\ pc[p] = "locked"
  /\ dlock' = [dlock EXCEPT ![cur[p]] = None]
  /\ Goto(p, "ref")
  /\ UNCHANGED <<meta, data, disk, dirent, dirlock, want, cur>>

\* iupdate writes the inode that the data says it is.
Iupdate(i, d) ==
  /\ data' = [data EXCEPT ![i].dinode = d]
  /\ disk' = [disk EXCEPT ![data[i].valid] = d]

\* The rest of create: link count 1, then the entry in the directory.
CreateLink(p) ==
  LET i == cur[p]
  IN /\ pc[p] = "creating"
     /\ Iupdate(i, [used |-> TRUE, nlink |-> 1])
     /\ dlock' = [dlock EXCEPT ![i] = None]
     /\ dirent' = dirent \union {want[p]}
     /\ dirlock' = None
     /\ Goto(p, "ref")
     /\ UNCHANGED <<meta, want, cur>>

\* Mutant: the link count stays.
UnlinkKeepsCount(p) ==
  LET i == cur[p]
  IN /\ pc[p] = "unlinking"
     /\ dirent' = dirent \ {want[p]}
     /\ dirlock' = None
     /\ dlock' = [dlock EXCEPT ![i] = None]
     /\ Goto(p, "ref")
     /\ UNCHANGED <<meta, data, disk, want, cur>>

\* The rest of unlink: no entry, then one link less; panics if there is none.
Unlink(p) ==
  LET i == cur[p]
      d == data[i].dinode
  IN /\ pc[p] = "unlinking"
     /\ IF d.nlink < 1
        THEN Goto(p, "panic") /\ UNCHANGED <<data, dlock, disk, dirent, dirlock>>
        ELSE /\ dirent' = dirent \ {want[p]}
             /\ dirlock' = None
             /\ Iupdate(i, [d EXCEPT !.nlink = @ - 1])
             /\ dlock' = [dlock EXCEPT ![i] = None]
             /\ Goto(p, "ref")
     /\ UNCHANGED <<meta, want, cur>>

-----------------------------------------------------------------------------
(***************************************************************************)
(* iput, when an Inode is dropped.                                         *)
(***************************************************************************)

\* Mutant: the test for the last reference is forgotten.
LastRefAny(i) == TRUE
LastRef(i) == meta[i].refcnt = 1

\* The inode has no links and no other references.
ToFree(i) == LastRef(i) /\ data[i].valid # None /\ data[i].dinode.nlink = 0

Release(p) ==
  /\ meta' = [meta EXCEPT ![cur[p]].refcnt = @ - 1]
  /\ want' = [want EXCEPT ![p] = None]
  /\ cur' = [cur EXCEPT ![p] = None]
  /\ Goto(p, "idle")

Iput(p) ==
  /\ pc[p] = "ref"
  /\ ~ToFree(cur[p])
  /\ Release(p)
  /\ UNCHANGED <<data, dlock, disk, dirent, dirlock>>

\* Lock the data, with `meta` still locked, then drop `meta`.
IputLast(p) ==
  /\ pc[p] = "ref"
  /\ ToFree(cur[p])
  /\ dlock' = [dlock EXCEPT ![cur[p]] = p]
  /\ Goto(p, "free")
  /\ UNCHANGED <<meta, data, disk, dirent, dirlock, want, cur>>

\* itrunc, then the inode is free on the disk and not valid in memory.
IputFree(p) ==
  LET i == cur[p]
      d == [used |-> FALSE, nlink |-> 0]
  IN /\ pc[p] = "free"
     /\ disk' = [disk EXCEPT ![data[i].valid] = d]
     /\ data' = [data EXCEPT ![i] = [valid |-> None, dinode |-> d]]
     /\ dlock' = [dlock EXCEPT ![i] = None]
     /\ IF smp THEN Goto(p, "freed") /\ UNCHANGED <<meta, want, cur>> ELSE Release(p)
     /\ UNCHANGED <<dirent, dirlock>>

IputFreed(p) ==
  /\ pc[p] = "freed"
  /\ Release(p)
  /\ UNCHANGED <<data, dlock, disk, dirent, dirlock>>

-----------------------------------------------------------------------------
Step(p) ==
  \/ \E n \in Inums : Lookup(p, n)
  \/ \E q \in Procs : Idup(p, q)
  \/ Ialloc(p) \/ IgetClear(p) \/ Ilock(p) \/ Iunlock(p) \/ CreateLink(p) \/ Unlink(p)
  \/ Iput(p) \/ IputLast(p) \/ IputFree(p) \/ IputFreed(p)

\* Nothing is said of what other CPUs do after Halt.
Next ==
  /\ panic = "none" /\ UNCHANGED smp
  /\ \E p \in Procs : (Step(p) /\ UNCHANGED panic) \/ Halt(p)

Spec == Init /\ [][Next]_vars

-----------------------------------------------------------------------------
(***************************************************************************)
(* Properties.                                                             *)
(***************************************************************************)
HasLock == {"locked", "creating", "unlinking", "free"}
Refs(i) == {p \in Procs : cur[p] = i}

\* Types of InodeTable, InodeMeta, InodeData and Inode.
TypeOK ==
  /\ meta \in [Entries -> [inum : Inums \union {None}, refcnt : Nat]]
  /\ data \in [Entries -> [valid : Inums \union {None}, dinode : Dinode]]
  /\ dlock \in [Entries -> Procs \union {None}]
  /\ disk \in [Inums -> Dinode]
  /\ dirent \subseteq Inums
  /\ dirlock \in Procs \union {None}
  /\ pc \in [Procs -> {"idle", "ref", "create", "unlink", "clear", "clear_create",
                       "clear_unlink", "freed", "panic"} \union HasLock]
  /\ want \in [Procs -> Inums \union {None}]
  /\ cur \in [Procs -> Entries \union {None}]
  /\ panic \in {"none", "no entry", "no inode"}

\* An inode is in one entry of the table at most, so that all who use it meet
\* at the same lock.
OneEntry ==
  \A i, j \in Entries : i # j /\ meta[i].inum = meta[j].inum => meta[i].inum = None

\* The count of an entry is the number of Inode values that refer to it, and
\* they all want the inode the entry has.
RefcntCounts ==
  \A i \in Entries :
    /\ meta[i].refcnt = Cardinality(Refs(i))
    /\ \A p \in Refs(i) : want[p] = meta[i].inum

\* "refcnt == 1 means no other process can have the inode locked, so this
\* sleep-lock won't block/deadlock" (fs.rs:132): iput does not sleep while it
\* holds `meta`.
IputDoesNotBlock ==
  \A p \in Procs : pc[p] = "ref" /\ meta[cur[p]].refcnt = 1 => dlock[cur[p]] = None

\* "the information in an node table entry is only correct when `valid` is
\* some" (fs.rs:20): who has locked an inode has the inode it asked for.  Holds
\* with one CPU; with more, iget clears `valid` too late.
LockedIsWanted ==
  ~smp => \A p \in Procs : pc[p] \in HasLock => data[cur[p]].valid = want[p]

\* With one CPU an inode that someone refers to, or that is in the directory, is not free
\* on the disk: ilock's "no type" and unlink's "nlink < 1" do not happen.
InUseNotFree ==
  ~smp =>
  /\ \A p \in Procs : pc[p] \in {"ref", "create", "unlink"} \union HasLock => disk[want[p]].used
  /\ \A n \in dirent : disk[n].used
  /\ \A p \in Procs : pc[p] # "panic"

\* iget panics for want of an entry only when each entry is somebody's inode:
\* no sequence of iget, idup and iput, on any number of CPUs, loses an entry.
NoEntryMeansHeld == panic = "no entry" => \A i \in Entries : Refs(i) # {}

\* With one CPU an inode without a link and without a reference is free on the
\* disk, so that unlinked files do not leak.
NoLeak ==
  ~smp /\ panic = "none" => \A n \in Inums : disk[n].used =>
    n \in dirent \/ \E p \in Procs : want[p] = n

\* With one CPU the link count on the disk is 1 exactly for the inodes in the
\* directory.
LinkCounts ==
  ~smp => \A n \in Inums :
    disk[n].nlink = 1 <=> n \in dirent
=============================================================================
