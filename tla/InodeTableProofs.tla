-------------------------- MODULE InodeTableProofs --------------------------
(***************************************************************************)
(* Proofs about InodeTable, for every number of processes, inodes and      *)
(* entries of the table, on one CPU and on several.                        *)
(***************************************************************************)
EXTENDS InodeTable, TLAPS

\* A leaf that names no prover is tried with the SMT solver, then with Zenon and
\* then, with more time, with the SMT solver again.
USE SMTT(10), Zenon, SMTT(30)

-----------------------------------------------------------------------------
(***************************************************************************)
(* The inductive invariant.                                                *)
(***************************************************************************)
Places == {"idle", "ref", "create", "unlink", "clear", "clear_create",
           "clear_unlink", "freed", "panic"} \union HasLock

\* The types of what iget and iput change.
RefTypes ==
  /\ meta \in [Entries -> [inum : Inums \union {None}, refcnt : Nat]]
  /\ want \in [Procs -> Inums \union {None}]
  /\ cur \in [Procs -> Entries \union {None}]

Types ==
  /\ RefTypes
  /\ dlock \in [Entries -> Procs \union {None}]
  /\ pc \in [Procs -> Places]

\* A process is idle exactly when it has no inode.
IdleHasNone == \A p \in Procs : pc[p] = "idle" <=> cur[p] = None

\* Who holds an entry's data refers to the entry, and is at a step that does.
HoldersRefer ==
  \A i \in Entries : dlock[i] # None =>
    /\ cur[dlock[i]] = i
    /\ pc[dlock[i]] \in HasLock \union {"panic"}

IInv == Types /\ IdleHasNone /\ HoldersRefer /\ RefcntCounts

\* What the counts tell, once they are right: whether an entry has no reference
\* and whether one is its last.
CountsTell ==
  \A i \in Entries :
    /\ meta[i].refcnt = 0 => Refs(i) = {}
    /\ meta[i].refcnt = 1 => \A p, q \in Refs(i) : p = q
    /\ meta[i].refcnt # 1 => \A p \in Refs(i) : \E q \in Refs(i) : q # p

-----------------------------------------------------------------------------
(***************************************************************************)
(* One CPU.  With interrupts off in system calls nobody runs between two   *)
(* critical sections of iget or of iput, and more can be said: what an     *)
(* entry of the table holds is what is on the disk, a reference keeps the  *)
(* inode allocated, and an inode that nobody can reach is freed.           *)
(***************************************************************************)
DataTypes ==
  /\ data \in [Entries -> [valid : Inums \union {None}, dinode : Dinode]]
  /\ disk \in [Inums -> Dinode]
  /\ dirent \subseteq Inums

\* The places between two critical sections, and the panics, are not reached.
OneCpuPlaces == \A p \in Procs : pc[p] \in {"idle", "ref", "create", "unlink"} \union HasLock

\* Valid data is that of the entry's inode, as it is on the disk.
ValidIsDisk ==
  \A i \in Entries : data[i].valid # None =>
    /\ data[i].valid = meta[i].inum
    /\ data[i].dinode = disk[data[i].valid]
    /\ disk[data[i].valid].used

\* Who has locked an inode has its data.
LockedValid ==
  \A p \in Procs : pc[p] \in HasLock => dlock[cur[p]] = p /\ data[cur[p]].valid # None

\* A reference is to an inode that is allocated.
RefUsed == \A p \in Procs : cur[p] # None => want[p] \in Inums /\ disk[want[p]].used

\* The link count tells whether an inode is in the directory.
Links ==
  \A n \in Inums : /\ disk[n].nlink = 1 <=> n \in dirent
                   /\ n \in dirent => disk[n].used

\* create and unlink have the directory locked to their end, so what unlink
\* has found there stays.
DirLocked ==
  \A p \in Procs :
    /\ pc[p] \in {"create", "creating", "unlink", "unlinking"} => dirlock = p
    /\ pc[p] \in {"unlink", "unlinking"} => want[p] \in dirent

\* An unlinked inode with references has been read, which iput relies on to
\* see that it is to be freed.
RemovedValid ==
  \A p \in Procs : cur[p] # None /\ pc[p] # "create" /\ want[p] \notin dirent =>
    data[cur[p]].valid # None

\* While iput frees an inode nobody else can come by it.
FreeingAlone == \A p \in Procs : pc[p] = "free" => LastRef(cur[p]) /\ want[p] \notin dirent

\* An allocated inode is in the directory or someone has it.
Reached ==
  \A n \in Inums : disk[n].used =>
    n \in dirent \/ \E p \in Procs : cur[p] # None /\ want[p] = n

OneCpuInv ==
  /\ DataTypes /\ OneCpuPlaces /\ ValidIsDisk /\ LockedValid /\ RefUsed /\ Links
  /\ DirLocked /\ RemovedValid /\ FreeingAlone /\ Reached

\* What is proved of one CPU but for Reached, which the inode that ialloc marked
\* before its iget panics escapes.
Told == InUseNotFree /\ LockedIsWanted /\ LinkCounts

UInv == ~smp => IF panic = "none" THEN OneCpuInv ELSE Told

-----------------------------------------------------------------------------
\* What iget does, to the entry that it finds.
LEMMA IgetFacts ==
  ASSUME NEW p, NEW n, NEW loc, Iget(p, n, loc)
  PROVE  \E i \in Entries :
           /\ IF Having(n) # {} THEN meta[i].inum = n ELSE meta[i].refcnt = 0
           /\ meta' = [meta EXCEPT ![i] =
                [inum |-> n, refcnt |-> IF Having(n) # {} THEN @.refcnt + 1 ELSE 1]]
           /\ data' = IF Having(n) # {} \/ smp THEN data ELSE Clear(i)
           /\ want' = [want EXCEPT ![p] = n]
           /\ cur' = [cur EXCEPT ![p] = i]
           /\ Goto(p, IF Having(n) # {} \/ ~smp THEN loc
                      ELSE CASE loc = "ref"    -> "clear"
                             [] loc = "create" -> "clear_create"
                             [] loc = "unlink" -> "clear_unlink")
<1>1. \A i \in First(IF Having(n) # {} THEN Having(n) ELSE Unreferenced) :
        i \in Entries /\ IF Having(n) # {} THEN meta[i].inum = n ELSE meta[i].refcnt = 0
  BY DEF First, Having, Unreferenced
<1> QED
  BY <1>1, Zenon DEF Iget

\* A reference is to an entry that has the inode.
LEMMA RefFacts ==
  ASSUME IInv, OneCpuInv, NEW p \in Procs, cur[p] # None
  PROVE  /\ cur[p] \in Entries /\ want[p] = meta[cur[p]].inum
         /\ want[p] \in Inums /\ want[p] # None /\ disk[want[p]].used
<1>1. cur[p] \in Entries /\ p \in Refs(cur[p])
  BY DEF IInv, Types, RefTypes, Refs
<1>2. want[p] = meta[cur[p]].inum
  BY <1>1 DEF IInv, RefcntCounts
<1> QED
  BY <1>1, <1>2, InodeTableAssumption DEF OneCpuInv, RefUsed

\* The entry that has the inode of a reference is that of the reference.
LEMMA SameInode ==
  ASSUME IInv, OneEntry, OneCpuInv, NEW p \in Procs, cur[p] # None,
         NEW i \in Entries, meta[i].inum = want[p]
  PROVE  i = cur[p]
BY RefFacts DEF OneEntry

\* The only reference to an entry is the only one to its inode.
LEMMA SoleRef ==
  ASSUME IInv, CountsTell, OneEntry, OneCpuInv, NEW p \in Procs, cur[p] # None, LastRef(cur[p]),
         NEW q \in Procs, q # p, cur[q] # None
  PROVE  cur[q] # cur[p] /\ want[q] # want[p]
<1>1. cur[p] \in Entries /\ cur[q] \in Entries /\ want[q] = meta[cur[q]].inum
  BY RefFacts
<1>2. cur[q] # cur[p]
  <2> SUFFICES ASSUME cur[q] = cur[p] PROVE FALSE
    OBVIOUS
  <2>1. p \in Refs(cur[p]) /\ q \in Refs(cur[p])
    BY DEF Refs
  <2> QED
    BY <1>1, <2>1 DEF CountsTell, LastRef
<1> QED
  BY <1>1, <1>2, SameInode

\* A process that has an inode, or is somewhere else than "idle".
LEMMA HasInode ==
  ASSUME IInv, NEW p \in Procs, pc[p] # "idle"
  PROVE  cur[p] # None /\ cur[p] \in Entries
BY DEF IInv, IdleHasNone, Types, RefTypes

\* What a process gives back with Release.
LEMMA ReleaseFacts ==
  ASSUME IInv, NEW p \in Procs, cur[p] # None, Release(p)
  PROVE  /\ cur[p] \in Entries
         /\ pc'[p] = "idle" /\ cur'[p] = None
         /\ \A q \in Procs : q # p => pc'[q] = pc[q] /\ cur'[q] = cur[q] /\ want'[q] = want[q]
         /\ \A j \in Entries : meta'[j].inum = meta[j].inum
         /\ \A j \in Entries : j # cur[p] => meta'[j] = meta[j]
<1>1. /\ pc \in [Procs -> Places] /\ cur \in [Procs -> Entries \union {None}]
      /\ want \in [Procs -> Inums \union {None}]
      /\ meta \in [Entries -> [inum : Inums \union {None}, refcnt : Nat]]
  BY DEF IInv, Types, RefTypes
<1>2. /\ want' = [want EXCEPT ![p] = None] /\ cur' = [cur EXCEPT ![p] = None]
      /\ pc' = [pc EXCEPT ![p] = "idle"]
      /\ meta' = [meta EXCEPT ![cur[p]].refcnt = @ - 1]
  BY DEF Release, Goto
<1> QED
  BY <1>1, <1>2

\* A reference that is not the last: somebody else has the inode.
LEMMA AnotherRef ==
  ASSUME IInv, CountsTell, NEW p \in Procs, cur[p] # None, ~LastRef(cur[p])
  PROVE  \E q \in Procs : q # p /\ cur[q] = cur[p] /\ want[q] = want[p]
<1>1. cur[p] \in Entries /\ p \in Refs(cur[p])
  BY DEF IInv, Types, RefTypes, Refs
<1>2. PICK q \in Refs(cur[p]) : q # p
  BY <1>1 DEF CountsTell, LastRef
<1>3. q \in Procs /\ cur[q] = cur[p]
  BY <1>2 DEF Refs
<1>4. want[q] = want[p]
  BY <1>1, <1>2, <1>3 DEF IInv, RefcntCounts
<1> QED
  BY <1>2, <1>3, <1>4

\* iget keeps the invariant, for an inode of the directory and for one that
\* ialloc has just taken; an entry that it reuses loses its data.
LEMMA IgetOneCpu ==
  ASSUME IInv, CountsTell, OneEntry, OneCpuInv, ~smp, NEW p \in Procs,
         NEW n \in Inums, pc[p] = "idle",
         NEW loc \in {"ref", "create", "unlink"}, Iget(p, n, loc), IInv', OneEntry',
         dirlock = None, dirlock' = IF loc = "ref" THEN None ELSE p, UNCHANGED <<dlock, dirent>>,
         \/ loc # "create" /\ n \in dirent /\ disk' = disk
         \/ /\ loc = "create" /\ ~disk[n].used
            /\ disk' = [disk EXCEPT ![n] = [used |-> TRUE, nlink |-> 0]]
  PROVE  OneCpuInv'
<1>1. cur[p] = None
  BY DEF IInv, IdleHasNone
<1>2. PICK i \in Entries :
       /\ IF Having(n) # {} THEN meta[i].inum = n ELSE meta[i].refcnt = 0
       /\ meta' = [meta EXCEPT ![i] =
            [inum |-> n, refcnt |-> IF Having(n) # {} THEN @.refcnt + 1 ELSE 1]]
       /\ data' = IF Having(n) # {} \/ smp THEN data ELSE Clear(i)
       /\ want' = [want EXCEPT ![p] = n]
       /\ cur' = [cur EXCEPT ![p] = i]
       /\ Goto(p, IF Having(n) # {} \/ ~smp THEN loc
                  ELSE CASE loc = "ref"    -> "clear"
                         [] loc = "create" -> "clear_create"
                         [] loc = "unlink" -> "clear_unlink")
  BY IgetFacts, Zenon
<1>3. i \in Entries /\ (IF Having(n) # {} THEN meta[i].inum = n ELSE meta[i].refcnt = 0)
  BY <1>2
<1> USE <1>3
<1>4. /\ \E c : meta' = [meta EXCEPT ![i] = [inum |-> n, refcnt |-> c]]
      /\ data' = IF Having(n) # {} THEN data ELSE Clear(i)
      /\ want' = [want EXCEPT ![p] = n]
      /\ cur' = [cur EXCEPT ![p] = i]
      /\ pc' = [pc EXCEPT ![p] = loc]
  BY <1>2, Zenon DEF Goto
<1>5. /\ pc \in [Procs -> Places] /\ cur \in [Procs -> Entries \union {None}]
      /\ want \in [Procs -> Inums \union {None}]
      /\ meta \in [Entries -> [inum : Inums \union {None}, refcnt : Nat]] /\ DataTypes
  BY DEF IInv, Types, RefTypes, OneCpuInv
<1> USE <1>5
<1>6. /\ pc'[p] = loc /\ cur'[p] = i /\ want'[p] = n
      /\ \A q \in Procs : q # p => pc'[q] = pc[q] /\ cur'[q] = cur[q] /\ want'[q] = want[q]
  BY <1>4
<1> USE <1>6
<1>7. meta'[i].inum = n /\ \A j \in Entries : j # i => meta'[j] = meta[j]
  BY <1>4
<1>8. /\ \A j \in Entries : j # i => data'[j] = data[j]
      /\ \A j \in Entries : data'[j].valid # None => data'[j] = data[j]
      /\ Having(n) # {} => data' = data
      /\ Having(n) = {} => data'[i].valid = None
      /\ data' \in [Entries -> [valid : Inums \union {None}, dinode : Dinode]]
  BY <1>4 DEF Clear, DataTypes
<1>9. ASSUME NEW q \in Procs, cur[q] # None
      PROVE  /\ data'[cur[q]] = data[cur[q]] /\ q # p /\ cur[q] \in Entries
             /\ Having(n) = {} => cur[q] # i
  <2>1. cur[q] \in Entries /\ q \in Refs(cur[q]) /\ q # p
    BY <1>1, <1>9 DEF Refs
  <2>2. meta[cur[q]].refcnt # 0
    BY <2>1 DEF CountsTell
  <2> QED
    BY <1>8, <2>1, <2>2
<1>10. ~disk[n].used =>
         /\ \A j \in Entries : data[j].valid # n
         /\ \A q \in Procs : cur[q] # None => want[q] # n
         /\ n \notin dirent
  BY InodeTableAssumption DEF OneCpuInv, ValidIsDisk, RefUsed, Links
<1>11. /\ \A m \in Inums : m # n => disk'[m] = disk[m]
       /\ disk'[n].used
       /\ disk[n].used => disk' = disk
       /\ ~disk[n].used => disk'[n].nlink = 0
       /\ disk' \in [Inums -> Dinode]
  <2>1. CASE loc = "create"
    <3>1. disk' = [disk EXCEPT ![n] = [used |-> TRUE, nlink |-> 0]] /\ ~disk[n].used
      BY <2>1
    <3>2. [used |-> TRUE, nlink |-> 0] \in Dinode
      BY DEF Dinode
    <3> QED
      BY <3>1, <3>2 DEF DataTypes
  <2>2. CASE loc # "create"
    BY <2>2 DEF OneCpuInv, Links, DataTypes
  <2> QED
    BY <2>1, <2>2
<1> USE <1>11
<1>12. DataTypes'
  BY <1>8 DEF DataTypes
<1>13. OneCpuPlaces'
  BY DEF OneCpuInv, OneCpuPlaces
<1>14. ValidIsDisk'
  <2> SUFFICES ASSUME NEW j \in Entries, data'[j].valid # None
               PROVE  /\ data'[j].valid = meta'[j].inum
                      /\ data'[j].dinode = disk'[data'[j].valid]
                      /\ disk'[data'[j].valid].used
    BY DEF ValidIsDisk
  <2>1. data'[j] = data[j] /\ data[j].valid # None /\ data[j].valid \in Inums
    BY <1>8 DEF DataTypes
  <2>2. /\ data[j].valid = meta[j].inum
        /\ data[j].dinode = disk[data[j].valid] /\ disk[data[j].valid].used
    BY <2>1 DEF OneCpuInv, ValidIsDisk
  <2>3. meta'[j].inum = meta[j].inum
    <3>1. CASE j = i
      <4>1. Having(n) # {}
        BY <1>8, <3>1
      <4> QED
        BY <1>7, <3>1, <4>1
    <3>2. CASE j # i
      BY <1>7, <3>2
    <3> QED
      BY <3>1, <3>2
  <2>4. disk'[data[j].valid] = disk[data[j].valid]
    BY <2>1, <2>2
  <2> QED
    BY <2>1, <2>2, <2>3, <2>4
<1>15. LockedValid'
  <2> SUFFICES ASSUME NEW q \in Procs, pc'[q] \in HasLock
               PROVE  dlock[cur'[q]] = q /\ data'[cur'[q]].valid # None
    BY DEF LockedValid
  <2>1. q # p /\ pc[q] \in HasLock /\ pc[q] # "idle"
    BY DEF HasLock
  <2>2. cur[q] # None /\ cur'[q] = cur[q]
    BY <2>1, HasInode
  <2> QED
    BY <1>9, <2>1, <2>2 DEF OneCpuInv, LockedValid
<1>16. RefUsed'
  <2> SUFFICES ASSUME NEW q \in Procs, cur'[q] # None
               PROVE  want'[q] \in Inums /\ disk'[want'[q]].used
    BY DEF RefUsed
  <2>1. CASE q = p
    BY <2>1
  <2>2. CASE q # p
    <3>1. want'[q] = want[q] /\ want[q] \in Inums /\ disk[want[q]].used
      BY <2>2 DEF OneCpuInv, RefUsed
    <3> QED
      BY <3>1
  <2> QED
    BY <2>1, <2>2
<1>17. Links'
  <2> SUFFICES ASSUME NEW m \in Inums
               PROVE  /\ disk'[m].nlink = 1 <=> m \in dirent
                      /\ m \in dirent => disk'[m].used
    BY DEF Links
  <2>1. CASE disk'[m] = disk[m]
    BY <2>1 DEF OneCpuInv, Links
  <2>2. CASE disk'[m] # disk[m]
    <3>1. m = n /\ ~disk[n].used
      BY <2>2
    <3> QED
      BY <1>10, <3>1
  <2> QED
    BY <2>1, <2>2
<1>18. DirLocked'
  <2>1. \A q \in Procs : pc[q] \notin {"create", "creating", "unlink", "unlinking"}
    BY InodeTableAssumption DEF OneCpuInv, DirLocked
  <2> SUFFICES ASSUME NEW q \in Procs
               PROVE  /\ pc'[q] \in {"create", "creating", "unlink", "unlinking"} => dirlock' = q
                      /\ pc'[q] \in {"unlink", "unlinking"} => want'[q] \in dirent
    BY DEF DirLocked
  <2>2. CASE q = p
    BY <2>2
  <2>3. CASE q # p
    BY <2>1, <2>3
  <2> QED
    BY <2>2, <2>3
<1>19. RemovedValid'
  <2> SUFFICES ASSUME NEW q \in Procs, cur'[q] # None, pc'[q] # "create", want'[q] \notin dirent
               PROVE  data'[cur'[q]].valid # None
    BY DEF RemovedValid
  <2>1. q # p
    OBVIOUS
  <2>2. cur'[q] = cur[q] /\ pc'[q] = pc[q] /\ want'[q] = want[q]
    BY <2>1
  <2> QED
    BY <1>9, <2>2 DEF OneCpuInv, RemovedValid
<1>20. FreeingAlone'
  <2> SUFFICES ASSUME NEW q \in Procs, pc'[q] = "free"
               PROVE  meta'[cur'[q]].refcnt = 1 /\ want'[q] \notin dirent
    BY DEF FreeingAlone, LastRef
  <2>1. q # p /\ pc[q] = "free" /\ cur'[q] = cur[q] /\ want'[q] = want[q]
    OBVIOUS
  <2>2. /\ meta[cur[q]].refcnt = 1 /\ want[q] \notin dirent /\ cur[q] # None
        /\ cur[q] \in Entries /\ want[q] = meta[cur[q]].inum
    BY <2>1, HasInode, RefFacts DEF OneCpuInv, FreeingAlone, LastRef
  <2>3. want[q] # n
    BY <1>10, <2>2
  <2>4. cur[q] # i
    BY <1>9, <2>2, <2>3
  <2> QED
    BY <1>7, <2>1, <2>2, <2>4
<1>21. Reached'
  <2> SUFFICES ASSUME NEW m \in Inums, disk'[m].used
               PROVE  m \in dirent \/ \E q \in Procs : cur'[q] # None /\ want'[q] = m
    BY DEF Reached
  <2>1. CASE m = n
    <3>1. cur'[p] # None /\ want'[p] = n
      BY InodeTableAssumption DEF Entries
    <3> QED
      BY <2>1, <3>1
  <2>2. CASE m # n
    <3>1. m \in dirent \/ \E q \in Procs : cur[q] # None /\ want[q] = m
      BY <2>2 DEF OneCpuInv, Reached
    <3> QED
      BY <1>1, <3>1
  <2> QED
    BY <2>1, <2>2
<1> QED
  BY <1>12, <1>13, <1>14, <1>15, <1>16, <1>17, <1>18, <1>19, <1>20, <1>21 DEF OneCpuInv

\* create and unlink, with the directory and the inode locked, change the link
\* count and the directory together.
LEMMA LinkOneCpu ==
  ASSUME IInv, CountsTell, OneEntry, OneCpuInv, NEW p \in Procs,
         pc[p] \in {"creating", "unlinking"}, NEW k \in {0, 1},
         Iupdate(cur[p], [used |-> TRUE, nlink |-> k]),
         dlock' = [dlock EXCEPT ![cur[p]] = None],
         dirent' = IF k = 1 THEN dirent \union {want[p]} ELSE dirent \ {want[p]},
         dirlock' = None, pc' = [pc EXCEPT ![p] = "ref"], UNCHANGED <<meta, want, cur>>
  PROVE  OneCpuInv'
<1> DEFINE i == cur[p]
           n == want[p]
           d == [used |-> TRUE, nlink |-> k]
<1>1. /\ cur[p] # None /\ i \in Entries /\ n = meta[i].inum /\ n \in Inums /\ n # None
      /\ disk[n].used
  BY HasInode, RefFacts
<1> USE <1>1
<1>2. dlock[i] = p /\ data[i].valid = n
  BY DEF OneCpuInv, LockedValid, ValidIsDisk, HasLock
<1>3. /\ pc \in [Procs -> Places] /\ dlock \in [Entries -> Procs \union {None}]
      /\ DataTypes /\ d \in Dinode
  BY DEF IInv, Types, OneCpuInv, Dinode
<1> USE <1>3
<1>4. data' = [data EXCEPT ![i].dinode = d] /\ disk' = [disk EXCEPT ![n] = d]
  BY <1>2 DEF Iupdate
<1>5. pc'[p] = "ref" /\ \A q \in Procs : q # p => pc'[q] = pc[q]
  OBVIOUS
<1>6. /\ data'[i].valid = n /\ data'[i].dinode = d
      /\ \A j \in Entries : data'[j].valid = data[j].valid
      /\ \A j \in Entries : j # i => data'[j] = data[j]
  BY <1>2, <1>4 DEF DataTypes
<1>7. disk'[n] = d /\ \A m \in Inums : m # n => disk'[m] = disk[m]
  BY <1>4 DEF DataTypes
<1> USE <1>7
<1>8. d.used /\ d.nlink = k
  OBVIOUS
<1>9. DataTypes'
  <2>1. data' \in [Entries -> [valid : Inums \union {None}, dinode : Dinode]]
    <3> DEFINE T == [valid : Inums \union {None}, dinode : Dinode]
    <3>1. data \in [Entries -> T] /\ data[i] \in T
      BY DEF DataTypes
    <3>2. [data[i] EXCEPT !.dinode = d] \in T
      BY <3>1, Zenon
    <3>3. data' = [data EXCEPT ![i] = [data[i] EXCEPT !.dinode = d]]
      BY <1>4
    <3> HIDE DEF T, d, i
    <3>4. data' \in [Entries -> T]
      BY <3>1, <3>2, <3>3, Zenon
    <3> QED
      BY <3>4 DEF T
  <2>2. disk' \in [Inums -> Dinode] /\ dirent' \subseteq Inums
    BY <1>4 DEF DataTypes
  <2> QED
    BY <2>1, <2>2 DEF DataTypes
<1> HIDE DEF i, n, d
<1>10. OneCpuPlaces'
  BY <1>5 DEF OneCpuInv, OneCpuPlaces
<1>11. ValidIsDisk'
  <2> SUFFICES ASSUME NEW j \in Entries, data'[j].valid # None
               PROVE  /\ data'[j].valid = meta[j].inum
                      /\ data'[j].dinode = disk'[data'[j].valid]
                      /\ disk'[data'[j].valid].used
    BY DEF ValidIsDisk
  <2>1. CASE j = i
    BY <1>6, <1>8, <2>1
  <2>2. CASE j # i
    <3>1. data'[j] = data[j] /\ data[j].valid = meta[j].inum /\ data[j].valid \in Inums
      BY <1>6, <2>2 DEF OneCpuInv, ValidIsDisk, DataTypes
    <3>2. data[j].valid # n
      BY <2>2, <3>1, SameInode DEF i, n
    <3> QED
      BY <3>1, <3>2 DEF OneCpuInv, ValidIsDisk
  <2> QED
    BY <2>1, <2>2
<1>12. LockedValid'
  <2> SUFFICES ASSUME NEW q \in Procs, pc'[q] \in HasLock
               PROVE  dlock'[cur[q]] = q /\ data'[cur[q]].valid # None
    BY DEF LockedValid
  <2>1. q # p /\ pc[q] \in HasLock /\ pc[q] # "idle"
    BY <1>5 DEF HasLock
  <2>2. cur[q] \in Entries /\ dlock[cur[q]] = q /\ data[cur[q]].valid # None
    BY <2>1, HasInode DEF OneCpuInv, LockedValid
  <2>3. cur[q] # i
    BY <1>2, <2>1, <2>2
  <2>4. dlock'[cur[q]] = dlock[cur[q]]
    BY <2>2, <2>3 DEF i
  <2> QED
    BY <1>6, <2>2, <2>3, <2>4
<1>13. RefUsed'
  <2> SUFFICES ASSUME NEW q \in Procs, cur[q] # None
               PROVE  want[q] \in Inums /\ disk'[want[q]].used
    BY DEF RefUsed
  <2> QED
    BY <1>8 DEF OneCpuInv, RefUsed
<1>14. Links'
  <2> SUFFICES ASSUME NEW m \in Inums
               PROVE  /\ disk'[m].nlink = 1 <=> m \in dirent'
                      /\ m \in dirent' => disk'[m].used
    BY DEF Links
  <2>1. CASE m = n
    BY <1>8, <2>1 DEF n
  <2>2. CASE m # n
    BY <2>2 DEF OneCpuInv, Links, n
  <2> QED
    BY <2>1, <2>2
<1>15. DirLocked'
  <2>1. \A q \in Procs : q # p => pc[q] \notin {"create", "creating", "unlink", "unlinking"}
    BY DEF OneCpuInv, DirLocked
  <2> QED
    BY <1>5, <2>1 DEF DirLocked
<1>16. RemovedValid'
  <2> SUFFICES ASSUME NEW q \in Procs, cur[q] # None, pc'[q] # "create", want[q] \notin dirent'
               PROVE  data'[cur[q]].valid # None
    BY DEF RemovedValid
  <2>1. CASE cur[q] = i
    BY <1>6, <2>1
  <2>2. CASE cur[q] # i
    <3>1. q # p /\ cur[q] \in Entries /\ want[q] = meta[cur[q]].inum
      BY <2>2, RefFacts DEF i
    <3>2. want[q] # n
      BY <2>2, <3>1, SameInode DEF i, n
    <3> QED
      BY <1>5, <1>6, <3>1, <3>2 DEF OneCpuInv, RemovedValid, n
  <2> QED
    BY <2>1, <2>2
<1>17. FreeingAlone'
  <2> SUFFICES ASSUME NEW q \in Procs, pc'[q] = "free"
               PROVE  LastRef(cur[q]) /\ want[q] \notin dirent'
    BY DEF FreeingAlone, LastRef
  <2>1. q # p /\ pc[q] = "free"
    BY <1>5
  <2>2. LastRef(cur[q]) /\ want[q] \notin dirent /\ cur[q] # None
    BY <2>1, HasInode DEF OneCpuInv, FreeingAlone
  <2>3. want[q] # want[p]
    BY <2>1, <2>2, SoleRef
  <2> QED
    BY <2>2, <2>3
<1>18. Reached'
  <2> SUFFICES ASSUME NEW m \in Inums, disk'[m].used
               PROVE  m \in dirent' \/ \E q \in Procs : cur[q] # None /\ want[q] = m
    BY DEF Reached
  <2> QED
    BY DEF OneCpuInv, Reached, n
<1> QED
  BY <1>9, <1>10, <1>11, <1>12, <1>13, <1>14, <1>15, <1>16, <1>17, <1>18 DEF OneCpuInv

\* iput frees an inode that nobody else has or can look up.
LEMMA IputFreeOneCpu ==
  ASSUME IInv, CountsTell, OneEntry, OneCpuInv, ~smp, NEW p \in Procs, IputFree(p)
  PROVE  OneCpuInv'
<1> DEFINE i == cur[p]
           n == want[p]
           d == [used |-> FALSE, nlink |-> 0]
<1>1. /\ pc[p] = "free" /\ cur[p] # None /\ i \in Entries /\ n = meta[i].inum
      /\ n \in Inums /\ n # None /\ disk[n].used
  BY HasInode, RefFacts DEF IputFree
<1> USE <1>1
<1>2. data[i].valid = n /\ dlock[i] = p /\ LastRef(i) /\ n \notin dirent
  BY DEF OneCpuInv, LockedValid, ValidIsDisk, FreeingAlone, HasLock
<1>3. /\ disk' = [disk EXCEPT ![n] = d] /\ Release(p)
      /\ data' = [data EXCEPT ![i] = [valid |-> None, dinode |-> d]]
      /\ dlock' = [dlock EXCEPT ![i] = None] /\ UNCHANGED <<dirent, dirlock>>
  BY <1>2 DEF IputFree
<1> USE <1>3
<1>4. /\ DataTypes /\ dlock \in [Entries -> Procs \union {None}] /\ d \in Dinode
  BY DEF IInv, Types, OneCpuInv, Dinode
<1>5. /\ pc'[p] = "idle" /\ cur'[p] = None
      /\ \A q \in Procs : q # p => pc'[q] = pc[q] /\ cur'[q] = cur[q] /\ want'[q] = want[q]
      /\ \A j \in Entries : meta'[j].inum = meta[j].inum
      /\ \A j \in Entries : j # cur[p] => meta'[j] = meta[j]
  BY ReleaseFacts
<1> USE <1>5
<1>6. /\ data'[i].valid = None /\ \A j \in Entries : j # i => data'[j] = data[j]
      /\ \A j \in Entries : j # i => dlock'[j] = dlock[j]
  BY <1>4 DEF DataTypes
<1>7. disk'[n] = d /\ \A m \in Inums : m # n => disk'[m] = disk[m]
  BY <1>4 DEF DataTypes
<1>8. ~d.used /\ d.nlink = 0
  OBVIOUS
<1>9. DataTypes'
  BY <1>4 DEF DataTypes
<1>10. ASSUME NEW q \in Procs, q # p, cur[q] # None
       PROVE  /\ cur[q] # i /\ want[q] # n /\ cur[q] \in Entries /\ want[q] \in Inums
              /\ disk[want[q]].used
  BY <1>2, <1>10, SoleRef, RefFacts
<1>u. UNCHANGED <<dirent, dirlock>>
  OBVIOUS
<1> USE <1>u
<1> HIDE <1>3 DEF i, n, d
<1>11. OneCpuPlaces'
  BY DEF OneCpuInv, OneCpuPlaces
<1>12. ValidIsDisk'
  <2> SUFFICES ASSUME NEW j \in Entries, data'[j].valid # None
               PROVE  /\ data'[j].valid = meta'[j].inum
                      /\ data'[j].dinode = disk'[data'[j].valid]
                      /\ disk'[data'[j].valid].used
    BY DEF ValidIsDisk
  <2>1. j # i
    <3> HIDE <1>5
    <3> QED
      BY <1>6
  <2>2. data'[j] = data[j] /\ data[j].valid = meta[j].inum /\ data[j].valid \in Inums
    BY <1>4, <1>6, <2>1 DEF OneCpuInv, ValidIsDisk, DataTypes
  <2>3. data[j].valid # n
    <3> HIDE <1>5, <1>u
    <3>1. meta[j].inum = want[p] => j = cur[p]
      BY SameInode
    <3> QED
      BY <2>1, <2>2, <3>1 DEF i, n
  <2> QED
    BY <1>7, <2>2, <2>3 DEF OneCpuInv, ValidIsDisk
<1>13. LockedValid'
  <2> SUFFICES ASSUME NEW q \in Procs, pc'[q] \in HasLock
               PROVE  dlock'[cur'[q]] = q /\ data'[cur'[q]].valid # None
    BY DEF LockedValid
  <2>1. q # p /\ pc[q] \in HasLock /\ pc[q] # "idle" /\ cur'[q] = cur[q]
    BY DEF HasLock
  <2>2. cur[q] # None /\ dlock[cur[q]] = q /\ data[cur[q]].valid # None
    BY <2>1, HasInode DEF OneCpuInv, LockedValid
  <2>3. cur[q] # i /\ cur[q] \in Entries
    BY <1>10, <2>1, <2>2, Zenon
  <2>4. dlock'[cur[q]] = dlock[cur[q]] /\ data'[cur[q]] = data[cur[q]]
    BY <1>6, <2>3, Zenon
  <2> HIDE <1>5, <1>u
  <2> QED
    BY <2>1, <2>2, <2>4
<1>14. RefUsed'
  <2> SUFFICES ASSUME NEW q \in Procs, cur'[q] # None
               PROVE  want'[q] \in Inums /\ disk'[want'[q]].used
    BY DEF RefUsed
  <2>1. q # p /\ cur[q] # None /\ want'[q] = want[q]
    OBVIOUS
  <2> QED
    BY <1>7, <1>10, <2>1
<1>15. Links'
  <2> SUFFICES ASSUME NEW m \in Inums
               PROVE  /\ disk'[m].nlink = 1 <=> m \in dirent
                      /\ m \in dirent => disk'[m].used
    BY DEF Links
  <2>1. CASE m = n
    BY <1>2, <1>7, <1>8, <2>1
  <2>2. CASE m # n
    BY <1>7, <2>2 DEF OneCpuInv, Links
  <2> QED
    BY <2>1, <2>2
<1>16. DirLocked'
  BY DEF OneCpuInv, DirLocked
<1>17. RemovedValid'
  <2> SUFFICES ASSUME NEW q \in Procs, cur'[q] # None, pc'[q] # "create", want'[q] \notin dirent
               PROVE  data'[cur'[q]].valid # None
    BY DEF RemovedValid
  <2>1. q # p /\ cur[q] # None /\ want'[q] = want[q] /\ cur'[q] = cur[q] /\ pc'[q] = pc[q]
    OBVIOUS
  <2>2. data[cur[q]].valid # None
    BY <2>1 DEF OneCpuInv, RemovedValid
  <2>3. data'[cur[q]] = data[cur[q]]
    BY <1>6, <1>10, <2>1
  <2> HIDE <1>5, <1>u
  <2> QED
    BY <2>1, <2>2, <2>3
<1>18. FreeingAlone'
  <2> SUFFICES ASSUME NEW q \in Procs, pc'[q] = "free"
               PROVE  meta'[cur'[q]].refcnt = 1 /\ want'[q] \notin dirent
    BY DEF FreeingAlone, LastRef
  <2>1. /\ q # p /\ pc[q] = "free" /\ want'[q] = want[q] /\ cur'[q] = cur[q]
        /\ cur[q] # None
    BY HasInode
  <2> QED
    BY <1>10, <2>1 DEF OneCpuInv, FreeingAlone, LastRef, i
<1>19. Reached'
  <2> SUFFICES ASSUME NEW m \in Inums, disk'[m].used, m \notin dirent
               PROVE  \E q \in Procs : cur'[q] # None /\ want'[q] = m
    BY DEF Reached
  <2>1. m # n /\ disk[m].used
    BY <1>7, <1>8
  <2>2. PICK q \in Procs : cur[q] # None /\ want[q] = m
    BY <2>1, Zenon DEF OneCpuInv, Reached
  <2>3. q # p
    BY <2>1, <2>2 DEF n
  <2> QED
    BY <2>2, <2>3
<1> QED
  BY <1>9, <1>11, <1>12, <1>13, <1>14, <1>15, <1>16, <1>17, <1>18, <1>19 DEF OneCpuInv

\* ilock finds an inode with a type, and reads it if nobody has.
LEMMA IlockOneCpu ==
  ASSUME IInv, CountsTell, OneEntry, OneCpuInv, NEW p \in Procs, Ilock(p)
  PROVE  OneCpuInv'
<1> DEFINE i == cur[p]
<1>1. /\ cur[p] # None /\ i \in Entries /\ want[p] = meta[i].inum
      /\ want[p] \in Inums /\ want[p] # None /\ disk[want[p]].used
      /\ pc[p] \in {"ref", "create", "unlink"} /\ dlock[i] = None
  BY HasInode, RefFacts DEF Ilock
<1> USE <1>1
<1>2. /\ dlock' = [dlock EXCEPT ![i] = p] /\ pc' = [pc EXCEPT ![p] = Locked(pc[p])]
      /\ UNCHANGED <<meta, disk, dirent, dirlock, want, cur>>
      /\ data' = IF data[i].valid = None
                 THEN [data EXCEPT ![i] = [valid |-> want[p], dinode |-> disk[want[p]]]] ELSE data
  BY DEF Ilock, Goto
<1> USE <1>2
<1>3. /\ Locked(pc[p]) \in {"locked", "creating", "unlinking"}
      /\ Locked(pc[p]) = "creating" => pc[p] = "create"
      /\ Locked(pc[p]) = "unlinking" => pc[p] = "unlink"
  BY DEF Locked
<1>4. /\ pc \in [Procs -> Places] /\ dlock \in [Entries -> Procs \union {None}]
      /\ DataTypes
  BY DEF IInv, Types, OneCpuInv
<1>5. /\ data'[i].valid = want[p] /\ data'[i].dinode = disk[want[p]]
      /\ \A j \in Entries : j # i => data'[j] = data[j]
      /\ data' \in [Entries -> [valid : Inums \union {None}, dinode : Dinode]]
  BY <1>4 DEF OneCpuInv, ValidIsDisk, DataTypes
<1> USE <1>5
<1>6. pc'[p] = Locked(pc[p]) /\ \A q \in Procs : q # p => pc'[q] = pc[q]
  BY <1>4, Zenon
<1>7. dlock'[i] = p /\ \A j \in Entries : j # i => dlock'[j] = dlock[j]
  BY <1>4
<1> HIDE DEF i
<1>8. DataTypes' /\ OneCpuPlaces'
  BY <1>3, <1>4, <1>6, Zenon DEF OneCpuInv, OneCpuPlaces, HasLock, DataTypes
<1>9. ValidIsDisk'
  BY DEF OneCpuInv, ValidIsDisk
<1>10. LockedValid'
  <2> SUFFICES ASSUME NEW q \in Procs, pc'[q] \in HasLock
               PROVE  dlock'[cur[q]] = q /\ data'[cur[q]].valid # None
    BY DEF LockedValid
  <2>1. CASE q = p
    BY <1>7, <2>1 DEF i
  <2>2. CASE q # p
    <3>1. pc[q] \in HasLock /\ pc[q] # "idle"
      BY <1>6, <2>2 DEF HasLock
    <3>2. cur[q] \in Entries /\ dlock[cur[q]] = q /\ data[cur[q]].valid # None
      BY <3>1, HasInode DEF OneCpuInv, LockedValid
    <3>3. cur[q] # i
      BY <3>2, InodeTableAssumption
    <3> QED
      BY <1>7, <3>2, <3>3
  <2> QED
    BY <2>1, <2>2
<1>11. RefUsed' /\ Links' /\ Reached'
  BY DEF OneCpuInv, RefUsed, Links, Reached
<1>12. DirLocked'
  BY <1>3, <1>6 DEF OneCpuInv, DirLocked
<1>13. RemovedValid'
  <2> SUFFICES ASSUME NEW q \in Procs, cur[q] # None, pc'[q] # "create", want[q] \notin dirent
               PROVE  data'[cur[q]].valid # None
    BY DEF RemovedValid
  <2>1. CASE cur[q] = i
    BY <2>1
  <2>2. CASE cur[q] # i
    <3>1. q # p /\ cur[q] \in Entries
      BY <2>2, RefFacts DEF i
    <3> QED
      BY <1>6, <2>2, <3>1, Zenon DEF OneCpuInv, RemovedValid
  <2> QED
    BY <2>1, <2>2
<1>14. FreeingAlone'
  BY <1>3, <1>6 DEF OneCpuInv, FreeingAlone, LastRef
<1> QED
  BY <1>8, <1>9, <1>10, <1>11, <1>12, <1>13, <1>14 DEF OneCpuInv

\* iput of an inode that is not to be freed loses nothing: it is in the
\* directory, or somebody else has it.
LEMMA IputOneCpu ==
  ASSUME IInv, CountsTell, OneEntry, OneCpuInv, NEW p \in Procs, Iput(p)
  PROVE  OneCpuInv'
<1>1. /\ pc[p] = "ref" /\ ~ToFree(cur[p]) /\ Release(p) /\ cur[p] # None
      /\ UNCHANGED <<data, dlock, disk, dirent, dirlock>>
  BY HasInode DEF Iput
<1> USE <1>1
<1>2. /\ cur[p] \in Entries
      /\ pc'[p] = "idle" /\ cur'[p] = None
      /\ \A q \in Procs : q # p => pc'[q] = pc[q] /\ cur'[q] = cur[q] /\ want'[q] = want[q]
      /\ \A j \in Entries : meta'[j].inum = meta[j].inum
      /\ \A j \in Entries : j # cur[p] => meta'[j] = meta[j]
  BY ReleaseFacts
<1> USE <1>2
<1>3. DataTypes' /\ ValidIsDisk' /\ Links'
  BY DEF OneCpuInv, DataTypes, ValidIsDisk, Links
<1>4. OneCpuPlaces' /\ RefUsed'
  BY DEF OneCpuInv, OneCpuPlaces, RefUsed
<1>5. LockedValid' /\ DirLocked'
  BY DEF OneCpuInv, LockedValid, DirLocked, HasLock
<1>6. RemovedValid'
  BY DEF OneCpuInv, RemovedValid
<1>7. FreeingAlone'
  <2> SUFFICES ASSUME NEW r \in Procs, pc'[r] = "free"
               PROVE  meta'[cur'[r]].refcnt = 1 /\ want'[r] \notin dirent
    BY DEF FreeingAlone, LastRef
  <2>1. r # p /\ pc[r] = "free" /\ cur'[r] = cur[r] /\ want'[r] = want[r]
    OBVIOUS
  <2>2. LastRef(cur[r]) /\ want[r] \notin dirent /\ cur[r] # None /\ cur[r] \in Entries
    BY <2>1, HasInode DEF OneCpuInv, FreeingAlone
  <2>3. cur[p] # cur[r]
    BY <2>1, <2>2, SoleRef
  <2> QED
    BY <2>1, <2>2, <2>3 DEF LastRef
<1>8. Reached'
  <2> SUFFICES ASSUME NEW m \in Inums, disk[m].used, m \notin dirent
               PROVE  \E r \in Procs : cur'[r] # None /\ want'[r] = m
    BY DEF Reached
  <2>1. PICK r \in Procs : cur[r] # None /\ want[r] = m
    BY DEF OneCpuInv, Reached
  <2>2. CASE r # p
    BY <2>1, <2>2
  <2>3. CASE r = p
    <3>1. data[cur[p]].valid # None
      BY <2>1, <2>3 DEF OneCpuInv, RemovedValid
    <3>2. data[cur[p]].dinode = disk[m] /\ disk[m] \in Dinode
      <4>1. want[p] = meta[cur[p]].inum
        BY RefFacts
      <4>2. data[cur[p]].valid = m /\ data[cur[p]].dinode = disk[data[cur[p]].valid]
        BY <2>1, <2>3, <3>1, <4>1 DEF OneCpuInv, ValidIsDisk
      <4>3. disk[m] \in Dinode
        BY DEF OneCpuInv, DataTypes
      <4> QED
        BY <4>2, <4>3
    <3>3. disk[m].nlink = 0
      <4>1. disk[m].nlink \in 0..1
        BY <3>2 DEF Dinode
      <4>2. disk[m].nlink # 1
        BY Zenon DEF OneCpuInv, Links
      <4> HIDE <1>1, <1>2
      <4> QED
        BY <4>1, <4>2
    <3>4. ~LastRef(cur[p])
      BY <3>1, <3>2, <3>3 DEF ToFree
    <3>5. PICK q \in Procs : q # p /\ cur[q] = cur[p] /\ want[q] = want[p]
      BY <3>4, AnotherRef
    <3> QED
      BY <2>1, <2>3, <3>5
  <2> QED
    BY <2>2, <2>3
<1> QED
  BY <1>3, <1>4, <1>5, <1>6, <1>7, <1>8 DEF OneCpuInv

\* idup adds a reference to an inode that has one already.
LEMMA IdupOneCpu ==
  ASSUME IInv, CountsTell, OneEntry, OneCpuInv, NEW p \in Procs, NEW q \in Procs, Idup(p, q)
  PROVE  OneCpuInv'
<1>1. /\ pc[p] = "ref" /\ pc[q] = "idle" /\ cur[p] # None /\ cur[p] \in Entries
      /\ want[p] \in Inums /\ disk[want[p]].used /\ cur[q] = None
  BY HasInode, RefFacts DEF Idup, IInv, IdleHasNone
<1>2. /\ want' = [want EXCEPT ![q] = want[p]] /\ cur' = [cur EXCEPT ![q] = cur[p]]
      /\ pc' = [pc EXCEPT ![q] = "ref"] /\ UNCHANGED <<data, dlock, disk, dirent, dirlock>>
      /\ meta' = [meta EXCEPT ![cur[p]].refcnt = @ + 1]
  BY DEF Idup, Goto
<1> USE <1>2
<1>3. /\ pc \in [Procs -> Places] /\ cur \in [Procs -> Entries \union {None}]
      /\ want \in [Procs -> Inums \union {None}]
      /\ meta \in [Entries -> [inum : Inums \union {None}, refcnt : Nat]]
  BY DEF IInv, Types, RefTypes
<1>4. /\ pc'[q] = "ref" /\ cur'[q] = cur[p] /\ want'[q] = want[p]
      /\ \A r \in Procs : r # q => pc'[r] = pc[r] /\ cur'[r] = cur[r] /\ want'[r] = want[r]
  BY <1>3
<1> USE <1>4
<1>5. /\ \A j \in Entries : meta'[j].inum = meta[j].inum
      /\ \A j \in Entries : j # cur[p] => meta'[j] = meta[j]
  BY <1>3
<1>6. DataTypes' /\ ValidIsDisk' /\ Links'
  BY <1>5 DEF OneCpuInv, DataTypes, ValidIsDisk, Links
<1>7. OneCpuPlaces'
  BY DEF OneCpuInv, OneCpuPlaces
<1>8. RefUsed'
  BY <1>1 DEF OneCpuInv, RefUsed
<1>9. LockedValid'
  BY DEF OneCpuInv, LockedValid, HasLock
<1>10. DirLocked'
  BY DEF OneCpuInv, DirLocked
<1>11. RemovedValid'
  BY <1>1 DEF OneCpuInv, RemovedValid
<1>12. FreeingAlone'
  <2> SUFFICES ASSUME NEW r \in Procs, pc'[r] = "free"
               PROVE  meta'[cur'[r]].refcnt = 1 /\ want'[r] \notin dirent
    BY DEF FreeingAlone, LastRef
  <2>1. r # q /\ r # p /\ pc[r] = "free" /\ cur'[r] = cur[r] /\ want'[r] = want[r]
    BY <1>1
  <2>2. LastRef(cur[r]) /\ want[r] \notin dirent /\ cur[r] # None /\ cur[r] \in Entries
    BY <2>1, HasInode DEF OneCpuInv, FreeingAlone
  <2>3. cur[p] # cur[r]
    BY <1>1, <2>1, <2>2, SoleRef
  <2> QED
    BY <1>5, <2>1, <2>2, <2>3 DEF LastRef
<1>13. Reached'
  <2> SUFFICES ASSUME NEW m \in Inums, disk[m].used
               PROVE  m \in dirent \/ \E r \in Procs : cur'[r] # None /\ want'[r] = m
    BY DEF Reached
  <2>1. m \in dirent \/ \E r \in Procs : cur[r] # None /\ want[r] = m
    BY DEF OneCpuInv, Reached
  <2> QED
    BY <1>1, <2>1
<1> QED
  BY <1>6, <1>7, <1>8, <1>9, <1>10, <1>11, <1>12, <1>13 DEF OneCpuInv

\* iput of the last reference to an inode without links locks its data.
LEMMA IputLastOneCpu ==
  ASSUME IInv, CountsTell, OneEntry, OneCpuInv, NEW p \in Procs, IputLast(p)
  PROVE  OneCpuInv'
<1> DEFINE i == cur[p]
<1>1. /\ pc[p] = "ref" /\ ToFree(i) /\ cur[p] # None /\ i \in Entries
      /\ want[p] = meta[i].inum /\ want[p] \in Inums
      /\ dlock' = [dlock EXCEPT ![i] = p] /\ pc' = [pc EXCEPT ![p] = "free"]
      /\ UNCHANGED <<meta, data, disk, dirent, dirlock, want, cur>>
  BY HasInode, RefFacts DEF IputLast, Goto
<1> USE <1>1
<1>2. /\ pc \in [Procs -> Places] /\ dlock \in [Entries -> Procs \union {None}]
  BY DEF IInv, Types
<1>3. pc'[p] = "free" /\ \A q \in Procs : q # p => pc'[q] = pc[q]
  BY <1>2
<1>4. LastRef(i) /\ data[i].valid # None /\ data[i].dinode.nlink = 0
  BY DEF ToFree
<1>5. want[p] \notin dirent
  BY <1>4 DEF OneCpuInv, ValidIsDisk, Links
<1>6. LockedValid'
  <2> SUFFICES ASSUME NEW q \in Procs, pc'[q] \in HasLock
               PROVE  dlock'[cur[q]] = q /\ data[cur[q]].valid # None
    BY DEF LockedValid
  <2>1. CASE q = p
    BY <1>2, <1>4, <2>1
  <2>2. CASE q # p
    <3>1. pc[q] \in HasLock /\ pc[q] # "idle"
      BY <1>3, <2>2 DEF HasLock
    <3>2. /\ cur[q] \in Entries /\ dlock[cur[q]] = q /\ data[cur[q]].valid # None
          /\ cur[q] # None
      BY <3>1, HasInode DEF OneCpuInv, LockedValid
    <3>3. cur[q] # cur[p]
      BY <1>4, <2>2, <3>2, SoleRef
    <3> QED
      BY <1>2, <3>2, <3>3
  <2> QED
    BY <2>1, <2>2
<1>7. DataTypes' /\ ValidIsDisk' /\ RefUsed' /\ Links' /\ Reached'
  BY DEF OneCpuInv, DataTypes, ValidIsDisk, RefUsed, Links, Reached
<1>8. OneCpuPlaces'
  BY <1>3 DEF OneCpuInv, OneCpuPlaces, HasLock
<1>9. DirLocked' /\ RemovedValid'
  BY <1>3 DEF OneCpuInv, DirLocked, RemovedValid
<1>10. FreeingAlone'
  BY <1>3, <1>4, <1>5 DEF OneCpuInv, FreeingAlone, LastRef
<1> QED
  BY <1>6, <1>7, <1>8, <1>9, <1>10 DEF OneCpuInv

\* iunlock.
LEMMA IunlockOneCpu ==
  ASSUME IInv, CountsTell, OneEntry, OneCpuInv, NEW p \in Procs, Iunlock(p)
  PROVE  OneCpuInv'
<1>1. /\ pc[p] = "locked" /\ pc' = [pc EXCEPT ![p] = "ref"]
      /\ dlock' = [dlock EXCEPT ![cur[p]] = None]
      /\ UNCHANGED <<meta, data, disk, dirent, dirlock, want, cur>>
  BY DEF Iunlock, Goto
<1> USE <1>1
<1>2. /\ pc \in [Procs -> Places] /\ dlock \in [Entries -> Procs \union {None}]
  BY DEF IInv, Types
<1>3. pc'[p] = "ref" /\ \A q \in Procs : q # p => pc'[q] = pc[q]
  BY <1>2
<1>4. dlock[cur[p]] = p
  BY DEF OneCpuInv, LockedValid, HasLock
<1>5. LockedValid'
  <2> SUFFICES ASSUME NEW q \in Procs, pc'[q] \in HasLock
               PROVE  dlock'[cur[q]] = q /\ data[cur[q]].valid # None
    BY DEF LockedValid
  <2>1. q # p /\ pc[q] \in HasLock /\ pc[q] # "idle"
    BY <1>3 DEF HasLock
  <2>2. cur[q] \in Entries /\ dlock[cur[q]] = q /\ data[cur[q]].valid # None
    BY <2>1, HasInode DEF OneCpuInv, LockedValid
  <2>3. cur[q] # cur[p]
    BY <1>4, <2>1, <2>2
  <2> QED
    BY <1>2, <2>2, <2>3
<1>6. DataTypes' /\ OneCpuPlaces' /\ ValidIsDisk' /\ RefUsed' /\ Links' /\ Reached'
  BY <1>3 DEF OneCpuInv, DataTypes, OneCpuPlaces, ValidIsDisk, RefUsed, Links, Reached
<1>7. DirLocked' /\ FreeingAlone'
  BY <1>3 DEF OneCpuInv, DirLocked, FreeingAlone, LastRef
<1>8. RemovedValid'
  BY <1>3 DEF OneCpuInv, RemovedValid
<1> QED
  BY <1>5, <1>6, <1>7, <1>8 DEF OneCpuInv

LEMMA CreateLinkOneCpu ==
  ASSUME IInv, CountsTell, OneEntry, OneCpuInv, NEW p \in Procs, CreateLink(p)
  PROVE  OneCpuInv'
<1>1. /\ pc[p] = "creating" /\ Iupdate(cur[p], [used |-> TRUE, nlink |-> 1])
      /\ dlock' = [dlock EXCEPT ![cur[p]] = None] /\ dirent' = dirent \union {want[p]}
      /\ dirlock' = None /\ pc' = [pc EXCEPT ![p] = "ref"] /\ UNCHANGED <<meta, want, cur>>
  BY DEF CreateLink, Goto
<1> QED
  BY <1>1, LinkOneCpu, Zenon

\* unlink finds a link to take away: its entry is still in the directory.
LEMMA UnlinkOneCpu ==
  ASSUME IInv, CountsTell, OneEntry, OneCpuInv, NEW p \in Procs, Unlink(p)
  PROVE  OneCpuInv'
<1> DEFINE i == cur[p]
<1>1. /\ pc[p] = "unlinking" /\ i \in Entries /\ want[p] \in Inums /\ want[p] = meta[i].inum
  BY HasInode, RefFacts DEF Unlink
<1>2. data[i].valid = want[p] /\ data[i].dinode = disk[want[p]]
  BY <1>1 DEF OneCpuInv, LockedValid, ValidIsDisk, HasLock
<1>3. want[p] \in dirent
  BY <1>1 DEF OneCpuInv, DirLocked
<1>4. data[i].dinode.nlink = 1 /\ data[i].dinode.used /\ data[i].dinode \in Dinode
  BY <1>1, <1>2, <1>3 DEF OneCpuInv, Links, DataTypes
<1>5. [data[i].dinode EXCEPT !.nlink = @ - 1] = [used |-> TRUE, nlink |-> 0]
  <2>1. PICK u \in BOOLEAN, k \in 0..1 : data[i].dinode = [used |-> u, nlink |-> k]
    BY <1>4 DEF Dinode
  <2>2. u = TRUE /\ k = 1
    BY <1>4, <2>1
  <2>3. [[used |-> u, nlink |-> k] EXCEPT !.nlink = @ - 1] = [used |-> u, nlink |-> k - 1]
    OBVIOUS
  <2>4. k - 1 = 0
    BY <2>2
  <2> QED
    BY <2>1, <2>2, <2>3, <2>4, Zenon
<1>6. /\ Iupdate(cur[p], [used |-> TRUE, nlink |-> 0])
      /\ dlock' = [dlock EXCEPT ![cur[p]] = None] /\ dirent' = dirent \ {want[p]}
      /\ dirlock' = None /\ pc' = [pc EXCEPT ![p] = "ref"] /\ UNCHANGED <<meta, want, cur>>
  BY <1>4, <1>5 DEF Unlink, Goto
<1>7. /\ 0 \in {0, 1} /\ pc[p] \in {"creating", "unlinking"}
      /\ dirent' = IF 0 = 1 THEN dirent \union {want[p]} ELSE dirent \ {want[p]}
  BY <1>1, <1>6
<1> QED
  BY <1>6, <1>7, LinkOneCpu, Zenon

LEMMA LookupOneCpu ==
  ASSUME IInv, CountsTell, OneEntry, OneCpuInv, ~smp, NEW p \in Procs,
         NEW n \in Inums, Lookup(p, n),
         IInv', OneEntry'
  PROVE  OneCpuInv'
<1>1. /\ pc[p] = "idle" /\ dirlock = None /\ n \in dirent /\ UNCHANGED <<dlock, disk, dirent>>
      /\ \/ Iget(p, n, "ref") /\ dirlock' = None
         \/ Iget(p, n, "unlink") /\ dirlock' = p
  BY DEF Lookup
<1>2. CASE Iget(p, n, "ref") /\ dirlock' = None
  BY <1>1, <1>2, IgetOneCpu
<1>3. CASE Iget(p, n, "unlink") /\ dirlock' = p
  BY <1>1, <1>3, IgetOneCpu
<1> QED
  BY <1>1, <1>2, <1>3

LEMMA IallocOneCpu ==
  ASSUME IInv, CountsTell, OneEntry, OneCpuInv, ~smp, NEW p \in Procs, Ialloc(p), IInv', OneEntry'
  PROVE  OneCpuInv'
<1>1. /\ pc[p] = "idle" /\ dirlock = None /\ dirlock' = p /\ UNCHANGED <<dlock, dirent>>
  BY DEF Ialloc
<1>2. PICK n \in Inums :
         /\ ~disk[n].used /\ Iget(p, n, "create")
         /\ disk' = [disk EXCEPT ![n] = [used |-> TRUE, nlink |-> 0]]
  BY Zenon DEF Ialloc, First
<1> QED
  BY <1>1, <1>2, IgetOneCpu, Zenon

\* What the invariant of one CPU is for.
LEMMA OneCpuTells ==
  ASSUME IInv, OneCpuInv
  PROVE  Told
<1>1. InUseNotFree
  <2>1. ASSUME NEW p \in Procs, pc[p] \in {"ref", "create", "unlink"} \union HasLock
        PROVE  disk[want[p]].used
    <3>1. pc[p] # "idle"
      BY <2>1 DEF HasLock
    <3> QED
      BY <2>1, <3>1, HasInode, RefFacts
  <2>2. \A n \in dirent : disk[n].used
    BY DEF OneCpuInv, Links, DataTypes
  <2>3. \A p \in Procs : pc[p] # "panic"
    BY DEF OneCpuInv, OneCpuPlaces, HasLock
  <2> QED
    BY <2>1, <2>2, <2>3 DEF InUseNotFree
<1>2. LockedIsWanted
  <2> SUFFICES ASSUME NEW p \in Procs, pc[p] \in HasLock
               PROVE  data[cur[p]].valid = want[p]
    BY DEF LockedIsWanted
  <2>1. pc[p] # "idle"
    BY DEF HasLock
  <2>2. cur[p] \in Entries /\ want[p] = meta[cur[p]].inum
    BY <2>1, HasInode, RefFacts
  <2> QED
    BY <2>2 DEF OneCpuInv, LockedValid, ValidIsDisk
<1>3. LinkCounts
  BY DEF OneCpuInv, Links, LinkCounts
<1> QED
  BY <1>1, <1>2, <1>3 DEF Told

\* A panic of iget or ialloc changes no inode but one that was free.
LEMMA HaltTells ==
  ASSUME IInv, OneCpuInv, NEW p \in Procs, Halt(p)
  PROVE  Told' /\ panic' # "none"
<1>1. ASSUME NEW n \in Inums
      PROVE  /\ disk[n].used => disk'[n].used
             /\ disk'[n].nlink = 1 <=> disk[n].nlink = 1
  <2>1. CASE disk' = disk
    BY <2>1
  <2>2. CASE \E m \in Inums : ~disk[m].used /\ disk' = [disk EXCEPT ![m] = [used |-> TRUE, nlink |-> 0]]
    <3>1. PICK m \in Inums : ~disk[m].used /\ disk' = [disk EXCEPT ![m] = [used |-> TRUE, nlink |-> 0]]
      BY <2>2
    <3>2. disk[m].nlink # 1
      BY <3>1 DEF OneCpuInv, Links
    <3> QED
      BY <3>1, <3>2 DEF OneCpuInv, DataTypes
  <2> QED
    BY <2>1, <2>2, Zenon DEF Halt, First
<1>2. UNCHANGED <<meta, data, dirent, pc, want, cur>> /\ panic' # "none"
  BY DEF Halt
<1>3. ASSUME NEW q \in Procs, pc[q] \in {"ref", "create", "unlink"} \union HasLock
      PROVE  want[q] \in Inums /\ disk[want[q]].used
  <2>1. pc[q] # "idle"
    BY <1>3 DEF HasLock
  <2> QED
    BY <2>1, HasInode, RefFacts
<1>4. InUseNotFree'
  <2>1. \A q \in Procs : pc[q] \in {"ref", "create", "unlink"} \union HasLock => disk'[want[q]].used
    BY <1>1, <1>3
  <2>2. \A n \in dirent : disk'[n].used
    BY <1>1 DEF OneCpuInv, Links, DataTypes
  <2>3. \A q \in Procs : pc[q] # "panic"
    BY DEF OneCpuInv, OneCpuPlaces, HasLock
  <2> QED
    BY <1>2, <2>1, <2>2, <2>3 DEF InUseNotFree
<1>5. LockedIsWanted'
  <2>1. \A q \in Procs : pc[q] \in HasLock => data[cur[q]].valid = want[q]
    <3> SUFFICES ASSUME NEW q \in Procs, pc[q] \in HasLock
                 PROVE  data[cur[q]].valid = want[q]
      OBVIOUS
    <3>1. pc[q] # "idle"
      BY DEF HasLock
    <3>2. cur[q] \in Entries /\ want[q] = meta[cur[q]].inum
      BY <3>1, HasInode, RefFacts
    <3> QED
      BY <3>2 DEF OneCpuInv, LockedValid, ValidIsDisk
  <2> QED
    BY <1>2, <2>1 DEF LockedIsWanted
<1>6. LinkCounts'
  BY <1>1, <1>2 DEF OneCpuInv, Links, LinkCounts
<1> QED
  BY <1>2, <1>4, <1>5, <1>6 DEF Told

\* A step that changes nothing.
LEMMA StutterOneCpu ==
  ASSUME OneCpuInv, UNCHANGED vars
  PROVE  OneCpuInv'
BY DEF vars, OneCpuInv, DataTypes, OneCpuPlaces, ValidIsDisk, LockedValid, RefUsed, Links,
   DirLocked, RemovedValid, FreeingAlone, LastRef, Reached

LEMMA InitOneCpu == Init => UInv
<1> SUFFICES ASSUME Init PROVE OneCpuInv
  BY DEF UInv, Init
<1>1. /\ disk = [n \in Inums |-> IF n \in dirent THEN [used |-> TRUE, nlink |-> 1]
                                                 ELSE [used |-> FALSE, nlink |-> 0]]
      /\ dirent \subseteq Inums
  BY DEF Init
<1>2. ASSUME NEW n \in Inums
      PROVE  /\ disk[n] \in Dinode
             /\ disk[n].nlink = 1 <=> n \in dirent
             /\ disk[n].used <=> n \in dirent
  <2>1. CASE n \in dirent
    <3>1. disk[n] = [used |-> TRUE, nlink |-> 1]
      BY <1>1, <2>1
    <3> QED
      BY <2>1, <3>1 DEF Dinode
  <2>2. CASE n \notin dirent
    <3>1. disk[n] = [used |-> FALSE, nlink |-> 0]
      BY <1>1, <2>2
    <3> QED
      BY <2>2, <3>1 DEF Dinode
  <2> QED
    BY <2>1, <2>2
<1>3. DataTypes
  <2>1. [used |-> FALSE, nlink |-> 0] \in Dinode
    BY DEF Dinode
  <2>2. data \in [Entries -> [valid : Inums \union {None}, dinode : Dinode]]
    BY <2>1 DEF Init
  <2>3. disk \in [Inums -> Dinode]
    BY <1>1, <1>2
  <2> QED
    BY <1>1, <2>2, <2>3 DEF DataTypes
<1>4. Links /\ Reached
  BY <1>1, <1>2, Zenon DEF Links, Reached
<1>5. \A p \in Procs : pc[p] = "idle" /\ cur[p] = None
  BY DEF Init
<1>6. \A i \in Entries : data[i].valid = None
  BY DEF Init
<1> QED
  BY <1>3, <1>4, <1>5, <1>6 DEF OneCpuInv, OneCpuPlaces, ValidIsDisk, LockedValid, RefUsed,
     DirLocked, RemovedValid, FreeingAlone, HasLock

\* Every step on one CPU keeps the invariant; the steps between the critical
\* sections of iget and iput do not occur there.
LEMMA NextOneCpu ==
  IInv /\ CountsTell /\ OneEntry /\ UInv /\ [Next]_vars /\ IInv' /\ OneEntry' => UInv'
<1> SUFFICES ASSUME IInv, CountsTell, OneEntry, UInv, [Next]_vars, IInv', OneEntry', ~smp
             PROVE  UInv'
  BY DEF UInv, Next, vars
<1>1. CASE UNCHANGED vars
  <2>1. CASE panic = "none"
    <3>1. OneCpuInv'
      BY <1>1, <2>1, StutterOneCpu DEF UInv
    <3> QED
      BY <1>1, <2>1, <3>1 DEF UInv, vars
  <2>2. CASE panic # "none"
    <3>1. Told'
      BY <1>1, <2>2 DEF UInv, vars, Told, InUseNotFree, LockedIsWanted, LinkCounts
    <3> QED
      BY <1>1, <2>2, <3>1 DEF UInv, vars
  <2> QED
    BY <2>1, <2>2
<1>2. CASE Next
  <2>1. panic = "none" /\ OneCpuInv
    BY <1>2 DEF Next, UInv
  <2>2. PICK p \in Procs : (Step(p) /\ UNCHANGED panic) \/ Halt(p)
    BY <1>2 DEF Next
  <2>3. CASE Step(p) /\ UNCHANGED panic
    <3>1. ~IgetClear(p) /\ ~IputFreed(p)
      BY <2>1 DEF IgetClear, IputFreed, OneCpuInv, OneCpuPlaces, HasLock
    <3>2. OneCpuInv'
      BY <2>1, <2>3, <3>1, LookupOneCpu, IdupOneCpu, IallocOneCpu, IlockOneCpu, IunlockOneCpu,
         CreateLinkOneCpu, UnlinkOneCpu, IputOneCpu, IputLastOneCpu, IputFreeOneCpu DEF Step
    <3> QED
      BY <2>1, <2>3, <3>2 DEF UInv
  <2>4. CASE Halt(p)
    <3>1. Told' /\ panic' # "none"
      BY <2>1, <2>4, HaltTells
    <3> QED
      BY <3>1 DEF UInv
  <2> QED
    BY <2>2, <2>3, <2>4
<1> QED
  BY <1>1, <1>2

-----------------------------------------------------------------------------
(***************************************************************************)
(* One entry for an inode: iget changes an entry's inode only when no      *)
(* entry has the one it wants, and nothing else changes it.                *)
(***************************************************************************)
LEMMA IgetOneEntry ==
  ASSUME IInv, OneEntry, NEW p \in Procs, NEW n \in Inums, NEW loc,
         Iget(p, n, loc)
  PROVE  OneEntry'
<1>1. PICK i \in Entries :
       /\ IF Having(n) # {} THEN meta[i].inum = n ELSE meta[i].refcnt = 0
       /\ meta' = [meta EXCEPT ![i] =
            [inum |-> n, refcnt |-> IF Having(n) # {} THEN @.refcnt + 1 ELSE 1]]
       /\ data' = IF Having(n) # {} \/ smp THEN data ELSE Clear(i)
       /\ want' = [want EXCEPT ![p] = n]
       /\ cur' = [cur EXCEPT ![p] = i]
       /\ Goto(p, IF Having(n) # {} \/ ~smp THEN loc
                  ELSE CASE loc = "ref"    -> "clear"
                         [] loc = "create" -> "clear_create"
                         [] loc = "unlink" -> "clear_unlink")
  BY IgetFacts, Zenon
<1>2. meta \in [Entries -> [inum : Inums \union {None}, refcnt : Nat]]
  BY DEF IInv, Types, RefTypes
<1>3. CASE Having(n) # {}
  <2>1. \A j \in Entries : meta'[j].inum = meta[j].inum
    BY <1>1, <1>2, <1>3
  <2> QED
    BY <2>1 DEF OneEntry
<1>4. CASE Having(n) = {}
  <2>1. /\ meta'[i].inum = n
        /\ \A j \in Entries \ {i} : meta'[j].inum = meta[j].inum /\ meta[j].inum # n
    BY <1>1, <1>2, <1>4 DEF Having
  <2> QED
    BY <2>1 DEF OneEntry
<1> QED
  BY <1>3, <1>4

LEMMA SameInums ==
  ASSUME OneEntry, \A j \in Entries : meta'[j].inum = meta[j].inum
  PROVE  OneEntry'
BY DEF OneEntry

LEMMA ReleaseOneEntry ==
  ASSUME IInv, OneEntry, NEW p \in Procs, Release(p)
  PROVE  OneEntry'
<1>1. \A j \in Entries : meta'[j].inum = meta[j].inum
  BY DEF Release, IInv, Types, RefTypes
<1> QED
  BY <1>1, SameInums

LEMMA NextOneEntry == IInv /\ OneEntry /\ [Next]_vars => OneEntry'
<1> SUFFICES ASSUME IInv, OneEntry, [Next]_vars PROVE OneEntry'
  OBVIOUS
<1>1. CASE UNCHANGED meta
  BY <1>1, SameInums
<1>2. ASSUME NEW p \in Procs, NEW n \in Inums, Lookup(p, n)
      PROVE  OneEntry'
  BY <1>2, IgetOneEntry DEF Lookup
<1>3. ASSUME NEW p \in Procs, Ialloc(p)
      PROVE  OneEntry'
  <2>1. PICK n \in Inums : Iget(p, n, "create")
    BY <1>3, Zenon DEF Ialloc, First
  <2> QED
    BY <2>1, IgetOneEntry
<1>4. ASSUME NEW p \in Procs, NEW q \in Procs, Idup(p, q)
      PROVE  OneEntry'
  <2>1. \A j \in Entries : meta'[j].inum = meta[j].inum
    BY <1>4 DEF Idup, IInv, Types, RefTypes
  <2> QED
    BY <2>1, SameInums
<1>5. ASSUME NEW p \in Procs, Iput(p) \/ IputFree(p) \/ IputFreed(p)
      PROVE  OneEntry'
  BY <1>1, <1>5, ReleaseOneEntry DEF Iput, IputFree, IputFreed
<1>6. CASE UNCHANGED vars
  BY <1>1, <1>6 DEF vars
<1>7. CASE Next
  BY <1>1, <1>2, <1>3, <1>4, <1>5, <1>7, Zenon
     DEF Next, Step, IgetClear, Ilock, Iunlock, CreateLink, Unlink, IputLast, Halt
<1> QED
  BY <1>6, <1>7

-----------------------------------------------------------------------------
(***************************************************************************)
(* The steps that leave the references alone.                              *)
(***************************************************************************)
\* A holder keeps what HoldersRefer says when another process moves.
LEMMA OthersHold ==
  ASSUME IInv, NEW p \in Procs, pc[p] \notin HasLock \union {"panic"}, dlock' = dlock,
         \A q \in Procs \ {p} : cur'[q] = cur[q] /\ pc'[q] = pc[q]
  PROVE  HoldersRefer'
<1> SUFFICES ASSUME NEW i \in Entries, dlock[i] # None
             PROVE  cur'[dlock[i]] = i /\ pc'[dlock[i]] \in HasLock \union {"panic"}
  BY DEF HoldersRefer
<1>1. dlock[i] \in Procs /\ cur[dlock[i]] = i /\ pc[dlock[i]] \in HasLock \union {"panic"}
  BY DEF IInv, Types, HoldersRefer
<1>2. dlock[i] # p
  BY <1>1
<1> QED
  BY <1>1, <1>2

\* A step that leaves the references alone.
LEMMA SameRefs ==
  ASSUME RefTypes, RefcntCounts, UNCHANGED <<meta, want, cur>>
  PROVE  RefTypes' /\ RefcntCounts'
<1>1. \A i : Refs(i)' = Refs(i)
  BY DEF Refs
<1> QED
  BY <1>1 DEF RefTypes, RefcntCounts

\* A process that has an inode goes on, and leaves the lock as it is, takes it
\* or drops it.
LEMMA StepKeeps ==
  ASSUME IInv, NEW p \in Procs, pc[p] # "idle", UNCHANGED <<meta, want, cur>>,
         NEW loc \in Places \ {"idle"}, pc' = [pc EXCEPT ![p] = loc],
         \/ /\ dlock' = dlock
            /\ pc[p] \notin HasLock \union {"panic"} \/ loc \in HasLock \union {"panic"}
         \/ dlock' = [dlock EXCEPT ![cur[p]] = None]
         \/ dlock' = [dlock EXCEPT ![cur[p]] = p] /\ loc \in HasLock \union {"panic"}
  PROVE  IInv'
<1>1. cur[p] \in Entries /\ cur[p] # None
  BY DEF IInv, IdleHasNone, Types, RefTypes
<1>2. RefTypes' /\ RefcntCounts'
  BY SameRefs DEF IInv, Types
<1>3. Types'
  BY <1>1, <1>2 DEF IInv, Types
<1>4. IdleHasNone'
  BY <1>1 DEF IInv, Types, IdleHasNone
<1>5. ASSUME NEW i \in Entries, dlock'[i] # None
      PROVE  cur[dlock'[i]] = i /\ pc'[dlock'[i]] \in HasLock \union {"panic"}
  <2>1. pc'[p] = loc
    BY DEF IInv, Types
  <2>2. CASE dlock'[i] = dlock[i] /\ dlock[i] # p
    <3>1. /\ dlock[i] \in Procs /\ cur[dlock[i]] = i
          /\ pc[dlock[i]] \in HasLock \union {"panic"}
      BY <1>5, <2>2 DEF IInv, Types, HoldersRefer
    <3> QED
      BY <2>2, <3>1 DEF IInv, Types
  <2>3. CASE dlock'[i] = dlock[i] /\ dlock[i] = p
    <3>1. cur[p] = i /\ pc[p] \in HasLock \union {"panic"}
      BY <1>5, <2>3 DEF IInv, HoldersRefer
    <3>2. dlock' # [dlock EXCEPT ![cur[p]] = None]
      BY <1>5, <3>1 DEF IInv, Types
    <3> QED
      BY <2>1, <2>3, <3>1, <3>2
  <2>4. CASE dlock'[i] # dlock[i]
    <3>1. dlock' = [dlock EXCEPT ![cur[p]] = p] /\ loc \in HasLock \union {"panic"}
      BY <1>1, <1>5, <2>4 DEF IInv, Types
    <3>2. i = cur[p] /\ dlock'[i] = p
      BY <1>1, <1>5, <2>4, <3>1 DEF IInv, Types
    <3> QED
      BY <2>1, <3>1, <3>2
  <2> QED
    BY <2>2, <2>3, <2>4
<1>6. HoldersRefer'
  BY <1>5 DEF HoldersRefer
<1> QED
  BY <1>2, <1>3, <1>4, <1>6 DEF IInv

LEMMA IgetClearKeeps ==
  ASSUME IInv, NEW p \in Procs, IgetClear(p)
  PROVE  IInv'
<1> DEFINE loc == CASE pc[p] = "clear"        -> "ref"
                    [] pc[p] = "clear_create" -> "create"
                    [] pc[p] = "clear_unlink" -> "unlink"
<1>1. pc[p] \in {"clear", "clear_create", "clear_unlink"}
  BY DEF IgetClear
<1>2. loc \in {"ref", "create", "unlink"}
  BY <1>1
<1>3. pc' = [pc EXCEPT ![p] = loc] /\ dlock' = dlock /\ UNCHANGED <<meta, want, cur>>
  BY DEF IgetClear, Goto
<1> HIDE DEF loc
<1> QED
  BY <1>1, <1>2, <1>3, StepKeeps, Zenon DEF Places, HasLock

LEMMA IlockKeeps ==
  ASSUME IInv, NEW p \in Procs, Ilock(p)
  PROVE  IInv'
<1> DEFINE loc == IF data[cur[p]].valid = None /\ ~disk[want[p]].used THEN "panic"
                  ELSE Locked(pc[p])
<1>1. pc[p] \in {"ref", "create", "unlink"}
  BY DEF Ilock
<1>2. loc \in {"panic", "locked", "creating", "unlinking"}
  BY <1>1 DEF Locked
<1>3. /\ pc' = [pc EXCEPT ![p] = loc] /\ UNCHANGED <<meta, want, cur>>
      /\ dlock' = [dlock EXCEPT ![cur[p]] = p]
  BY DEF Ilock, Goto
<1> HIDE DEF loc
<1> QED
  BY <1>1, <1>2, <1>3, StepKeeps, Zenon DEF Places, HasLock

LEMMA IunlockKeeps ==
  ASSUME IInv, NEW p \in Procs, Iunlock(p)
  PROVE  IInv'
BY StepKeeps, Zenon DEF Iunlock, Goto, Places

LEMMA CreateLinkKeeps ==
  ASSUME IInv, NEW p \in Procs, CreateLink(p)
  PROVE  IInv'
BY StepKeeps, Zenon DEF CreateLink, Goto, Places

LEMMA UnlinkKeeps ==
  ASSUME IInv, NEW p \in Procs, Unlink(p)
  PROVE  IInv'
<1>1. CASE data[cur[p]].dinode.nlink < 1
  BY <1>1, StepKeeps DEF Unlink, Goto, Places
<1>2. CASE ~(data[cur[p]].dinode.nlink < 1)
  BY <1>2, StepKeeps DEF Unlink, Goto, Places
<1> QED
  BY <1>1, <1>2

LEMMA IputLastKeeps ==
  ASSUME IInv, NEW p \in Procs, IputLast(p)
  PROVE  IInv'
BY StepKeeps, Zenon DEF IputLast, Goto, Places, HasLock

-----------------------------------------------------------------------------
(***************************************************************************)
(* The references of an entry and their number.                            *)
(***************************************************************************)
INSTANCE FiniteSetTheorems

\* The references to an entry are finitely many.
LEMMA RefsFinite ==
  ASSUME NEW i
  PROVE  IsFiniteSet(Refs(i)) /\ Cardinality(Refs(i)) \in Nat
<1>1. Refs(i) \in SUBSET Procs
  BY DEF Refs
<1>2. IsFiniteSet(Refs(i))
  BY <1>1, FS_Subset, InodeTableAssumption
<1> QED
  BY <1>2, FS_CardinalityType

\* An entry with a count of 0 has no references.
LEMMA ZeroMeansNone ==
  ASSUME RefcntCounts, NEW i \in Entries
  PROVE  meta[i].refcnt = 0 <=> Refs(i) = {}
BY RefsFinite, FS_EmptySet DEF RefcntCounts

\* An entry with a count of 1 has one reference.
LEMMA OneMeansOnly ==
  ASSUME RefcntCounts, NEW i \in Entries, meta[i].refcnt = 1,
         NEW p \in Refs(i), NEW q \in Refs(i)
  PROVE  p = q
<1>1. Cardinality(Refs(i)) = 1 /\ IsFiniteSet(Refs(i))
  BY RefsFinite DEF RefcntCounts
<1>2. PICK x : Refs(i) = {x}
  BY <1>1, FS_Singleton, Zenon
<1> QED
  BY <1>2

\* The counts tell which entries have no reference, and which have one.
LEMMA CountsDoTell ==
  ASSUME RefcntCounts
  PROVE  CountsTell
<1> SUFFICES ASSUME NEW i \in Entries
             PROVE  /\ meta[i].refcnt = 0 => Refs(i) = {}
                    /\ meta[i].refcnt = 1 => \A p, q \in Refs(i) : p = q
                    /\ meta[i].refcnt # 1 => \A p \in Refs(i) : \E q \in Refs(i) : q # p
  BY DEF CountsTell
<1>1. meta[i].refcnt = 0 => Refs(i) = {}
  BY ZeroMeansNone
<1>2. meta[i].refcnt = 1 => \A p, q \in Refs(i) : p = q
  BY OneMeansOnly
<1>3. ASSUME meta[i].refcnt # 1, NEW p \in Refs(i)
      PROVE  \E q \in Refs(i) : q # p
  <2>1. Cardinality(Refs(i)) # 1
    BY <1>3 DEF RefcntCounts
  <2>2. Refs(i) # {p}
    BY <2>1, FS_Singleton, Zenon
  <2> QED
    BY <1>3, <2>2
<1> QED
  BY <1>1, <1>2, <1>3

\* One more reference, to an entry whose count goes up by one and that has the
\* inode or had no references.
LEMMA CountIn ==
  ASSUME RefTypes, RefcntCounts, NEW p \in Procs, cur[p] = None,
         NEW i \in Entries, NEW n \in Inums \union {None}, NEW c \in Nat, c = meta[i].refcnt + 1,
         meta[i].inum = n \/ meta[i].refcnt = 0,
         meta' = [meta EXCEPT ![i] = [inum |-> n, refcnt |-> c]],
         want' = [want EXCEPT ![p] = n],
         cur' = [cur EXCEPT ![p] = i]
  PROVE  RefTypes' /\ RefcntCounts'
<1>1. RefTypes'
  BY DEF RefTypes
<1>2. ASSUME NEW j \in Entries
      PROVE  /\ meta'[j].refcnt = Cardinality(Refs(j)')
             /\ \A q \in Refs(j)' : want'[q] = meta'[j].inum
  <2>1. None # j /\ None # i
    BY InodeTableAssumption, <1>2 DEF Entries
  <2>2. CASE j = i
    <3>1. Refs(i)' = Refs(i) \union {p} /\ p \notin Refs(i)
      BY <2>1, <2>2 DEF Refs, RefTypes
    <3>2. Cardinality(Refs(i) \union {p}) = Cardinality(Refs(i)) + 1
      BY <3>1, RefsFinite, FS_AddElement, Zenon
    <3>3. meta'[i].refcnt = meta[i].refcnt + 1 /\ meta'[i].inum = n
      BY DEF RefTypes
    <3>4. meta[i].refcnt = Cardinality(Refs(i))
      BY DEF RefcntCounts
    <3>5. ASSUME NEW q \in Refs(i)'
          PROVE  want'[q] = n
      <4>1. CASE q = p
        BY <4>1 DEF RefTypes
      <4>2. CASE q # p
        <5>1. q \in Refs(i) /\ q \in Procs
          BY <3>1, <3>5, <4>2 DEF Refs
        <5>2. want[q] = meta[i].inum /\ meta[i].refcnt # 0
          BY <5>1, ZeroMeansNone DEF RefcntCounts
        <5> QED
          BY <5>1, <5>2, <4>2 DEF RefTypes
      <4> QED
        BY <4>1, <4>2
    <3> QED
      BY <2>2, <3>1, <3>2, <3>3, <3>4, <3>5
  <2>3. CASE j # i
    <3>1. Refs(j)' = Refs(j) /\ p \notin Refs(j)
      BY <2>1, <2>3 DEF Refs, RefTypes
    <3>2. meta'[j] = meta[j]
      BY <2>3 DEF RefTypes
    <3>3. \A q \in Refs(j) : want'[q] = want[q]
      BY <3>1 DEF Refs, RefTypes
    <3> QED
      BY <3>1, <3>2, <3>3 DEF RefcntCounts
  <2> QED
    BY <2>2, <2>3
<1> QED
  BY <1>1, <1>2 DEF RefcntCounts

\* One reference less.
LEMMA CountOut ==
  ASSUME RefTypes, RefcntCounts, NEW p \in Procs, cur[p] # None, Release(p)
  PROVE  RefTypes' /\ RefcntCounts'
<1> DEFINE i == cur[p]
<1>1. i \in Entries /\ p \in Refs(i)
  BY DEF RefTypes, Refs
<1>2. /\ IsFiniteSet(Refs(i)) /\ Cardinality(Refs(i)) \in Nat
      /\ Refs(i) # {} /\ Cardinality(Refs(i)) # 0
  BY <1>1, RefsFinite, FS_EmptySet
<1>3. meta[i].refcnt = Cardinality(Refs(i)) /\ meta[i].refcnt - 1 \in Nat
  BY <1>1, <1>2 DEF RefcntCounts
<1>4. RefTypes'
  BY <1>1, <1>3 DEF RefTypes, Release
<1>5. ASSUME NEW j \in Entries
      PROVE  /\ meta'[j].refcnt = Cardinality(Refs(j)')
             /\ \A q \in Refs(j)' : want'[q] = meta'[j].inum
  <2>1. None # j
    BY InodeTableAssumption, <1>5 DEF Entries
  <2>2. Refs(j)' = Refs(j) \ {p}
    BY <2>1 DEF Refs, RefTypes, Release
  <2>3. meta'[j].inum = meta[j].inum
    BY <1>5 DEF RefTypes, Release
  <2>4. \A q \in Refs(j)' : want'[q] = meta'[j].inum
    BY <2>2, <2>3, Zenon DEF RefcntCounts, Refs, RefTypes, Release
  <2>5. CASE j = i
    <3>1. Cardinality(Refs(i) \ {p}) = Cardinality(Refs(i)) - 1
      BY <1>1, <1>2, FS_RemoveElement, Zenon
    <3>2. meta'[i].refcnt = meta[i].refcnt - 1
      BY <1>1 DEF RefTypes, Release
    <3> QED
      BY <1>3, <2>2, <2>4, <2>5, <3>1, <3>2
  <2>6. CASE j # i
    <3>1. Refs(j)' = Refs(j) /\ meta'[j] = meta[j]
      BY <2>2, <2>6 DEF Refs, RefTypes, Release
    <3> QED
      BY <3>1, <2>4 DEF RefcntCounts
  <2> QED
    BY <2>5, <2>6
<1> QED
  BY <1>4, <1>5 DEF RefcntCounts

LEMMA InitIInv == Init => IInv
<1> SUFFICES ASSUME Init PROVE IInv
  OBVIOUS
<1>1. \A i \in Entries : Refs(i) = {}
  BY InodeTableAssumption DEF Init, Refs, Entries
<1>2. RefcntCounts
  BY <1>1, FS_EmptySet, Zenon DEF Init, RefcntCounts
<1> QED
  BY <1>2, InodeTableAssumption DEF Init, IInv, Types, RefTypes, IdleHasNone, HoldersRefer, Places

LEMMA IgetKeeps ==
  ASSUME IInv, NEW p \in Procs, NEW n \in Inums, pc[p] = "idle",
         NEW loc \in {"ref", "create", "unlink"}, Iget(p, n, loc), dlock' = dlock
  PROVE  IInv'
<1>1. cur[p] = None
  BY DEF IInv, IdleHasNone
<1>2. PICK i \in Entries :
       /\ IF Having(n) # {} THEN meta[i].inum = n ELSE meta[i].refcnt = 0
       /\ meta' = [meta EXCEPT ![i] =
            [inum |-> n, refcnt |-> IF Having(n) # {} THEN @.refcnt + 1 ELSE 1]]
       /\ data' = IF Having(n) # {} \/ smp THEN data ELSE Clear(i)
       /\ want' = [want EXCEPT ![p] = n]
       /\ cur' = [cur EXCEPT ![p] = i]
       /\ Goto(p, IF Having(n) # {} \/ ~smp THEN loc
                  ELSE CASE loc = "ref"    -> "clear"
                         [] loc = "create" -> "clear_create"
                         [] loc = "unlink" -> "clear_unlink")
  BY IgetFacts, Zenon
<1> DEFINE c == IF Having(n) # {} THEN meta[i].refcnt + 1 ELSE 1
           after == IF Having(n) # {} \/ ~smp THEN loc
                    ELSE CASE loc = "ref"    -> "clear"
                           [] loc = "create" -> "clear_create"
                           [] loc = "unlink" -> "clear_unlink"
<1>3. i \in Entries /\ (IF Having(n) # {} THEN meta[i].inum = n ELSE meta[i].refcnt = 0)
  BY <1>2
<1>4. after \in {"ref", "create", "unlink", "clear", "clear_create", "clear_unlink"}
  OBVIOUS
<1>5. /\ meta' = [meta EXCEPT ![i] = [inum |-> n, refcnt |-> c]]
      /\ want' = [want EXCEPT ![p] = n]
      /\ cur' = [cur EXCEPT ![p] = i]
      /\ pc' = [pc EXCEPT ![p] = after]
  BY <1>2 DEF Goto
<1>6. c \in Nat /\ c = meta[i].refcnt + 1
  BY <1>3 DEF IInv, Types, RefTypes
<1> HIDE DEF c, after
<1>7. RefTypes' /\ RefcntCounts'
  BY <1>1, <1>3, <1>5, <1>6, CountIn, Zenon DEF IInv, Types
<1>8. Types'
  BY <1>4, <1>5, <1>7 DEF IInv, Types, Places
<1>9. IdleHasNone'
  BY <1>3, <1>4, <1>5, InodeTableAssumption
     DEF IInv, Types, RefTypes, IdleHasNone, Entries
<1>10. HoldersRefer'
  <2>1. pc[p] \notin HasLock \union {"panic"}
    BY DEF HasLock
  <2>2. \A q \in Procs \ {p} : cur'[q] = cur[q] /\ pc'[q] = pc[q]
    BY <1>5 DEF IInv, Types, RefTypes
  <2> QED
    BY <2>1, <2>2, OthersHold
<1> QED
  BY <1>7, <1>8, <1>9, <1>10 DEF IInv

LEMMA LookupKeeps ==
  ASSUME IInv, NEW p \in Procs, NEW n \in Inums, Lookup(p, n)
  PROVE  IInv'
BY IgetKeeps DEF Lookup

LEMMA IallocKeeps ==
  ASSUME IInv, NEW p \in Procs, Ialloc(p)
  PROVE  IInv'
<1>1. PICK n \in Inums : pc[p] = "idle" /\ Iget(p, n, "create") /\ dlock' = dlock
  BY Zenon DEF Ialloc, First
<1> QED
  BY <1>1, IgetKeeps

LEMMA IdupKeeps ==
  ASSUME IInv, NEW p \in Procs, NEW q \in Procs, Idup(p, q)
  PROVE  IInv'
<1> DEFINE i == cur[p]
           c == meta[i].refcnt + 1
<1>1. cur[q] = None /\ i \in Entries /\ p \in Refs(i)
  BY DEF Idup, IInv, IdleHasNone, Types, RefTypes, Refs
<1>2. want[p] = meta[i].inum /\ meta[i].refcnt = Cardinality(Refs(i))
  BY <1>1 DEF IInv, RefcntCounts
<1>3. c \in Nat /\ meta[i].inum \in Inums \union {None}
  BY <1>1 DEF IInv, Types, RefTypes
<1>4. [meta[i] EXCEPT !.refcnt = c] = [inum |-> meta[i].inum, refcnt |-> c]
  BY <1>1 DEF IInv, Types, RefTypes
<1>5. meta' = [meta EXCEPT ![i] = [inum |-> meta[i].inum, refcnt |-> c]]
  BY <1>4, Zenon DEF Idup
<1>6. /\ want' = [want EXCEPT ![q] = meta[i].inum]
      /\ cur' = [cur EXCEPT ![q] = i]
      /\ pc' = [pc EXCEPT ![q] = "ref"]
      /\ dlock' = dlock /\ pc[q] = "idle"
  BY <1>2 DEF Idup, Goto
<1> USE <1>6
<1> HIDE DEF i, c
<1>7. RefTypes' /\ RefcntCounts'
  BY <1>1, <1>3, <1>5, CountIn, Zenon DEF IInv, Types, c
<1>8. Types'
  BY <1>7 DEF IInv, Types, Places
<1>9. IdleHasNone'
  BY <1>1, InodeTableAssumption DEF IInv, Types, RefTypes, IdleHasNone, Entries
<1>10. HoldersRefer'
  <2>1. pc[q] \notin HasLock \union {"panic"}
    BY DEF HasLock
  <2>2. \A r \in Procs \ {q} : cur'[r] = cur[r] /\ pc'[r] = pc[r]
    BY DEF IInv, Types, RefTypes
  <2> QED
    BY <2>1, <2>2, OthersHold
<1> QED
  BY <1>7, <1>8, <1>9, <1>10 DEF IInv

\* The last step of iput, after which nobody's lock is the process's.
LEMMA ReleaseKeeps ==
  ASSUME IInv, NEW p \in Procs, pc[p] # "idle", Release(p),
         \/ dlock' = dlock /\ pc[p] \notin HasLock \union {"panic"}
         \/ dlock' = [dlock EXCEPT ![cur[p]] = None]
  PROVE  IInv'
<1>1. cur[p] \in Entries /\ cur[p] # None
  BY DEF IInv, IdleHasNone, Types, RefTypes
<1>2. RefTypes' /\ RefcntCounts'
  BY <1>1, CountOut DEF IInv, Types
<1>3. Types'
  BY <1>1, <1>2 DEF IInv, Types, Release, Goto, Places
<1>4. IdleHasNone'
  BY DEF IInv, Types, RefTypes, IdleHasNone, Release, Goto
<1>5. ASSUME NEW i \in Entries, dlock'[i] # None
      PROVE  cur'[dlock'[i]] = i /\ pc'[dlock'[i]] \in HasLock \union {"panic"}
  <2>1. dlock'[i] = dlock[i] /\ dlock[i] \in Procs
    BY <1>1, <1>5 DEF IInv, Types
  <2>2. cur[dlock[i]] = i /\ pc[dlock[i]] \in HasLock \union {"panic"}
    BY <1>5, <2>1 DEF IInv, HoldersRefer
  <2>3. dlock[i] # p
    BY <1>1, <1>5, <2>1, <2>2 DEF IInv, Types
  <2> QED
    BY <2>1, <2>2, <2>3 DEF Release, Goto, IInv, Types, RefTypes
<1>6. HoldersRefer'
  BY <1>5 DEF HoldersRefer
<1> QED
  BY <1>2, <1>3, <1>4, <1>6 DEF IInv

LEMMA IputKeeps ==
  ASSUME IInv, NEW p \in Procs, Iput(p)
  PROVE  IInv'
BY ReleaseKeeps DEF Iput, HasLock

LEMMA IputFreeKeeps ==
  ASSUME IInv, NEW p \in Procs, IputFree(p)
  PROVE  IInv'
<1>1. pc[p] = "free" /\ dlock' = [dlock EXCEPT ![cur[p]] = None]
  BY DEF IputFree
<1>2. CASE smp
  BY <1>1, <1>2, StepKeeps, Zenon DEF IputFree, Goto, Places
<1>3. CASE ~smp
  BY <1>1, <1>3, ReleaseKeeps, Zenon DEF IputFree
<1> QED
  BY <1>2, <1>3

LEMMA IputFreedKeeps ==
  ASSUME IInv, NEW p \in Procs, IputFreed(p)
  PROVE  IInv'
BY ReleaseKeeps DEF IputFreed, HasLock

LEMMA NextKeeps == IInv /\ [Next]_vars => IInv'
<1> SUFFICES ASSUME IInv, [Next]_vars PROVE IInv'
  OBVIOUS
<1>1. CASE UNCHANGED vars
  BY <1>1, SameRefs DEF vars, IInv, Types, IdleHasNone, HoldersRefer
<1>2. ASSUME NEW p \in Procs, Step(p) PROVE IInv'
  BY <1>2, LookupKeeps, IdupKeeps, IallocKeeps, IgetClearKeeps, IlockKeeps, IunlockKeeps,
     CreateLinkKeeps, UnlinkKeeps, IputKeeps, IputLastKeeps, IputFreeKeeps, IputFreedKeeps
     DEF Step
<1>3. ASSUME NEW p \in Procs, Halt(p) PROVE IInv'
  BY <1>3, SameRefs DEF Halt, IInv, Types, IdleHasNone, HoldersRefer
<1> QED
  BY <1>1, <1>2, <1>3 DEF Next

-----------------------------------------------------------------------------
(***************************************************************************)
(* The theorems.                                                           *)
(***************************************************************************)
\* The table's counts, locks and places in the code stay consistent.
THEOREM InodeTableInvariant == Spec => []IInv
  BY InitIInv, NextKeeps, PTL DEF Spec

\* The count of an entry is the number of Inode values that refer to it, and
\* they all want the inode it has: iget and iput never miscount, and iget never
\* gives away an entry in use.
THEOREM InodeTableRefcntCounts == Spec => []RefcntCounts
<1>1. IInv => RefcntCounts
  BY DEF IInv
<1> QED
  BY <1>1, InodeTableInvariant, PTL

\* iput, with `meta` locked, never waits for the sleep-lock of the data, as
\* fs.rs:132 argues: the only reference is its own, and its own holds no lock.
THEOREM InodeTableIputDoesNotBlock == Spec => []IputDoesNotBlock
<1>1. IInv => IputDoesNotBlock
  <2> SUFFICES ASSUME IInv, NEW p \in Procs, pc[p] = "ref", meta[cur[p]].refcnt = 1,
                      dlock[cur[p]] # None
               PROVE  FALSE
    BY DEF IputDoesNotBlock
  <2> DEFINE q == dlock[cur[p]]
  <2>1. cur[p] \in Entries /\ p \in Refs(cur[p])
    BY DEF IInv, IdleHasNone, Types, RefTypes, Refs
  <2>2. q \in Procs /\ q \in Refs(cur[p]) /\ pc[q] \in HasLock \union {"panic"}
    BY <2>1 DEF IInv, Types, HoldersRefer, Refs
  <2>3. q = p
    BY <2>1, <2>2, OneMeansOnly DEF IInv
  <2> QED
    BY <2>2, <2>3 DEF HasLock
<1> QED
  BY <1>1, InodeTableInvariant, PTL

\* iget's panic for want of an entry means what it says, on any number of CPUs
\* and for any size of the table: each entry is somebody's inode.  No entry is
\* lost to a reference that has gone.
THEOREM InodeTableNoEntryMeansHeld == Spec => []NoEntryMeansHeld
<1>1. Init => NoEntryMeansHeld
  BY DEF Init, NoEntryMeansHeld
<1>2. IInv /\ NoEntryMeansHeld /\ [Next]_vars => NoEntryMeansHeld'
  <2> SUFFICES ASSUME IInv, NoEntryMeansHeld, [Next]_vars, panic' = "no entry", NEW i \in Entries
               PROVE  Refs(i)' # {}
    BY DEF NoEntryMeansHeld
  <2>1. CASE UNCHANGED vars
    BY <2>1 DEF vars, NoEntryMeansHeld, Refs
  <2>2. CASE Next
    <3>1. PICK p \in Procs : Halt(p)
      BY <2>2 DEF Next
    <3>2. Unreferenced = {} /\ UNCHANGED cur
      BY <3>1 DEF Halt, NoEntry
    <3>3. Refs(i) # {}
      BY <3>2, ZeroMeansNone DEF IInv, Unreferenced
    <3> QED
      BY <3>2, <3>3 DEF Refs
  <2> QED
    BY <2>1, <2>2
<1> QED
  BY <1>1, <1>2, InodeTableInvariant, PTL DEF Spec

\* An inode is in one entry of the table at most, also when several CPUs look
\* it up: all who use it meet at the same lock.
THEOREM InodeTableOneEntry == Spec => []OneEntry
<1>1. Init => OneEntry
  BY DEF Init, OneEntry
<1> QED
  BY <1>1, InodeTableInvariant, NextOneEntry, PTL DEF Spec

LEMMA OneCpuInvariant == Spec => []UInv
<1>1. IInv => CountsTell
  BY CountsDoTell DEF IInv
<1> QED
  BY <1>1, InitOneCpu, NextOneCpu, InodeTableInvariant, InodeTableOneEntry, PTL DEF Spec

\* On one CPU an inode that someone refers to, or that is in the directory, is
\* allocated on the disk, and neither ilock's "no type" nor unlink's "nlink < 1"
\* panics: iput frees an inode only when nobody can come by it again.
THEOREM InodeTableInUseNotFree == Spec => []InUseNotFree
<1>1. IInv /\ UInv => InUseNotFree
  <2>1. smp => InUseNotFree
    BY DEF InUseNotFree
  <2> QED
    BY <2>1, OneCpuTells DEF UInv, Told
<1> QED
  BY <1>1, InodeTableInvariant, OneCpuInvariant, PTL

\* On one CPU unlinked files do not leak: an inode without a link and without
\* a reference is free on the disk.
THEOREM InodeTableNoLeak == Spec => []NoLeak
<1>1. UInv => NoLeak
  BY DEF UInv, OneCpuInv, Reached, NoLeak
<1> QED
  BY <1>1, OneCpuInvariant, PTL

\* On one CPU "the information in an node table entry is only correct when
\* `valid` is some" (fs.rs:20) is enough: who has locked an inode has the
\* data of the inode it asked for.
THEOREM InodeTableLockedIsWanted == Spec => []LockedIsWanted
<1>1. IInv /\ UInv => LockedIsWanted
  <2>1. smp => LockedIsWanted
    BY DEF LockedIsWanted
  <2> QED
    BY <2>1, OneCpuTells DEF UInv, Told
<1> QED
  BY <1>1, InodeTableInvariant, OneCpuInvariant, PTL

\* On one CPU the link count on the disk is 1 exactly for the inodes in the
\* directory.
THEOREM InodeTableLinkCounts == Spec => []LinkCounts
<1>1. IInv /\ UInv => LinkCounts
  <2>1. smp => LinkCounts
    BY DEF LinkCounts
  <2> QED
    BY <2>1, OneCpuTells DEF UInv, Told
<1> QED
  BY <1>1, InodeTableInvariant, OneCpuInvariant, PTL
=============================================================================
