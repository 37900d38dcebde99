----------------------------- MODULE FileBlocks -----------------------------
(***************************************************************************)
(* The blocks of files: the allocator (bmap.rs) and InodeData's bmap,      *)
(* readi, writei and itrunc (fs.rs).  A block is an array of W words; a    *)
(* word is a datum or a block number.  Who calls holds the inode's         *)
(* sleep-lock, so a call is one step.  Each file writes words of its own,  *)
(* and a write starts within the file: the file's contents are known from  *)
(* its size.                                                               *)
(***************************************************************************)
EXTENDS Naturals, Sequences, SequencesExt, FiniteSetsExt

CONSTANTS
  Files,      \* numbers, each the word that the file consists of
  W,          \* BSIZE in words, hence NINDIRECT and NDINDIRECT
  NDIRECT,
  NBLOCKS,    \* blocks of the disk; block 0 is the boot block
  MaxN        \* bound: words of one call

ASSUME FileBlocksAssumption ==
  /\ Files \subseteq Nat \ {0}
  /\ W \in Nat \ {0} /\ NDIRECT \in Nat \ {0} /\ NBLOCKS \in Nat

MAXFILE == NDIRECT + W + W * W            \* blocks of a file
MaxSize == MAXFILE * W

Blocks == 0..NBLOCKS - 1
Zeroed == [i \in 0..W - 1 |-> 0]
Junk == [i \in 0..W - 1 |-> 1]

VARIABLES
  disk,   \* the bitmap's set of blocks in use, the blocks, alloc's panic, and
          \* whether bmap has taken block 0 for a table
  addrs,  \* DiskInode.addrs of each file
  size,   \* DiskInode.size of each file
  lost    \* blocks of double indirect tables whose inode is gone

vars == <<disk, addrs, size, lost>>

Init ==
  /\ disk = [used |-> {0}, blk |-> [b \in Blocks |-> Zeroed], panic |-> FALSE, wild |-> FALSE]
  /\ addrs = [f \in Files |-> [k \in 0..NDIRECT + 1 |-> 0]]
  /\ size = [f \in Files |-> 0]
  /\ lost = {}

-----------------------------------------------------------------------------
(***************************************************************************)
(* bmap.rs.                                                                *)
(***************************************************************************)
Full(d) == Blocks \subseteq d.used
FirstFree(d) == IF Full(d) THEN 0 ELSE Min(Blocks \ d.used)

\* Mutant: the bit is not set in the bitmap.
AllocUnmarked(d) ==
  IF Full(d) THEN [d EXCEPT !.panic = TRUE] ELSE [d EXCEPT !.blk[FirstFree(d)] = Zeroed]

\* alloc: the first free block, marked and zeroed; it panics when there is
\* none.
Alloc(d) ==
  IF Full(d) THEN [d EXCEPT !.panic = TRUE]
  ELSE [d EXCEPT !.used = @ \union {FirstFree(d)}, !.blk[FirstFree(d)] = Zeroed]

\* free; BlocksOwned rules out its panic "freeing free block".  What a free
\* block holds is one junk word: alloc zeroes the block before its next use.
FreeAll(d, bs) ==
  [d EXCEPT !.used = @ \ bs, !.blk = [b \in Blocks |-> IF b \in bs THEN Junk ELSE @[b]]]

-----------------------------------------------------------------------------
(***************************************************************************)
(* InodeData::bmap, on a record of the disk, the file's addrs and the      *)
(* block number returned.                                                  *)
(***************************************************************************)

\* The block in addrs[k], allocated if there is none.
InAddrs(m, k) ==
  IF m.a[k] # 0 THEN [m EXCEPT !.bn = m.a[k]]
  ELSE [d |-> Alloc(m.d), a |-> [m.a EXCEPT ![k] = FirstFree(m.d)], bn |-> FirstFree(m.d)]

\* The block in entry i of the table in block m.bn.  If there is none a block
\* is allocated and entered in the table, but bmap goes on with the 0: below a
\* table that is new it looks in block 0, which is no table.
InTable(m, i) ==
  LET bn == m.d.blk[m.bn][i]
      d == [m.d EXCEPT !.wild = @ \/ m.bn = 0]
  IN IF bn # 0 THEN [m EXCEPT !.d = d, !.bn = bn]
     ELSE [m EXCEPT !.d = [Alloc(d) EXCEPT !.blk[m.bn][i] = FirstFree(d)], !.bn = 0]

Bmap(m, offset) ==
  LET i == offset - NDIRECT
      j == i - W
  IN IF offset < NDIRECT THEN InAddrs(m, offset)
     ELSE IF i < W THEN InTable(InAddrs(m, NDIRECT), i)
     ELSE InTable(InTable(InAddrs(m, NDIRECT + 1), j \div W), j % W)

M(f) == [d |-> disk, a |-> addrs[f], bn |-> 0]

-----------------------------------------------------------------------------
(***************************************************************************)
(* writei of n words at `off`: block by block, bmap and then the words.    *)
(***************************************************************************)
WriteBlock(m, f, offset, from, to) ==
  LET b == Bmap(m, offset)
      words == {i \in 0..W - 1 : from <= offset * W + i /\ offset * W + i < to}
  IN IF b.bn \notin Blocks THEN [b EXCEPT !.d.panic = TRUE]   \* a word of block 0
     ELSE [b EXCEPT !.d.blk[b.bn] = [i \in 0..W - 1 |-> IF i \in words THEN f ELSE @[i]]]

NewSize(old, end) == IF end > old THEN end ELSE old

Writei(f, off, n) ==
  LET first == off \div W
      last == (off + n - 1) \div W
      m == FoldLeft(LAMBDA a, o : WriteBlock(a, f, o, off, off + n), M(f),
                    [k \in 1 .. last - first + 1 |-> first + k - 1])
  IN /\ off <= size[f] /\ off + n <= MaxSize      \* else writei fails
     /\ ~m.d.panic          \* a full disk stops the kernel
     /\ disk' = m.d
     /\ addrs' = [addrs EXCEPT ![f] = m.a]
     /\ size' = [size EXCEPT ![f] = NewSize(@, off + n)]
     /\ UNCHANGED lost

-----------------------------------------------------------------------------
(***************************************************************************)
(* itrunc, for open with O_TRUNC and for iput of a file without links; the *)
(* double indirect block stays.                                            *)
(***************************************************************************)
NonZero(S) == S \ {0}

\* Mutant: the blocks of the indirect table stay.
IndirectShallow(d, a) == NonZero({a[NDIRECT]})

\* The indirect table's blocks, and its own.
Indirect(d, a) ==
  IF a[NDIRECT] = 0 THEN {}
  ELSE NonZero({d.blk[a[NDIRECT]][i] : i \in 0..W - 1}) \union {a[NDIRECT]}

Freed(f) == NonZero({addrs[f][k] : k \in 0..NDIRECT - 1}) \union Indirect(disk, addrs[f])

Itrunc(f) ==
  /\ disk' = FreeAll(disk, Freed(f))
  /\ addrs' = [addrs EXCEPT ![f] = [k \in 0..NDIRECT + 1 |-> IF k <= NDIRECT THEN 0 ELSE @[k]]]
  /\ size' = [size EXCEPT ![f] = 0]
  /\ UNCHANGED lost

\* Blocks reached through a table.
Entries(b) == NonZero({disk.blk[b][i] : i \in 0..W - 1})

\* The double indirect block of a file, its tables, and their blocks.
DoubleIndirect(f) ==
  LET t == addrs[f][NDIRECT + 1]
  IN IF t = 0 THEN {} ELSE {t} \union Entries(t) \union UNION {Entries(b) : b \in Entries(t)}

\* iput frees the inode, and ialloc zeroes it when it is used again.
RemoveFile(f) ==
  /\ disk' = FreeAll(disk, Freed(f))
  /\ addrs' = [addrs EXCEPT ![f] = [k \in 0..NDIRECT + 1 |-> 0]]
  /\ size' = [size EXCEPT ![f] = 0]
  /\ lost' = lost \union DoubleIndirect(f)

Step(f) ==
  \/ \E off \in 0..MaxSize, n \in 1..MaxN : Writei(f, off, n)
  \/ Itrunc(f)
  \/ RemoveFile(f)

Next == \E f \in Files : Step(f)

Spec == Init /\ [][Next]_vars

-----------------------------------------------------------------------------
(***************************************************************************)
(* Properties.                                                             *)
(***************************************************************************)

\* Types of the disk and of DiskInode.
TypeOK ==
  /\ disk.used \subseteq Blocks
  /\ disk.blk \in [Blocks -> [0..W - 1 -> Nat]]
  /\ addrs \in [Files -> [0..NDIRECT + 1 -> Blocks]]
  /\ size \in [Files -> 0..MaxSize]

\* The blocks of a file, those of its tables included.
BlocksOf(f) ==
  LET a == addrs[f]
  IN NonZero({a[k] : k \in 0..NDIRECT})
       \union (IF a[NDIRECT] = 0 THEN {} ELSE Entries(a[NDIRECT]))
       \union DoubleIndirect(f)

\* The tables of all files.
Tables ==
  UNION {LET a == addrs[f]
         IN NonZero({a[NDIRECT], a[NDIRECT + 1]})
              \union (IF a[NDIRECT + 1] = 0 THEN {} ELSE Entries(a[NDIRECT + 1])) : f \in Files}

\* The bitmap marks the blocks of files and no others, and each has one place
\* that refers to it: no block is free while in use, shared, or freed twice
\* (the panic of bmap.rs's free), and none is lost but the double indirect ones
\* of removed files, which itrunc leaves.  This is so until a write needs a new
\* table in the double indirect range: bmap then enters the block it allocates
\* in block 0, where no file finds it, and may write to any block that a word of
\* block 0 names (fs.rs:583-601).
BlocksOwned ==
  ~disk.wild =>
  /\ disk.used = {0} \union lost \union UNION {BlocksOf(f) : f \in Files}
  /\ Cardinality(disk.used) - 1 - Cardinality(lost) =
       Cardinality({p \in Files \X (0..NDIRECT + 1) : addrs[p[1]][p[2]] # 0})
         + Cardinality({p \in Tables \X (0..W - 1) : disk.blk[p[1]][p[2]] # 0})

\* The word at position off as readi finds it.
WordAt(f, off) == LET b == Bmap(M(f), off \div W) IN b.d.blk[b.bn][off % W]

\* readi runs outside a transaction in File::read: bmap must find the block
\* there and not allocate one, or LOG.write panics ("out of trans", log.rs:91).
ReadsDoNotAllocate ==
  \A f \in Files : \A off \in 0..MaxSize :
    off < size[f] => Bmap(M(f), off \div W).d = disk

\* bmap "Returns the disk block number of the offset'th data block in the
\* inode" (fs.rs:529): what was written to a file is what is read.
ReadBack ==
  \A f \in Files : \A off \in 0..MaxSize : off < size[f] => WordAt(f, off) = f
=============================================================================
