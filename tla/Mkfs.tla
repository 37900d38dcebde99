-------------------------------- MODULE Mkfs --------------------------------
(***************************************************************************)
(* The file system's image (mkfs/src/main.rs) under the kernel's block code*)
(* (FileBlocks).  mkfs runs first, on the host: it puts one program after  *)
(* another into the image, with block arithmetic of its own, and then says *)
(* in the bitmap what it has used.  The kernel then works on the image.    *)
(* An image's word tells where it belongs, so that a word in a wrong place *)
(* is seen.                                                                *)
(***************************************************************************)
EXTENDS FileBlocks

CONSTANTS
  Root,       \* the root directory among Files
  Lengths,    \* words of the programs that mkfs may be given: functions
  MaxCalls    \* bound: calls of the kernel

Progs == Files \ {Root}

ASSUME MkfsAssumption ==
  /\ Root \in Files
  /\ \A l \in Lengths : DOMAIN l \subseteq Progs /\ l \in [DOMAIN l -> Nat]
  /\ MaxCalls \in Nat

VARIABLES
  phase,      \* "mkfs" or "kernel"
  len,        \* words of each program on the host; its domain are the programs
  FREE_BLOCK, \* the next block that mkfs takes
  todo,       \* programs that mkfs has still to write
  whole,      \* files that the kernel has not written to
  fresh,      \* programs of which nothing of the image is left
  calls       \* calls of the kernel

mkvars == <<vars, phase, len, FREE_BLOCK, todo, whole, fresh, calls>>

\* An entry of the root directory, or a word of a program, on the host.
Word(f, off) == 100 * f + off

-----------------------------------------------------------------------------
(***************************************************************************)
(* iappend.  Its locals: the blocks, the inode's addrs, the number of the  *)
(* block looked up, and FREE_BLOCK.                                        *)
(***************************************************************************)

\* The block in addrs[k], taken if there is none.
MkAddrs(m, k) ==
  IF m.a[k] # 0 THEN [m EXCEPT !.bn = m.a[k]]
  ELSE [m EXCEPT !.a[k] = m.free, !.bn = m.free, !.free = @ + 1]

\* The block in entry i of the table in block m.bn, taken if there is none.
MkTable(m, i) ==
  LET bn == m.blk[m.bn][i]
  IN IF bn # 0 THEN [m EXCEPT !.bn = bn]
     ELSE [m EXCEPT !.blk[m.bn][i] = m.free, !.bn = m.free, !.free = @ + 1]

\* Mutant: the first table of the double indirect block is used for all.
MkBmapOneTable(m, fbn) ==
  LET i == fbn - NDIRECT
      j == i - W
  IN IF fbn < NDIRECT THEN MkAddrs(m, fbn)
     ELSE IF i < W THEN MkTable(MkAddrs(m, NDIRECT), i)
     ELSE MkTable(MkTable(MkAddrs(m, NDIRECT + 1), 0), j % W)

MkBmap(m, fbn) ==
  LET i == fbn - NDIRECT
      j == i - W
  IN IF fbn < NDIRECT THEN MkAddrs(m, fbn)
     ELSE IF i < W THEN MkTable(MkAddrs(m, NDIRECT), i)
     ELSE MkTable(MkTable(MkAddrs(m, NDIRECT + 1), j \div W), j % W)

\* The words `src` at the end of a file, within one block.
Iappend(m, off, src) ==
  LET b == MkBmap(m, off \div W)
      at == off % W
  IN [b EXCEPT !.blk[b.bn] = [i \in 0..W - 1 |-> IF i >= at /\ i < at + Len(src)
                                                  THEN src[i - at + 1] ELSE @[i]]]

\* What is read into the buffer for piece k of a program: it is not cleared,
\* and behind the program's end it keeps the piece before.
Piece(f, n, k) ==
  [i \in 1..W |->
     LET off == k * W + i - 1
     IN IF off < n THEN Word(f, off) ELSE IF k > 0 THEN Word(f, off - W) ELSE 0]

Pieces(n) == (n + W - 1) \div W

-----------------------------------------------------------------------------
\* Locals of iappend on a file with these addrs.
Mk(blk, a, free) == [blk |-> blk, a |-> a, bn |-> 0, free |-> free]

\* An entry at the end of the root directory.
MkEntry(m, off) == Iappend(m, off, <<Word(Root, off)>>)

\* The image is zeroed, and the root directory gets "." and "..".
MkInit ==
  LET zeroes == [b \in Blocks |-> Zeroed]
      none == [k \in 0..NDIRECT + 1 |-> 0]
      m == MkEntry(MkEntry(Mk(zeroes, none, 1), 0), 1)
  IN /\ len \in Lengths
     /\ phase = "mkfs" /\ FREE_BLOCK = m.free
     /\ todo = SetToSortSeq(DOMAIN len, <)
     /\ disk = [used |-> {}, blk |-> m.blk, panic |-> FALSE, wild |-> FALSE]
     /\ addrs = [f \in Files |-> IF f = Root THEN m.a ELSE none]
     /\ size = [f \in Files |-> IF f = Root THEN 2 ELSE 0]
     /\ lost = {} /\ calls = 0
     /\ whole = Files /\ fresh = Progs \ DOMAIN len

\* A program: its entry, then its pieces, each in full.
MkProgram ==
  LET f == Head(todo)
      e == MkEntry(Mk(disk.blk, addrs[Root], FREE_BLOCK), size[Root])
      m == FoldLeft(LAMBDA v, k : Iappend(v, k * W, Piece(f, len[f], k)),
                    Mk(e.blk, addrs[f], e.free), [k \in 1..Pieces(len[f]) |-> k - 1])
  IN /\ phase = "mkfs" /\ todo # <<>>
     /\ Pieces(len[f]) <= MAXFILE           \* iappend's assert stops mkfs
     /\ todo' = Tail(todo)
     /\ disk' = [disk EXCEPT !.blk = m.blk]
     /\ addrs' = [addrs EXCEPT ![Root] = e.a, ![f] = m.a]
     /\ size' = [size EXCEPT ![Root] = @ + 1, ![f] = Pieces(len[f]) * W]
     /\ FREE_BLOCK' = m.free
     /\ UNCHANGED <<phase, len, whole, fresh, lost, calls>>

\* balloc: the bitmap's blocks in use, which are fewer than a block has bits.
Balloc(free) == 0 .. free - 1

\* At the end the root's size is set to whole blocks, one more if it is whole.
MkFinish ==
  /\ phase = "mkfs" /\ todo = <<>>
  /\ phase' = "kernel"
  /\ size' = [size EXCEPT ![Root] = (@ \div W + 1) * W]
  /\ disk' = [disk EXCEPT !.used = Balloc(FREE_BLOCK)]
  /\ UNCHANGED <<addrs, len, FREE_BLOCK, todo, whole, fresh, lost, calls>>

-----------------------------------------------------------------------------
\* dirlookup of a name that is not in the root directory: bmap of all blocks.
RootScan ==
  LET m == FoldLeft(LAMBDA v, o : Bmap(v, o), M(Root),
                    [k \in 1..size[Root] \div W |-> k - 1])
  IN /\ ~m.d.panic
     /\ disk' = m.d
     /\ addrs' = [addrs EXCEPT ![Root] = m.a]
     /\ UNCHANGED <<size, lost, whole, fresh>>

\* The kernel's calls; the root directory is never truncated.  Nothing is said of
\* what follows once block 0 was taken for a table.
Kernel ==
  /\ phase = "kernel" /\ calls < MaxCalls /\ ~disk.wild
  /\ calls' = calls + 1
  /\ \/ RootScan
     \/ \E off \in 0..size[Root] : Writei(Root, off, 1) /\ whole' = whole \ {Root} /\ UNCHANGED fresh
     \/ \E f \in Progs :
          /\ Step(f)
          /\ whole' = whole \ {f}
          /\ fresh' = IF size'[f] = 0 THEN fresh \union {f} ELSE fresh
  /\ UNCHANGED <<phase, len, FREE_BLOCK, todo>>

MkNext == MkProgram \/ MkFinish \/ Kernel

MkSpec == MkInit /\ [][MkNext]_mkvars

-----------------------------------------------------------------------------
(***************************************************************************)
(* Properties.                                                             *)
(***************************************************************************)

\* The file's words that were put into the image.
ImageLen(f) ==
  IF f = Root THEN 2 + Cardinality(DOMAIN len) ELSE IF f \in DOMAIN len THEN len[f] ELSE 0

\* The root directory's size was rounded up from whole blocks.
Overrun(f, off) == f = Root /\ ImageLen(f) % W = 0 /\ off >= ImageLen(f)

\* What mkfs has put into the image is what the kernel reads, through all kinds
\* of tables and whatever it does to other files; and reading it allocates
\* nothing, but for the block by which mkfs makes the root directory too large.
\* As long as block 0 was not taken for a table.
ImageReadBack ==
  phase = "kernel" /\ ~disk.wild =>
    \A f \in whole : \A off \in 0..size[f] - 1 :
      /\ off < ImageLen(f) => WordAt(f, off) = Word(f, off)
      /\ Bmap(M(f), off \div W).d = disk \/ Overrun(f, off)

\* BlocksOwned, once the kernel runs.
ImageBlocksOwned == phase = "kernel" => BlocksOwned

\* What the kernel has written to the direct blocks of a file that was empty
\* is what is read there, as long as block 0 was not taken for a table.
DirectReadBack ==
  ~disk.wild => \A f \in fresh : \A off \in 0..NDIRECT * W - 1 : off < size[f] => WordAt(f, off) = f
=============================================================================
