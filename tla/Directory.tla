----------------------------- MODULE Directory ------------------------------
(***************************************************************************)
(* Names (fs.rs): directories and their entries, a step of the walk over a *)
(* path, and what the calls that create and remove names do once they have *)
(* the parent directory locked.  They work on a record t, the tree: for    *)
(* each inode its type, link count and references, its entries if it is a  *)
(* directory and its size if it is a file.  The blocks behind are in       *)
(* FileBlocks, the locks and entries of the inode table in InodeTable.     *)
(***************************************************************************)
EXTENDS Naturals, Sequences, SequencesExt, FiniteSetsExt

CONSTANTS
  NINODES,     \* SB.ninodes
  DIRSIZ,      \* bytes of a name
  Paths        \* paths that processes use: sequences of characters

ASSUME DirectoryAssumption ==
  /\ NINODES \in Nat /\ DIRSIZ \in Nat /\ NINODES > 1 /\ DIRSIZ > 2
  /\ \A s \in Paths : s # <<>>

ROOTINO == 1
Inums == 1 .. NINODES - 1
NUL == "0"
Slash == "/"
Dot == <<".">>
DotDot == <<".", ".">>

-----------------------------------------------------------------------------
(***************************************************************************)
(* skip_elem and namex.  A path ends in NUL; a position counts from 1, so  *)
(* that the 0 which skip_elem returns at the end is no position.  The name *)
(* buffer is never cleared: what an element longer than its successor has  *)
(* left stays behind the successor's NUL.                                  *)
(***************************************************************************)
EmptyName == [k \in 1..DIRSIZ |-> NUL]

SkipSlashes(path, i) == Min({j \in i..Len(path) : path[j] # Slash})
EndOfElem(path, i) == Min({j \in i..Len(path) : path[j] \in {Slash, NUL}})

\* Mutant: the copied element is not ended by a NUL.
SkipElemNoNul(path, cur, name) ==
  LET s == SkipSlashes(path, cur)
      e == EndOfElem(path, s)
      len == Min({e - s, DIRSIZ - 1})
  IN IF path[s] = NUL THEN [cur |-> 0, name |-> name]
     ELSE [cur |-> SkipSlashes(path, e),
           name |-> [k \in 1..DIRSIZ |-> IF k <= len THEN path[s + k - 1] ELSE name[k]]]

SkipElem(path, cur, name) ==
  LET s == SkipSlashes(path, cur)
      e == EndOfElem(path, s)
      len == Min({e - s, DIRSIZ - 1})
  IN IF path[s] = NUL THEN [cur |-> 0, name |-> name]
     ELSE [cur |-> SkipSlashes(path, e),
           name |-> [k \in 1..DIRSIZ |-> IF k <= len THEN path[s + k - 1]
                                         ELSE IF k = len + 1 THEN NUL ELSE name[k]]]

\* A name as it is compared and stored: up to its NUL.
CStr(name) == SubSeq(name, 1, Min({k \in 1..DIRSIZ : name[k] = NUL} \union {DIRSIZ + 1}) - 1)

\* What successive calls of skip_elem return on a path: the name buffer, the
\* string in it, and whether the path ends there.
RECURSIVE SkipElems(_, _, _)
SkipElems(path, cur, name) ==
  LET e == SkipElem(path, cur, name)
  IN IF e.cur = 0 THEN <<>>
     ELSE <<[name |-> e.name, str |-> CStr(e.name), last |-> path[e.cur] = NUL]>>
            \o SkipElems(path, e.cur, e.name)

Elems == [s \in Paths |-> SkipElems(Append(s, NUL), 1, EmptyName)]

\* dirlookup: the first entry in use with this name, or 0.
Slots(t, d) == DOMAIN t.ents[d]
Dirlookup(t, d, str) ==
  LET hits == {i \in Slots(t, d) : t.ents[d][i].inum # 0 /\ t.ents[d][i].name = str}
  IN IF hits = {} THEN 0 ELSE Min(hits)

-----------------------------------------------------------------------------
(***************************************************************************)
(* References: iget and idup count one in, iput one out.  The last one of  *)
(* an inode without links frees it; InodeTable shows that such an inode is *)
(* valid, but for one that is free already.                                *)
(***************************************************************************)
Iget(t, n) == [t EXCEPT !.ref[n] = @ + 1]

Iput(t, n) ==
  LET frees == t.ref[n] = 1 /\ t.nlink[n] = 0 /\ t.typ[n] # "empty"
  IN [t EXCEPT !.ref[n] = @ - 1,
               !.typ[n] = IF frees THEN "empty" ELSE @,
               !.ents[n] = IF frees THEN <<>> ELSE @,
               !.size[n] = IF frees THEN 0 ELSE @]

\* Where namex starts.
StartOf(s, cwd) == IF s[1] = Slash THEN ROOTINO ELSE cwd

\* Mutant: the next inode's reference is not counted.
NamexStepUncounted(t, at, e, parent) ==
  LET i == Dirlookup(t, at, e.str)
      stays(u, res) == [t |-> u, at |-> at, res |-> res]
  IN CASE t.typ[at] = "empty" -> stays(t, "no type")
       [] t.typ[at] # "dir"   -> stays(Iput(t, at), "none")
       [] parent /\ e.last    -> stays(t, "walk")
       [] i = 0               -> stays(Iput(t, at), "none")
       [] OTHER               -> [t |-> Iput(t, at), at |-> t.ents[at][i].inum, res |-> "walk"]

\* One turn of namex's loop, at inode `at` with element e: ilock, which panics
\* if the inode has no type, dirlookup, and the references that change.
NamexStep(t, at, e, parent) ==
  LET i == Dirlookup(t, at, e.str)
      next == t.ents[at][i].inum
      stays(u, res) == [t |-> u, at |-> at, res |-> res]
  IN CASE t.typ[at] = "empty" -> stays(t, "no type")
       [] t.typ[at] # "dir"   -> stays(Iput(t, at), "none")
       [] parent /\ e.last    -> stays(t, "walk")
       [] i = 0               -> stays(Iput(t, at), "none")
       [] OTHER               -> [t |-> Iput(Iget(t, next), at), at |-> next, res |-> "walk"]

\* namei when nobody else runs: its turns, one after the other.
Namei(t, s, cwd) ==
  FoldLeft(LAMBDA w, e : IF w.res # "walk" THEN w ELSE NamexStep(w.t, w.at, e, FALSE),
           [t |-> Iget(t, StartOf(s, cwd)), at |-> StartOf(s, cwd), res |-> "walk"], Elems[s])

-----------------------------------------------------------------------------
(***************************************************************************)
(* dirlink, ialloc, create, unlink, from where they lock the parent d with *)
(* the last element e.  A result is the tree after the call, "ok", "err",  *)
(* the message of a panic, or "self" for a call that waits for a sleep-lock*)
(* it holds, and the inode that create returns.                            *)
(***************************************************************************)
Result(t, res) == [t |-> t, res |-> res, inode |-> 0]

\* The first entry not in use is taken, or the directory grows.
Dirlink(entries, s, n) ==
  LET unused == {i \in DOMAIN entries : entries[i].inum = 0}
      e == [inum |-> n, name |-> s]
  IN IF unused = {} THEN Append(entries, e) ELSE [entries EXCEPT ![Min(unused)] = e]

\* Mutant: a new directory's ".." is the directory itself.
NewEntriesSelf(n, d) == <<[inum |-> n, name |-> Dot], [inum |-> n, name |-> DotDot]>>
NewEntries(n, d) == <<[inum |-> n, name |-> Dot], [inum |-> d, name |-> DotDot]>>

Unused(t) == {n \in Inums : t.typ[n] = "empty"}

\* The new inode linked into directory d.
Linked(t, d, s, n, type) ==
  LET made == [t EXCEPT !.typ[n] = type, !.nlink[n] = 1, !.size[n] = 0,
                        !.ents[n] = IF type = "dir" THEN NewEntries(n, d) ELSE <<>>]
  IN [made EXCEPT !.ents[d] = Dirlink(@, s, n),
                  !.nlink[d] = IF type = "dir" THEN @ + 1 ELSE @]

Create(t, d, e, type) ==
  LET n == Min(Unused(t))
  IN CASE t.typ[d] = "empty"              -> Result(t, "no type")
       [] Unused(t) = {}                  -> Result(t, "no free inodes")
       [] Dirlookup(t, d, e.str) # 0      -> Result(t, "dirlink")
       [] OTHER -> [t |-> Iput(Linked(Iget(t, n), d, e.str, n, type), d),
                    res |-> "ok", inode |-> n]

IsDirEmpty(t, n) == \A i \in Slots(t, n) : i > 2 => t.ents[n][i].inum = 0

\* The whole buffer is compared with "." and "..".
NameIs(name, s) == name = [k \in 1..DIRSIZ |-> IF k <= Len(s) THEN s[k] ELSE NUL]

\* Entry i of d, which names n, is cleared.
Unlinked(t, d, i, n) ==
  LET cut == [t EXCEPT !.ents[d][i] = [inum |-> 0, name |-> <<>>],
                       !.nlink[d] = IF t.typ[n] = "dir" THEN @ - 1 ELSE @]
  IN [cut EXCEPT !.nlink[n] = @ - 1]

Unlink(t, d, e) ==
  LET i == Dirlookup(t, d, e.str)
      n == t.ents[d][i].inum
      u == Iget(t, n)
      isdir == t.typ[n] = "dir"
  IN CASE NameIs(e.name, Dot) \/ NameIs(e.name, DotDot) -> Result(Iput(t, d), "err")
       [] t.typ[d] = "empty"         -> Result(t, "no type")
       [] i = 0                      -> Result(Iput(t, d), "err")
       [] n = d                      -> Result(t, "self")
       [] t.typ[n] = "empty"         -> Result(t, "no type")
       [] t.nlink[n] < 1             -> Result(t, "nlink < 1")
       [] isdir /\ ~IsDirEmpty(t, n) -> Result(Iput(Iput(u, n), d), "err")
       [] OTHER                      -> Result(Iput(Iput(Unlinked(u, d, i, n), d), n), "ok")

\* The file system that mkfs makes, without its programs.
NewTree ==
  [typ   |-> [n \in Inums |-> IF n = ROOTINO THEN "dir" ELSE "empty"],
   nlink |-> [n \in Inums |-> IF n = ROOTINO THEN 1 ELSE 0],
   ents  |-> [n \in Inums |-> IF n = ROOTINO THEN NewEntries(ROOTINO, ROOTINO) ELSE <<>>],
   size  |-> [n \in Inums |-> 0],
   ref   |-> [n \in Inums |-> 0]]
=============================================================================
