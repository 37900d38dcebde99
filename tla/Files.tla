------------------------------- MODULE Files --------------------------------
(***************************************************************************)
(* Open files (file.rs, proc/syscall.rs): descriptor tables, the File      *)
(* objects that they share, current directories, and mappings of files,    *)
(* over the names of Directory.  namex locks one directory at a time, so a *)
(* call on a path is one step for each element and one for the rest; a page*)
(* fault in a mapping is the two steps between which it holds no lock; a   *)
(* call on descriptors is one step.  Sizes and offsets count the units that*)
(* a read, a write or a page moves.                                        *)
(***************************************************************************)
EXTENDS Directory

CONSTANTS
  Procs, InitProc, None,
  NOFILE,      \* descriptors of a process
  MAXFILE,     \* size of a file
  Calls,       \* calls on paths that each process makes: records of op, arg, path
  MaxFiles,    \* bound: Files that stay open
  Mappers,     \* bound: processes that map files
  MapPages,    \* bound: pages of a mapping
  MaxNamed     \* bound: calls that change a name

\* The flags of open.
Modes == [access : {"r", "w", "rw"}, create : BOOLEAN, trunc : BOOLEAN]

ASSUME FilesAssumption ==
  /\ InitProc \in Procs /\ Mappers \subseteq Procs
  /\ {NOFILE, MAXFILE, MaxFiles, MapPages, MaxNamed} \subseteq Nat
  /\ \A s \in Paths : Elems[s] # <<>>
  /\ Calls \in [Procs -> SUBSET
       ([op : {"open"}, arg : Modes, path : Paths]
          \union [op : {"make"}, arg : {"dir", "dev"}, path : Paths]
          \union [op : {"unlink", "chdir"}, arg : {None}, path : Paths])]

FileIds == 1 .. MaxFiles + 1
Fds == 0 .. NOFILE - 1

VARIABLES
  tree,      \* the names and inodes
  alive,     \* processes between fork and exit
  cwd,       \* ProcData.cwd
  o_files,   \* ProcData.o_files: the File behind a descriptor
  file,      \* the Files that exist, with the count of their Arc
  call,      \* a call on a path: what is known of it between two steps
  vma,       \* ProcData.vm_area: at most one mapping of a process
  fault,     \* a page fault between f.seek and f.read
  stop,      \* None, or why the kernel has stopped
  named      \* calls that have changed a name

vars == <<tree, alive, cwd, o_files, file, call, vma, fault, stop, named>>

Init ==
  /\ tree = Iget(NewTree, ROOTINO)
  /\ alive = {InitProc}
  /\ cwd = [p \in Procs |-> IF p = InitProc THEN ROOTINO ELSE None]
  /\ o_files = [p \in Procs |-> [fd \in Fds |-> None]]
  /\ file = [f \in FileIds |-> None]
  /\ call = [p \in Procs |-> None]
  /\ vma = [p \in Procs |-> None]
  /\ fault = [p \in Procs |-> None]
  /\ stop = None /\ named = 0

Running(p) == p \in alive /\ call[p] = None /\ fault[p] = None /\ stop = None

-----------------------------------------------------------------------------
(***************************************************************************)
(* References to Files: Arc counts them, and the last one closes the File, *)
(* which drops its inode.  On a record of the tree and the Files.          *)
(***************************************************************************)
Clone(m, f) == IF f = None THEN m ELSE [m EXCEPT !.files[f].refs = @ + 1]

DropFile(m, f) ==
  IF f = None THEN m
  ELSE IF m.files[f].refs > 1 THEN [m EXCEPT !.files[f].refs = @ - 1]
  ELSE [t |-> Iput(m.t, m.files[f].inode), files |-> [m.files EXCEPT ![f] = None]]

M == [t |-> tree, files |-> file]
Commit(m) == tree' = m.t /\ file' = m.files

\* The Files of p in the order in which fork and exit go over its descriptors.
InTurn(p) == [k \in 1..NOFILE |-> o_files[p][k - 1]]

\* alloc_fd.
FreeFds(p) == {fd \in Fds : o_files[p][fd] = None}
AllocFd(p) == Min(FreeFds(p))

NewFile == Min({f \in FileIds : file[f] = None})

\* The kernel stops.
Panic(why) ==
  /\ stop' = why
  /\ UNCHANGED <<tree, alive, cwd, o_files, file, call, vma, fault, named>>

OpenFiles == {f \in FileIds : file[f] # None}

-----------------------------------------------------------------------------
(***************************************************************************)
(* Calls on a path.  A call has gone over the first k elements of its path *)
(* and refers to the inode `at`, to which the name `by` has led.  create   *)
(* and unlink stop at the parent, which the last element is not looked up  *)
(* in yet.                                                                 *)
(***************************************************************************)
Renames(op) == op \in {"create", "make", "unlink"}
Opens(op) == op \in {"create", "open"}

\* Names may change, and Files come to be, up to the bounds.
Allowed(p, op) ==
  /\ Renames(op) => named < MaxNamed
  /\ Opens(op) =>
       FreeFds(p) = {} \/ Cardinality(OpenFiles)
         + Cardinality({q \in Procs : call[q] # None /\ Opens(call[q].op)}) < MaxFiles

\* Call c of process p after an element e of its path, where a turn of namex has
\* come to r.  A path that leads nowhere ends the call; create panics.
WalkOn(p, c, e, r) ==
  IF r.res = "no type" \/ (r.res = "none" /\ c.op \in {"create", "make"})
  THEN Panic(IF r.res = "none" THEN "parent not found" ELSE r.res)
  ELSE /\ tree' = r.t
       /\ call' = [call EXCEPT ![p] =
            IF r.res = "none" THEN None
            ELSE [c EXCEPT !.k = @ + 1, !.at = r.at,
                           !.by = IF Renames(c.op) /\ e.last THEN @ ELSE e.str]]
       /\ UNCHANGED <<alive, cwd, o_files, file, vma, fault, stop, named>>

\* namex takes a reference to the root or to the current directory and makes its
\* first turn.  It is one step: the process's own reference keeps the start.
Begin(p, x) ==
  LET op == IF x.op = "open" /\ x.arg.create THEN "create" ELSE x.op
      start == StartOf(x.path, cwd[p])
      e == Head(Elems[x.path])
      c == [op |-> op, arg |-> x.arg, path |-> x.path, k |-> 0, at |-> start, by |-> <<>>]
  IN /\ Running(p) /\ Allowed(p, op)
     /\ WalkOn(p, c, e, NamexStep(Iget(tree, start), start, e, Renames(op)))

WalkStep(p) ==
  LET c == call[p]
      e == Elems[c.path][c.k + 1]
  IN /\ c # None /\ stop = None
     /\ c.k < Len(Elems[c.path])
     /\ WalkOn(p, c, e, NamexStep(tree, c.at, e, Renames(c.op)))

\* A call of this kind that has gone over its path.
Arrived(p, op) ==
  /\ call[p] # None /\ stop = None
  /\ call[p].op = op /\ call[p].k = Len(Elems[call[p].path])

LastElem(p) == Last(Elems[call[p].path])

\* The call ends: it has left the tree and the Files in m.
Return(p, m) == Commit(m) /\ call' = [call EXCEPT ![p] = None]

(***************************************************************************)
(* sys_open: File::open, then the descriptor; without one the File is      *)
(* dropped, but what open has created or truncated stays so.               *)
(***************************************************************************)
RdOnly(mode) == mode.access = "r" /\ ~mode.create /\ ~mode.trunc

\* Files on inode n whose offset a truncation has left behind.
Loosened(n) ==
  [f \in FileIds |-> IF file[f] # None /\ file[f].inode = n THEN [file[f] EXCEPT !.loose = TRUE]
                     ELSE file[f]]

\* The rest of open, on the inode found or created, and the descriptor.
OpenEnd(p) ==
  LET mode == call[p].arg
      n == call[p].at
      cuts == mode.trunc /\ tree.typ[n] = "file"
      new == [inode |-> n, off |-> 0, access |-> mode.access, loose |-> FALSE,
              dev |-> tree.typ[n] = "dev", refs |-> 1]
      m == [t |-> IF cuts THEN [tree EXCEPT !.size[n] = 0] ELSE tree,
            files |-> [(IF cuts THEN Loosened(n) ELSE file) EXCEPT ![NewFile] = new]]
  IN /\ Arrived(p, "open")
     /\ IF tree.typ[n] = "empty" THEN Panic("no type")
        ELSE /\ IF tree.typ[n] = "dir" /\ ~RdOnly(mode)
                THEN Return(p, [M EXCEPT !.t = Iput(@, n)]) /\ UNCHANGED o_files
                ELSE IF FreeFds(p) = {}
                THEN Return(p, DropFile(m, NewFile)) /\ UNCHANGED o_files
                ELSE Return(p, m) /\ o_files' = [o_files EXCEPT ![p][AllocFd(p)] = NewFile]
             /\ UNCHANGED <<alive, cwd, vma, fault, stop, named>>

\* create, for open, which goes on with the new inode, for mkdir and for mknod,
\* which drop it.
CreateEnd(p) ==
  LET c == call[p]
      opens == c.op = "create"
      r == Create(tree, c.at, LastElem(p), IF opens THEN "file" ELSE c.arg)
  IN /\ Arrived(p, "create") \/ Arrived(p, "make")
     /\ IF r.res # "ok" THEN Panic(r.res)
        ELSE /\ tree' = IF opens THEN r.t ELSE Iput(r.t, r.inode)
             /\ call' = [call EXCEPT ![p] =
                  IF opens THEN [c EXCEPT !.op = "open", !.at = r.inode] ELSE None]
             /\ named' = named + 1
             /\ UNCHANGED <<alive, cwd, o_files, file, vma, fault, stop>>

UnlinkEnd(p) ==
  LET r == Unlink(tree, call[p].at, LastElem(p))
  IN /\ Arrived(p, "unlink")
     /\ IF r.res \notin {"ok", "err"} THEN Panic(r.res)
        ELSE /\ Return(p, [M EXCEPT !.t = r.t])
             /\ named' = IF r.res = "ok" THEN named + 1 ELSE named
             /\ UNCHANGED <<alive, cwd, o_files, vma, fault, stop>>

ChdirEnd(p) ==
  LET n == call[p].at
      dir == tree.typ[n] = "dir"
  IN /\ Arrived(p, "chdir")
     /\ IF tree.typ[n] = "empty" THEN Panic("no type")
        ELSE /\ Return(p, [M EXCEPT !.t = Iput(@, IF dir THEN cwd[p] ELSE n)])
             /\ cwd' = IF dir THEN [cwd EXCEPT ![p] = n] ELSE cwd
             /\ UNCHANGED <<alive, o_files, vma, fault, stop, named>>

-----------------------------------------------------------------------------
(***************************************************************************)
(* Calls on descriptors.                                                   *)
(***************************************************************************)
SizeOf(n) == IF tree.typ[n] = "dir" THEN Len(tree.ents[n]) ELSE tree.size[n]

\* Mutant: the offset moves on by what was asked for.
ReadFileN(f) ==
  LET r == file[f]
  IN IF r.dev THEN Panic("device")
     ELSE IF r.off > SizeOf(r.inode) THEN Panic("size - offset")
     ELSE /\ file' = [file EXCEPT ![f].off = r.off + 1]
          /\ UNCHANGED <<tree, alive, cwd, o_files, call, vma, fault, stop, named>>

\* File::read of one unit: readi takes size - offset when the file is shorter
\* than offset + n, which wraps around when it is shorter than offset.  Devices
\* but the console's panic.
ReadFile(f) ==
  LET r == file[f]
  IN IF r.dev THEN Panic("device")
     ELSE IF r.off > SizeOf(r.inode) THEN Panic("size - offset")
     ELSE /\ file' = [file EXCEPT ![f].off = Min({r.off + 1, SizeOf(r.inode)})]
          /\ UNCHANGED <<tree, alive, cwd, o_files, call, vma, fault, stop, named>>

Read(p, fd) ==
  /\ Running(p)
  /\ o_files[p][fd] # None
  /\ file[o_files[p][fd]].access # "w"
  /\ ReadFile(o_files[p][fd])

FitsWrite(r) == r.off <= SizeOf(r.inode) /\ r.off + 1 <= MAXFILE

\* File::write of one unit; the error of writei leaves everything as it is.
Write(p, fd) ==
  /\ Running(p)
  /\ o_files[p][fd] # None
  /\ LET f == o_files[p][fd]
         r == file[f]
     IN /\ r.access # "r"
        /\ IF r.dev THEN Panic("device")
           ELSE /\ FitsWrite(r)
                /\ tree' = [tree EXCEPT !.size[r.inode] = Max({@, r.off + 1})]
                /\ file' = [file EXCEPT ![f].off = @ + 1]
                /\ UNCHANGED <<alive, cwd, o_files, call, vma, fault, stop, named>>

Dup(p, fd) ==
  /\ Running(p)
  /\ o_files[p][fd] # None /\ FreeFds(p) # {}
  /\ Commit(Clone(M, o_files[p][fd]))
  /\ o_files' = [o_files EXCEPT ![p][AllocFd(p)] = o_files[p][fd]]
  /\ UNCHANGED <<alive, cwd, call, vma, fault, stop, named>>

Close(p, fd) ==
  /\ Running(p)
  /\ o_files[p][fd] # None
  /\ Commit(DropFile(M, o_files[p][fd]))
  /\ o_files' = [o_files EXCEPT ![p][fd] = None]
  /\ vma' = [vma EXCEPT ![p] = IF @ # None /\ @.fd = fd THEN [@ EXCEPT !.closed = TRUE] ELSE @]
  /\ UNCHANGED <<alive, cwd, call, fault, stop, named>>

\* Mutant: the child's current directory is not counted.
ForkNoIdup(p, c) ==
  /\ Running(p)
  /\ c \notin alive
  /\ alive' = alive \union {c}
  /\ Commit(FoldLeft(Clone, M, InTurn(p)))
  /\ o_files' = [o_files EXCEPT ![c] = o_files[p]]
  /\ cwd' = [cwd EXCEPT ![c] = cwd[p]]
  /\ UNCHANGED <<call, vma, fault, stop, named>>

\* fork clones the descriptors and the current directory; mappings are not
\* inherited.
Fork(p, c) ==
  /\ Running(p)
  /\ c \notin alive
  /\ alive' = alive \union {c}
  /\ Commit(FoldLeft(Clone, [M EXCEPT !.t = Iget(@, cwd[p])], InTurn(p)))
  /\ o_files' = [o_files EXCEPT ![c] = o_files[p]]
  /\ cwd' = [cwd EXCEPT ![c] = cwd[p]]
  /\ UNCHANGED <<call, vma, fault, stop, named>>

\* exit closes the descriptors and drops the current directory; free, later,
\* the mapping.
Exit(p) ==
  /\ Running(p) /\ p # InitProc
  /\ LET m == FoldLeft(DropFile, M, InTurn(p)) IN Commit([m EXCEPT !.t = Iput(@, cwd[p])])
  /\ o_files' = [o_files EXCEPT ![p] = [fd \in Fds |-> None]]
  /\ cwd' = [cwd EXCEPT ![p] = None]
  /\ alive' = alive \ {p}
  /\ vma' = [vma EXCEPT ![p] = None]
  /\ UNCHANGED <<call, fault, stop, named>>

-----------------------------------------------------------------------------
(***************************************************************************)
(* sys_mmap of a descriptor, and lazy_mmap for a page of it.  The mapping  *)
(* remembers the number of the descriptor.  What it stands for - the inode,*)
(* whether the descriptor was closed since, whether the File was shared    *)
(* when the page was filled, and the page - is kept for the properties.    *)
(***************************************************************************)
Mmap(p, fd) ==
  /\ Running(p)
  /\ p \in Mappers /\ vma[p] = None /\ o_files[p][fd] # None
  /\ vma' = [vma EXCEPT ![p] = [fd |-> fd, inode |-> file[o_files[p][fd]].inode,
                                closed |-> FALSE, shared |-> FALSE, page |-> "none"]]
  /\ UNCHANGED <<tree, alive, cwd, o_files, file, call, fault, stop, named>>

SharedFile(p, f) == \E q \in Procs \ {p}, fd \in Fds : o_files[q][fd] = f

\* Mutant: the page is read from where the last read stopped.
SeekNot(m, f, k) == m.files

\* File::seek.
Seek(m, f, k) ==
  [m.files EXCEPT ![f].off = k,
                  ![f].loose = @ \/ k > SizeOf(m.files[f].inode)]

FaultSeek(p, k) ==
  LET f == o_files[p][vma[p].fd]
      m == Clone(M, f)
  IN /\ Running(p)
     /\ vma[p] # None /\ vma[p].page = "none"
     /\ IF f = None THEN Panic("unwrap")
        ELSE IF file[f].dev THEN Panic("seek")
        ELSE /\ Commit([m EXCEPT !.files = Seek(m, f, k)])
             /\ fault' = [fault EXCEPT ![p] = [file |-> f, page |-> k]]
             /\ vma' = [vma EXCEPT ![p].shared = SharedFile(p, f)]
             /\ UNCHANGED <<alive, cwd, o_files, call, stop, named>>

\* The page is right if it was read from the mapped file, at its own offset.
FaultRead(p) ==
  LET f == fault[p].file
      r == file[f]
      right == r.inode = vma[p].inode /\ r.off = fault[p].page
      m == [M EXCEPT !.files[f].off = Min({r.off + 1, SizeOf(r.inode)})]
  IN /\ fault[p] # None /\ stop = None
     /\ IF r.access = "w" THEN Panic("lazy_mmap")
        ELSE IF r.off > SizeOf(r.inode) THEN Panic("size - offset")
        ELSE /\ Commit(DropFile(m, f))
             /\ vma' = [vma EXCEPT ![p].page = IF right THEN "right" ELSE "wrong"]
             /\ fault' = [fault EXCEPT ![p] = None]
             /\ UNCHANGED <<alive, cwd, o_files, call, stop, named>>

-----------------------------------------------------------------------------
Next ==
  \E p \in Procs :
    \/ \E x \in Calls[p] : Begin(p, x)
    \/ WalkStep(p) \/ OpenEnd(p) \/ CreateEnd(p) \/ UnlinkEnd(p) \/ ChdirEnd(p)
    \/ \E fd \in Fds : Read(p, fd) \/ Write(p, fd) \/ Dup(p, fd) \/ Close(p, fd) \/ Mmap(p, fd)
    \/ \E c \in Procs : Fork(p, c)
    \/ Exit(p)
    \/ \E k \in 0 .. MapPages - 1 : FaultSeek(p, k)
    \/ FaultRead(p)

Spec == Init /\ [][Next]_vars

-----------------------------------------------------------------------------
(***************************************************************************)
(* Properties.                                                             *)
(***************************************************************************)
Used == {n \in Inums : tree.typ[n] # "empty"}

\* Types of the tables, with at most one mapping and fault per process.
TypeOK ==
  /\ tree.typ \in [Inums -> {"empty", "dir", "file", "dev"}]
  /\ tree.nlink \in [Inums -> 0..NINODES]
  /\ tree.size \in [Inums -> 0..MAXFILE]
  /\ alive \subseteq Procs
  /\ cwd \in [Procs -> Inums \union {None}]
  /\ o_files \in [Procs -> [Fds -> FileIds \union {None}]]
  /\ \A p \in Procs : call[p] # None => call[p].at \in Inums

\* Entries, but for "." and "..": the directory, the slot, and the inode named.
Names ==
  UNION {{<<d, i, tree.ents[d][i].inum>> :
            i \in {j \in Slots(tree, d) : /\ tree.ents[d][j].inum # 0
                                          /\ tree.ents[d][j].name \notin {Dot, DotDot}}} :
         d \in Used}

\* The reference for namex: the elements of a path, split first, and the walk
\* from directory to directory.
Elements == [s \in Paths |->
  LET starts == SetToSortSeq({i \in 1..Len(s) : s[i] # Slash /\ (i = 1 \/ s[i - 1] = Slash)}, <)
      end(i) == Min({EndOfElem(Append(s, NUL), i), i + DIRSIZ - 1}) - 1
  IN [k \in DOMAIN starts |-> SubSeq(s, starts[k], end(starts[k]))]]

Child(d, e) ==
  IF d \notin Used \/ tree.typ[d] # "dir" \/ Dirlookup(tree, d, e) = 0 THEN 0
  ELSE tree.ents[d][Dirlookup(tree, d, e)].inum

Walk(s, from) ==
  FoldLeft(LAMBDA d, e : IF d = 0 THEN 0 ELSE Child(d, e),
           IF s[1] = Slash THEN ROOTINO ELSE from, Elements[s])

\* While nobody else is on a path, namex finds what the path names, whatever the
\* elements before have left in the name buffer, and nothing else; the fixed name
\* buffer cuts long names.
PathsResolve ==
  (\A p \in Procs : call[p] = None) =>
    \A s \in Paths, d \in {cwd[p] : p \in alive} :
      LET r == Namei(tree, s, d)
      IN r.res # "no type" => (IF r.res = "walk" THEN r.at ELSE 0) = Walk(s, d)

\* In the part of the tree that is not below a removed directory, one that its
\* parent no longer names, an inode has one name and its link count is 1 and one
\* for each subdirectory; "." and ".." are the directory and the one that names
\* it; no name occurs twice.
TreeOK ==
  LET names == Names
      links(n) == {x \in names : x[3] = n}
      parents(n) == {x[1] : x \in links(n)}
      subdirs == {x \in names : tree.typ[x[3]] = "dir"}
  IN \A n \in Used :
       n = ROOTINO \/ links(n) # {} =>
         /\ Cardinality(links(n)) = IF n = ROOTINO THEN 0 ELSE 1
         /\ tree.nlink[n] = 1 + Cardinality({x \in subdirs : x[1] = n})
         /\ tree.typ[n] = "dir" =>
              /\ Child(n, Dot) = n
              /\ Child(n, DotDot) \in IF n = ROOTINO THEN {n} ELSE parents(n)
              /\ \A i, j \in Slots(tree, n) :
                   tree.ents[n][i].inum # 0 /\ tree.ents[n][i].name = tree.ents[n][j].name => i = j

\* The references to an inode, and those to a File.
Refs(n) ==
  Cardinality({f \in OpenFiles : file[f].inode = n}) + Cardinality({p \in alive : cwd[p] = n})
    + Cardinality({p \in Procs : call[p] # None /\ call[p].at = n})
FileRefs(f) ==
  Cardinality({x \in Procs \X Fds : o_files[x[1]][x[2]] = f})
    + Cardinality({p \in Procs : fault[p] # None /\ fault[p].file = f})

\* An open file and a current directory keep their inode, also when its name is
\* removed; an inode without links and without references is free, so that its
\* number can be given out again.  Calls of all kinds, at whatever point of
\* each other's path, keep the counts that iput and Arc go by.
InodeLifetime ==
  /\ \A n \in Inums : tree.ref[n] = Refs(n)
  /\ \A f \in OpenFiles : file[f].refs = FileRefs(f)
  /\ {file[f].inode : f \in OpenFiles} \union {cwd[p] : p \in alive} \subseteq Used
  /\ \A n \in Used : tree.nlink[n] > 0 \/ tree.ref[n] > 0

\* An offset does not pass the end of its file, where readi would wrap around,
\* unless the file was truncated, or a page behind its end was touched, while
\* it was open.
OffsetsWithinSize ==
  /\ \A f \in FileIds : file[f] # None /\ ~file[f].loose => file[f].off <= SizeOf(file[f].inode)
  /\ stop = "size - offset" => \E f \in FileIds : file[f] # None /\ file[f].loose

\* "A potential risk is that a lookup may be searching a directory that has been
\* deleted by another kernel thread", which the reference that dirlookup takes
\* avoids (fs.rs:328-335): ilock finds a free inode, "no type", only where a
\* path has gone up by the ".." of a directory that was removed before its
\* parent.
NoTypeThroughDotDot ==
  stop = "no type" => \E p \in alive :
    call[p] # None /\ call[p].by = DotDot /\ tree.typ[call[p].at] = "empty"

\* "Once a file is mapped, its contents can be accessed" (proc/syscall.rs:158):
\* a page is filled from the mapped file at the page's offset, unless the
\* process has closed the descriptor or shares it with another.
MappedPages ==
  /\ \A p \in alive : vma[p] # None /\ vma[p].page = "wrong" => vma[p].closed \/ vma[p].shared
  /\ stop = "unwrap" => \E p \in alive : vma[p] # None /\ vma[p].closed

\* "Cannot unlink '.' or '..'" (fs.rs:246): unlink never waits for the lock of
\* a directory that it holds.
UnlinkRefusesDots == stop # "self"
=============================================================================
