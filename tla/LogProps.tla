------------------------------ MODULE LogProps ------------------------------
(***************************************************************************)
(* What the write-ahead log guarantees.                                    *)
(***************************************************************************)
EXTENDS Log

Contents == Vals \union {Torn}

Phases == CommitPhases \union BootPhases \union {"run", "panic"}

\* Types of the state of log.rs and of the processes that call it.
TypeOK ==
  /\ disk \in [Blocks -> Contents]
  /\ dlog \in [1..LOGSIZE -> Contents]
  /\ dhead \in Seq(Blocks)
  /\ cache \in [Blocks -> Contents]
  /\ pin \in [Blocks -> Nat]
  /\ header \in Seq(Blocks)
  /\ outstanding \in Nat
  /\ committing \in BOOLEAN
  /\ phase \in Phases
  /\ tail \in Nat
  /\ pc \in [Procs -> {"user", "sleeping", "woken", "in_op", "commit"}]
  /\ wrote \in [Procs -> SUBSET Blocks]

-----------------------------------------------------------------------------
\* The image that recover_from_log brings back from a disk, a log area and the
\* header found in it, and the one it would bring back if power were lost now.
SlotOf(h, b) == CHOOSE i \in 1..Len(h) : h[i] = b
RecoverFrom(d, l, h) ==
  [b \in Blocks |-> IF b \in Logged(h) THEN l[SlotOf(h, b)] ELSE d[b]]
Recovered == RecoverFrom(disk, dlog, dhead)

InOp == {p \in Procs : pc[p] = "in_op"}

AD == INSTANCE AtomicDisk WITH
        durable <- Recovered,
        current <- IF phase \in BootPhases THEN Recovered ELSE cache,
        active  <- InOp

\* The log makes every group of FS system calls atomic across power loss: the
\* image recovery would restore changes only at write_head, then takes in all
\* the writes of all the calls begun since the last commit, each of them
\* complete, and nothing but those (begin_op, write, end_op, commit,
\* recover_from_log); a torn block is never part of it.
CrashAtomicity == AD!Spec

\* Blocks of the header that install_trans has still to copy home.
Uninstalled ==
  CASE phase = "install" -> {header[i] : i \in tail + 1 .. Len(header)}
    [] phase = "clear"   -> {}
    [] OTHER             -> Logged(header)

\* bpin and bunpin balance: while the system is up, the log holds exactly one
\* reference on each block still to be installed and none on any other, so no
\* buffer stays pinned for ever and none is let go too soon.
PinsBalance ==
  Up => \A b \in Blocks : pin[b] = IF b \in Uninstalled THEN 1 ELSE 0

\* A block whose cached copy differs from the disk is pinned: recycling a
\* buffer (bget) never loses an update that only the cache holds.
DirtyIsPinned ==
  Up => \A b \in Blocks : cache[b] # disk[b] => pin[b] > 0

\* A block in the header appears there once (log absorption), so install_trans
\* copies it home, and unpins it, once.
NoDuplicateSlots ==
  \A h \in {header, dhead} : \A i, j \in 1..Len(h) : h[i] = h[j] => i = j

\* Log.outstanding is "how many FS sys calls are executing" (log.rs:32), and
\* `committing` excludes every one of them.
OutstandingCounts ==
  /\ outstanding = Cardinality(InOp)
  /\ committing => outstanding = 0

\* The blocks that the calls in progress have written, each with its call.
Pairs(S, w) == UNION {{p} \X w[p] : p \in S}
Written == Pairs(InOp, wrote)

\* begin_op's reservation is sound: the blocks in the header and those that
\* the calls in progress may still add, MAXOPBLOCKS each less what they have
\* written, fit in LOGSIZE slots (log.rs:63).
ReservationHolds ==
  Len(header) + MAXOPBLOCKS * Cardinality(InOp) <= LOGSIZE + Cardinality(Written)

\* The `committing` state that keeps every begin_op out does not last: the
\* committer of end_op leaves it, or a power loss does.
CommitFinishes == committing ~> ~committing

-----------------------------------------------------------------------------
\* A system call that keeps to MAXOPBLOCKS blocks never meets the panic of
\* LOG.write: begin_op made sure of "free log space" (log.rs:48) for it.
NoPanic == phase # "panic"

\* A process that sleeps in begin_op goes on once the commit or the calls it
\* waits for are over: end_op wakes it, since "begin_op may be waiting for log
\* space" (log.rs:127).  Power losses aside.
WaiterWakes ==
  \A p \in Procs : pc[p] = "sleeping" ~> pc[p] # "sleeping"
=============================================================================
