-------------------------------- MODULE Log ---------------------------------
(***************************************************************************)
(* The write-ahead log of kernel/src/log.rs, with the disk below it, the   *)
(* part of the buffer cache it relies on (pinned blocks are not recycled)  *)
(* and the processes whose FS system calls it brackets.  Every disk write  *)
(* is a step of its own and the machine may lose power between any two     *)
(* steps, or in the middle of a write, in which case the block is torn.    *)
(* A critical section of the log's spinlock is one step.                   *)
(***************************************************************************)
EXTENDS Naturals, Sequences, FiniteSets

CONSTANTS
  Procs,        \* processes that make FS system calls
  Blocks,       \* home blocks of the file system
  Vals,         \* block contents
  InitVal,      \* what mkfs put in every block
  Torn,         \* what a block holds after a power loss in mid-write
  MAXOPBLOCKS,  \* param.rs: most blocks one FS system call writes
  NLOG          \* superblock nlog: blocks of the log area, header included

LOGSIZE == MAXOPBLOCKS * 3

ASSUME LogAssumption ==
  /\ IsFiniteSet(Procs)
  /\ InitVal \in Vals
  /\ Torn \notin Vals
  /\ MAXOPBLOCKS \in Nat \ {0}
  /\ NLOG \in Nat \ {0}

VARIABLES
  disk,         \* home blocks on disk
  dlog,         \* data blocks of the log area on disk
  dhead,        \* LogHeader on disk: the block numbers, n is its length
  cache,        \* what bread() returns for each home block
  pin,          \* references the log holds on each buffer (bpin/bunpin)
  header,       \* Log.header in memory
  outstanding,  \* Log.outstanding
  committing,   \* Log.committing
  phase,        \* where the log is in commit() or recover_from_log()
  tail,         \* loop variable of write_log() and install_trans()
  pc,           \* where each process is
  wrote         \* blocks written so far by each process's system call

diskVars == <<disk, dlog, dhead>>
vars == <<disk, dlog, dhead, cache, pin, header, outstanding, committing,
          phase, tail, pc, wrote>>

Logged(h) == {h[i] : i \in 1..Len(h)}

CommitPhases == {"write_log", "write_head", "install", "clear", "finish"}
BootPhases   == {"boot", "recover", "rec_clear"}
Up           == phase \in CommitPhases \union {"run"}

(***************************************************************************)
(* mkfs leaves a zeroed log area, hence n = 0 in its header.  The rest is  *)
(* Log::new(), an empty buffer cache, and no system call in progress.      *)
(***************************************************************************)
Init ==
  /\ disk = [b \in Blocks |-> InitVal]
  /\ dlog = [i \in 1..LOGSIZE |-> InitVal]
  /\ dhead = <<>>
  /\ cache = disk
  /\ pin = [b \in Blocks |-> 0]
  /\ header = <<>>
  /\ outstanding = 0
  /\ committing = FALSE
  /\ phase = "boot"
  /\ tail = 0
  /\ pc = [p \in Procs |-> "user"]
  /\ wrote = [p \in Procs |-> {}]

-----------------------------------------------------------------------------
(***************************************************************************)
(* begin_op and end_op sleep and wake on `&guard as *const _`, the address *)
(* of a local of the calling function: an address in the caller's own      *)
(* kernel stack.                                                           *)
(***************************************************************************)
GuardAddr(p) == p

\* PROCESS_TABLE.wakeup(chan) called by p, given the pc's of p's own step.
Wakeup(p, chan, pcs) ==
  [q \in Procs |-> IF q # p /\ pcs[q] = "sleeping" /\ GuardAddr(q) = chan
                     THEN "woken" ELSE pcs[q]]

\* Mutant: a begin_op that reserves no space for itself.
MustWaitOffByOne == committing \/ Len(header) + outstanding * MAXOPBLOCKS > LOGSIZE

MustWait ==
  committing \/ Len(header) + (outstanding + 1) * MAXOPBLOCKS > LOGSIZE

BeginOp(p) ==
  /\ Up
  /\ pc[p] \in {"user", "woken"}
  /\ IF MustWait
       THEN /\ pc' = [pc EXCEPT ![p] = "sleeping"]
            /\ UNCHANGED <<outstanding, wrote>>
       ELSE /\ pc' = [pc EXCEPT ![p] = "in_op"]
            /\ outstanding' = outstanding + 1
            /\ wrote' = [wrote EXCEPT ![p] = {}]
  /\ UNCHANGED <<diskVars, cache, pin, header, committing, phase, tail>>

WriteRefused ==
  \/ Len(header) >= LOGSIZE \/ Len(header) >= NLOG - 1
  \/ outstanding < 1

\* Mutants: a block enters the log without being pinned in the cache, or is
\* never unpinned.
BpinForgotten(b) == pin
BunpinForgotten(b) == pin
Bpin(b) == [pin EXCEPT ![b] = @ + 1]
Bunpin(b) == [pin EXCEPT ![b] = @ - 1]
Absorbed(b) == b \in Logged(header)

(***************************************************************************)
(* LOG.write: the caller, inside its system call and holding the buffer,   *)
(* has put v in block b.  A block already in the header is absorbed.  The  *)
(* caller keeps to MAXOPBLOCKS blocks per system call.                     *)
(***************************************************************************)
Write(p, b, v) ==
  /\ Up
  /\ pc[p] = "in_op"
  /\ Cardinality(wrote[p] \union {b}) <= MAXOPBLOCKS
  /\ IF WriteRefused
       THEN /\ phase' = "panic"
            /\ UNCHANGED <<cache, pin, header, wrote>>
       ELSE /\ cache' = [cache EXCEPT ![b] = v]
            /\ wrote' = [wrote EXCEPT ![p] = @ \union {b}]
            /\ IF Absorbed(b)
                 THEN UNCHANGED <<header, pin>>
                 ELSE /\ header' = Append(header, b)
                      /\ pin' = Bpin(b)
            /\ UNCHANGED phase
  /\ UNCHANGED <<diskVars, outstanding, committing, tail, pc>>

\* Mutant: the header goes to disk before the blocks it names.
CommitStartHeadFirst == IF header = <<>> THEN "finish" ELSE "write_head"

CommitStart == IF header = <<>> THEN "finish" ELSE "write_log"

(***************************************************************************)
(* end_op up to the release of the spinlock: the last system call to leave *)
(* becomes the committer, any other wakes the waiters of begin_op.         *)
(***************************************************************************)
EndOp(p) ==
  /\ Up
  /\ pc[p] = "in_op"
  /\ outstanding' = outstanding - 1
  /\ tail' = 0
  /\ IF committing
       THEN /\ phase' = "panic"
            /\ UNCHANGED <<committing, pc>>
       ELSE IF outstanding' = 0
       THEN /\ committing' = TRUE
            /\ phase' = CommitStart
            /\ pc' = [pc EXCEPT ![p] = "commit"]
       ELSE /\ pc' = Wakeup(p, GuardAddr(p), [pc EXCEPT ![p] = "user"])
            /\ UNCHANGED <<committing, phase>>
  /\ UNCHANGED <<diskVars, cache, pin, header, wrote>>

-----------------------------------------------------------------------------
(***************************************************************************)
(* commit(), run by the process in "commit", without the spinlock.         *)
(***************************************************************************)

\* write_log: one cached block goes to its slot of the log area.
WriteLog ==
  /\ phase = "write_log"
  /\ dlog' = [dlog EXCEPT ![tail + 1] = cache[header[tail + 1]]]
  /\ IF tail + 1 = Len(header)
       THEN phase' = "write_head" /\ tail' = 0
       ELSE phase' = phase /\ tail' = tail + 1
  /\ UNCHANGED <<disk, dhead, cache, pin, header, outstanding, committing,
                 pc, wrote>>

\* write_head: the real commit.
WriteHead ==
  /\ phase = "write_head"
  /\ dhead' = header
  /\ phase' = "install"
  /\ UNCHANGED <<disk, dlog, cache, pin, header, outstanding, committing,
                 tail, pc, wrote>>

\* The body of install_trans, shared by commit and recovery.
InstallBlock(next) ==
  LET b == header[tail + 1]
  IN /\ disk' = [disk EXCEPT ![b] = dlog[tail + 1]]
     /\ cache' = [cache EXCEPT ![b] = dlog[tail + 1]]
     /\ IF tail + 1 = Len(header)
          THEN phase' = next /\ tail' = 0
          ELSE phase' = phase /\ tail' = tail + 1

Install ==
  /\ phase = "install"
  /\ InstallBlock("clear")
  /\ pin' = Bunpin(header[tail + 1])
  /\ UNCHANGED <<dlog, dhead, header, outstanding, committing, pc, wrote>>

\* header.n = 0 and the second write_head: the transaction is erased.
EraseHead(next) ==
  /\ header' = <<>>
  /\ dhead' = <<>>
  /\ phase' = next
  /\ UNCHANGED <<disk, dlog, cache, pin, outstanding, committing, tail, pc,
                 wrote>>

Clear == phase = "clear" /\ EraseHead("finish")

\* The end of end_op: the committer lets begin_op go on.
Finish(p) ==
  /\ phase = "finish"
  /\ pc[p] = "commit"
  /\ committing' = FALSE
  /\ phase' = "run"
  /\ pc' = Wakeup(p, GuardAddr(p), [pc EXCEPT ![p] = "user"])
  /\ UNCHANGED <<diskVars, cache, pin, header, outstanding, tail, wrote>>

-----------------------------------------------------------------------------
(***************************************************************************)
(* The buffer cache may recycle a buffer nobody references; the next       *)
(* bread() then reads the block from disk.                                 *)
(***************************************************************************)
Recycle(b) ==
  /\ Up
  /\ pin[b] = 0
  /\ cache' = [cache EXCEPT ![b] = disk[b]]
  /\ UNCHANGED <<diskVars, pin, header, outstanding, committing, phase, tail,
                 pc, wrote>>

-----------------------------------------------------------------------------
(***************************************************************************)
(* Power loss, and recover_from_log() run by the first process at boot.    *)
(***************************************************************************)
PowerLoss(d, l) ==
  /\ disk' = d
  /\ dlog' = l
  /\ UNCHANGED dhead
  /\ cache' = d
  /\ pin' = [b \in Blocks |-> 0]
  /\ header' = <<>>
  /\ outstanding' = 0
  /\ committing' = FALSE
  /\ phase' = "boot"
  /\ tail' = 0
  /\ pc' = [p \in Procs |-> "user"]
  /\ wrote' = [p \in Procs |-> {}]

Crash == PowerLoss(disk, dlog)

\* Power is lost while a data block is on its way to the disk.
CrashMidWrite ==
  \/ /\ phase = "write_log"
     /\ PowerLoss(disk, [dlog EXCEPT ![tail + 1] = Torn])
  \/ /\ phase \in {"install", "recover"}
     /\ PowerLoss([disk EXCEPT ![header[tail + 1]] = Torn], dlog)

ReadHead ==
  /\ phase = "boot"
  /\ header' = dhead
  /\ phase' = IF dhead = <<>> THEN "rec_clear" ELSE "recover"
  /\ UNCHANGED <<diskVars, cache, pin, outstanding, committing, tail, pc,
                 wrote>>

RecoverInstall ==
  /\ phase = "recover"
  /\ InstallBlock("rec_clear")
  /\ UNCHANGED <<dlog, dhead, pin, header, outstanding, committing, pc, wrote>>

RecoverClear == phase = "rec_clear" /\ EraseHead("run")

-----------------------------------------------------------------------------
Commit == WriteLog \/ WriteHead \/ Install \/ Clear \/ \E p \in Procs : Finish(p)
Recover == ReadHead \/ RecoverInstall \/ RecoverClear

Next ==
  \/ \E p \in Procs : BeginOp(p) \/ EndOp(p)
  \/ \E p \in Procs, b \in Blocks, v \in Vals : Write(p, b, v)
  \/ Commit
  \/ Recover
  \/ \E b \in Blocks : Recycle(b)
  \/ Crash
  \/ CrashMidWrite

\* A process inside commit() or recover_from_log() holds no spinlock, waits
\* only for the disk, and is eventually scheduled; a system call returns; a
\* process woken in begin_op runs again.
Fairness ==
  /\ WF_vars(Commit) /\ WF_vars(Recover)
  /\ \A p \in Procs : /\ WF_vars(EndOp(p))
                       /\ WF_vars(pc[p] = "woken" /\ BeginOp(p))

Spec == Init /\ [][Next]_vars
LiveSpec == Spec /\ Fairness
=============================================================================
