----------------------------- MODULE FsSyscalls -----------------------------
(***************************************************************************)
(* The system calls that use the file system, as the log sees them: which  *)
(* of their returns go through end_op (file.rs, proc/syscall.rs,           *)
(* proc/elf.rs, process.rs).  A process inside begin_op and end_op is in   *)
(* one of Calls; which one matters when it returns.                        *)
(***************************************************************************)
EXTENDS LogProps

CONSTANT Calls  \* the calls that processes make

ASSUME CallsAssumption ==
  Calls \subseteq {"open", "write", "close", "chdir", "mknod", "unlink", "mkdir", "exec", "exit"}

(***************************************************************************)
(* Does call c reach end_op when it succeeds, when it fails?  File::write  *)
(* has an end_op for the success only, unlink for the error only; all      *)
(* others have one on each way out.                                        *)
(***************************************************************************)
FileEndsOp(c, ok) == c = "write" => ok

\* Mutant: chdir to a path that is not there returns without end_op.
SysEndsOpNotChdir(c, ok) == (c = "unlink" => ~ok) /\ (c = "chdir" => ok)

SysEndsOp(c, ok) == c = "unlink" => ~ok

EndsOp(c, ok) == FileEndsOp(c, ok) /\ SysEndsOp(c, ok)

\* The call goes back to the user without end_op.
Leave(p) ==
  /\ Up /\ pc[p] = "in_op"
  /\ pc' = [pc EXCEPT ![p] = "user"]
  /\ UNCHANGED <<diskVars, cache, pin, header, outstanding, committing,
                 phase, tail, wrote>>

\* Call c comes to an end, with success or an error.
Return(p, c, ok) == IF EndsOp(c, ok) THEN EndOp(p) ELSE Leave(p)

FsNext ==
  \/ \E p \in Procs : BeginOp(p)
  \/ \E p \in Procs, b \in Blocks, v \in Vals : Write(p, b, v)
  \/ \E p \in Procs, c \in Calls, ok \in BOOLEAN : Return(p, c, ok)
  \/ Commit
  \/ Recover
  \/ \E b \in Blocks : Recycle(b)
  \/ Crash
  \/ CrashMidWrite

FsSpec == Init /\ [][FsNext]_vars
FsLiveSpec == FsSpec /\ Fairness

-----------------------------------------------------------------------------
\* end_op is "called at the end of each FS system call. commits if this was
\* the last outstanding operation" (log.rs:116): with no call in progress all
\* that the calls wrote is on the disk and the log is empty.
QuietIsCommitted ==
  phase = "run" /\ InOp = {} => header = <<>> /\ disk = cache
=============================================================================
