----------------------------- MODULE AtomicDisk -----------------------------
(***************************************************************************)
(* What the write-ahead log of kernel/src/log.rs promises to the file      *)
(* system, with no log in sight.  System calls update one current image of *)
(* the disk; now and then the whole of it becomes durable at once, never   *)
(* while a system call is half done; a crash falls back to the durable     *)
(* image.                                                                  *)
(***************************************************************************)
CONSTANTS Procs, Blocks, Vals, InitVal

VARIABLES
  durable,   \* the image a restart brings back
  current,   \* the image running system calls read and write
  active     \* the processes inside an FS system call

vars == <<durable, current, active>>

Init ==
  /\ durable = [b \in Blocks |-> InitVal]
  /\ current = durable
  /\ active  = {}

\* A system call joins the calls in progress, or opens a new group of them,
\* and then nothing of the earlier groups is still at risk.
Begin(p) ==
  /\ p \notin active
  /\ active # {} \/ current = durable
  /\ active' = active \union {p}
  /\ UNCHANGED <<durable, current>>

Write(p, b, v) ==
  /\ p \in active
  /\ current' = [current EXCEPT ![b] = v]
  /\ UNCHANGED <<durable, active>>

End(p) ==
  /\ p \in active
  /\ active' = active \ {p}
  /\ UNCHANGED <<durable, current>>

\* The group commits: every write of every call in it, and of no other.
Commit ==
  /\ active = {}
  /\ durable' = current
  /\ UNCHANGED <<current, active>>

Crash ==
  /\ current' = durable
  /\ active'  = {}
  /\ UNCHANGED durable

Next ==
  \/ \E p \in Procs : Begin(p) \/ End(p)
  \/ \E p \in Procs, b \in Blocks, v \in Vals : Write(p, b, v)
  \/ Commit
  \/ Crash

Spec == Init /\ [][Next]_vars
=============================================================================
