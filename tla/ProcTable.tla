----------------------------- MODULE ProcTable ------------------------------
(***************************************************************************)
(* The process table: fork, exit and wait (proc.rs, process.rs).           *)
(*                                                                         *)
(* Slot 0 is init.  The table of parents is behind the spinlock `parents`, *)
(* which exit and wait hold across several steps; a slot's own lock,       *)
(* p.inner, is held across steps only by a process that is about to leave  *)
(* its CPU for good or has just come back in sleep, and that is where the  *)
(* interleavings are.  How CPUs are given to processes is Sched's; here a  *)
(* Runnable process just gets one of NCPU.                                 *)
(***************************************************************************)
EXTENDS Naturals, FiniteSets

CONSTANTS
  NPROC,
  NCPU,
  None,     \* no slot
  MaxPid    \* bound: pids given out

ASSUME ProcTableAssumption ==
  /\ NPROC \in Nat \ {0} /\ NCPU \in Nat \ {0} /\ MaxPid \in Nat
  /\ None \notin 0..NPROC

Slots == 0..NPROC - 1
InitProc == 0

VARIABLES
  state,    \* ProcInner.state
  pid,      \* ProcInner.pid
  parents,  \* ProcessTable.parents
  nextpid,  \* ProcessTable.pid
  plock,    \* the slot whose process holds `parents`, None when free
  pc,       \* where a process is
  child,    \* fork's child: the slot its search is at, then the one it found
  npid      \* the pid fork has drawn for it

vars == <<state, pid, parents, nextpid, plock, pc, child, npid>>

Init ==
  /\ state = [s \in Slots |-> IF s = InitProc THEN "Runnable" ELSE "Unused"]
  /\ pid = [s \in Slots |-> 0]
  /\ parents = [s \in Slots |-> None]
  /\ nextpid = 1
  /\ plock = None
  /\ pc = [s \in Slots |-> "user"]
  /\ child = [s \in Slots |-> 0]
  /\ npid = [s \in Slots |-> 0]

Goto(p, loc) == pc' = [pc EXCEPT ![p] = loc]
At(p, loc) == state[p] = "Running" /\ pc[p] = loc

\* p.inner is held over a step: by sleep that resumes, by exit that leaves.
Held(s) == pc[s] = "leaving" \/ At(s, "woken")

OnCpu == {s \in Slots : state[s] = "Running" \/ pc[s] = "leaving"}

-----------------------------------------------------------------------------
Dispatch(p) ==
  /\ state[p] = "Runnable" /\ ~Held(p)
  /\ Cardinality(OnCpu) < NCPU
  /\ state' = [state EXCEPT ![p] = "Running"]
  /\ UNCHANGED <<pid, parents, nextpid, plock, pc, child, npid>>

\* The timer; system calls run with interrupts off.
Preempt(p) ==
  /\ At(p, "user")
  /\ state' = [state EXCEPT ![p] = "Runnable"]
  /\ UNCHANGED <<pid, parents, nextpid, plock, pc, child, npid>>

-----------------------------------------------------------------------------
(***************************************************************************)
(* fork.                                                                   *)
(***************************************************************************)

\* alloc_pid, a critical section of its own.
AllocPid(p) ==
  /\ npid' = [npid EXCEPT ![p] = nextpid]
  /\ nextpid' = nextpid + 1

ForkStart(p) ==
  /\ At(p, "user") /\ nextpid < MaxPid
  /\ AllocPid(p)
  /\ child' = [child EXCEPT ![p] = 0]
  /\ Goto(p, "alloc")
  /\ UNCHANGED <<state, pid, parents, plock>>

\* A turn of alloc_proc's loop finds a slot that is not free, or there is none
\* left and fork fails.
AllocNext(p) ==
  LET c == child[p]
  IN /\ At(p, "alloc")
     /\ \/ /\ c < NPROC /\ ~Held(c) /\ state[c] # "Unused"
           /\ child' = [child EXCEPT ![p] = c + 1]
           /\ UNCHANGED pc
        \/ /\ c = NPROC
           /\ Goto(p, "user")
           /\ child' = [child EXCEPT ![p] = 0]
     /\ UNCHANGED <<state, pid, parents, nextpid, plock, npid>>

\* Or it finds a free slot and takes it.
AllocTake(p) ==
  LET c == child[p]
  IN /\ At(p, "alloc") /\ c < NPROC
     /\ state[c] = "Unused"
     /\ state' = [state EXCEPT ![c] = "Allocated"]
     /\ pid' = [pid EXCEPT ![c] = npid[p]]
     /\ Goto(p, "copy")
     /\ UNCHANGED <<parents, nextpid, plock, child, npid>>

\* Or there is no memory for its trapframe or page table and fork fails.
AllocNoMemory(p) ==
  /\ At(p, "alloc") /\ child[p] < NPROC
  /\ state[child[p]] = "Unused"
  /\ Goto(p, "user")
  /\ UNCHANGED <<state, pid, parents, nextpid, plock, child, npid>>

\* Proc::free, as far as the table goes.
FreeSlot(c) ==
  /\ state' = [state EXCEPT ![c] = "Unused"]
  /\ pid' = [pid EXCEPT ![c] = 0]

\* The parent's memory, files, cwd and environment are copied.
ForkCopy(p) ==
  /\ At(p, "copy")
  /\ Goto(p, "parent")
  /\ UNCHANGED <<state, pid, parents, nextpid, plock, child, npid>>

ForkCopyFails(p) ==
  /\ At(p, "copy")
  /\ FreeSlot(child[p])
  /\ Goto(p, "user")
  /\ UNCHANGED <<parents, nextpid, plock, child, npid>>

ForkParent(p) ==
  /\ At(p, "parent") /\ plock = None
  /\ parents' = [parents EXCEPT ![child[p]] = p]
  /\ Goto(p, "run")
  /\ UNCHANGED <<state, pid, nextpid, plock, child, npid>>

ForkRun(p) ==
  /\ At(p, "run")
  /\ state' = [state EXCEPT ![child[p]] = "Runnable"]
  /\ pc' = [pc EXCEPT ![p] = "user", ![child[p]] = "user"]
  /\ UNCHANGED <<pid, parents, nextpid, plock, child, npid>>

-----------------------------------------------------------------------------
(***************************************************************************)
(* wait.                                                                   *)
(***************************************************************************)
Kids(p) == {c \in Slots : parents[c] = p}
Zombies(p) == {c \in Kids(p) : state[c] = "Zombie"}

\* The children whose locks the scan takes: up to the first zombie.
Scanned(p) == {c \in Kids(p) : \A z \in Zombies(p) : c <= z}

WaitLock(p) ==
  /\ At(p, "user") /\ plock = None
  /\ plock' = p
  /\ Goto(p, "wait")
  /\ UNCHANGED <<state, pid, parents, nextpid, child, npid>>

\* Mutant: the scan does not take the child's lock.
WaitReapUnlocked(p) ==
  /\ At(p, "wait")
  /\ \E z \in Zombies(p) \intersect Scanned(p) :
       FreeSlot(z) /\ parents' = [parents EXCEPT ![z] = None]
  /\ plock' = None
  /\ Goto(p, "user")
  /\ UNCHANGED <<nextpid, child, npid>>

\* The first zombie is freed and its pid returned.
WaitReap(p) ==
  /\ At(p, "wait")
  /\ \A c \in Scanned(p) : ~Held(c)
  /\ \E z \in Zombies(p) \intersect Scanned(p) :
       FreeSlot(z) /\ parents' = [parents EXCEPT ![z] = None]
  /\ plock' = None
  /\ Goto(p, "user")
  /\ UNCHANGED <<nextpid, child, npid>>

\* wait fails: the status cannot be copied out, or there is no child.
WaitFails(p) ==
  /\ At(p, "wait")
  /\ Zombies(p) # {} \/ Kids(p) = {}
  /\ \A c \in Scanned(p) : ~Held(c)
  /\ plock' = None
  /\ Goto(p, "user")
  /\ UNCHANGED <<state, pid, parents, nextpid, child, npid>>

\* No child has exited: sleep, which drops `parents` once p.inner is held.
WaitSleep(p) ==
  /\ At(p, "wait")
  /\ Kids(p) # {} /\ Zombies(p) = {}
  /\ \A c \in Scanned(p) : ~Held(c)
  /\ state' = [state EXCEPT ![p] = "Sleeping"]
  /\ plock' = None
  /\ Goto(p, "woken")
  /\ UNCHANGED <<pid, parents, nextpid, child, npid>>

\* sleep takes `parents` again before it drops p.inner, and wait scans anew.
WaitWoken(p) ==
  /\ At(p, "woken") /\ plock = None
  /\ plock' = p
  /\ Goto(p, "wait")
  /\ UNCHANGED <<state, pid, parents, nextpid, child, npid>>

-----------------------------------------------------------------------------
(***************************************************************************)
(* exit; init does not exit (init.rs waits in a loop).                     *)
(***************************************************************************)

\* wakeup takes every other slot's lock in turn; in this table a process only
\* sleeps on its own address, in wait.
CanWakeup(p) == \A s \in Slots \ {p} : ~Held(s)
WakeupSlot(p, s) ==
  IF s # p /\ state[s] = "Sleeping" THEN [state EXCEPT ![s] = "Runnable"] ELSE state

\* Files and cwd are closed, then `parents` is taken.
ExitLock(p) ==
  /\ p # InitProc
  /\ At(p, "user") /\ plock = None
  /\ plock' = p
  /\ Goto(p, "exit")
  /\ UNCHANGED <<state, pid, parents, nextpid, child, npid>>

\* A turn of the loop that passes the children on, the first one first.
ExitReparent(p) ==
  /\ At(p, "exit")
  /\ CanWakeup(p)
  /\ \E k \in Kids(p) :
       /\ \A c \in Kids(p) : k <= c
       /\ parents' = [parents EXCEPT ![k] = InitProc]
  /\ state' = WakeupSlot(p, InitProc)
  /\ UNCHANGED <<pid, nextpid, plock, pc, child, npid>>

\* Mutant: only init is woken.
ParentToWakeInit(p) == InitProc
ParentToWake(p) == parents[p]

\* Mutant: children stay with the process that exits.
ExitFinishEarly(p) ==
  /\ At(p, "exit") /\ CanWakeup(p)
  /\ state' = [WakeupSlot(p, ParentToWake(p)) EXCEPT ![p] = "Zombie"]
  /\ plock' = None
  /\ Goto(p, "leaving")
  /\ UNCHANGED <<pid, parents, nextpid, child, npid>>

\* The parent is woken, and p, a zombie, goes to sched with p.inner held.
ExitFinish(p) ==
  /\ At(p, "exit") /\ Kids(p) = {}
  /\ CanWakeup(p)
  /\ state' = [WakeupSlot(p, ParentToWake(p)) EXCEPT ![p] = "Zombie"]
  /\ plock' = None
  /\ Goto(p, "leaving")
  /\ UNCHANGED <<pid, parents, nextpid, child, npid>>

\* The scheduler is back on its own stack and drops p.inner.
ExitSwitch(p) ==
  /\ pc[p] = "leaving"
  /\ Goto(p, "user")
  /\ UNCHANGED <<state, pid, parents, nextpid, plock, child, npid>>

-----------------------------------------------------------------------------
KernelStep(p) ==
  \/ AllocNext(p) \/ AllocTake(p) \/ AllocNoMemory(p)
  \/ ForkCopy(p) \/ ForkCopyFails(p) \/ ForkParent(p) \/ ForkRun(p)
  \/ WaitReap(p) \/ WaitFails(p) \/ WaitSleep(p) \/ WaitWoken(p)
  \/ ExitReparent(p) \/ ExitFinish(p) \/ ExitSwitch(p)

Next ==
  \E p \in Slots :
    \/ Dispatch(p) \/ Preempt(p) \/ ForkStart(p) \/ WaitLock(p) \/ ExitLock(p)
    \/ KernelStep(p)

Spec == Init /\ [][Next]_vars

\* A process in the kernel goes on, the timer ticks (an interrupt that comes
\* during a system call is pending until it returns), and find_runnable starts
\* at init's slot, so that init is not overtaken for ever; init calls wait
\* again and again with a good address.
Fairness ==
  /\ \A p \in Slots : WF_vars(KernelStep(p)) /\ SF_vars(Preempt(p))
  /\ WF_vars(\E p \in Slots : Dispatch(p))
  /\ SF_vars(Dispatch(InitProc))
  /\ SF_vars(WaitLock(InitProc))
  /\ SF_vars(WaitReap(InitProc))
LiveSpec == Spec /\ Fairness

-----------------------------------------------------------------------------
(***************************************************************************)
(* Properties.                                                             *)
(***************************************************************************)

\* Types of ProcInner, ProcessTable and the processes' places in the code.
TypeOK ==
  /\ state \in [Slots -> {"Unused", "Allocated", "Runnable", "Running", "Sleeping",
                          "Zombie"}]
  /\ pid \in [Slots -> 0..MaxPid]
  /\ parents \in [Slots -> Slots \union {None}]
  /\ nextpid \in 1..MaxPid
  /\ plock \in Slots \union {None}
  /\ pc \in [Slots -> {"user", "alloc", "copy", "parent", "run", "wait", "woken",
                       "exit", "leaving"}]
  /\ child \in [Slots -> 0..NPROC]
  /\ npid \in [Slots -> 0..MaxPid]

\* Who is a parent is alive, and every process but init that has run has a
\* parent: exit's parents[p].unwrap() does not panic and no wakeup goes to a
\* slot that has been given to someone else.
ParentAlive ==
  \A s \in Slots :
    /\ parents[s] # None => state[parents[s]] \in {"Running", "Runnable", "Sleeping"}
    /\ s # InitProc /\ state[s] \in {"Runnable", "Running", "Sleeping", "Zombie"} =>
         parents[s] # None

\* The parent of a zombie is not asleep in wait, nor will it sleep before it
\* looks: exit's wakeup, which comes before the state is set to Zombie, is
\* never missed.
NoMissedZombie == \A s \in Slots : state[s] = "Zombie" => state[parents[s]] # "Sleeping"

\* No two processes have the same pid.
PidUnique ==
  \A s, t \in Slots : s # t /\ state[s] # "Unused" /\ state[t] # "Unused" => pid[s] # pid[t]

\* A slot is only freed once its process has left its kernel stack for the
\* scheduler's ("make sure the child isn't still in exit() or swtch()",
\* process.rs:130).
StackLeft == \A s \in Slots : pc[s] = "leaving" => state[s] = "Zombie"

\* A slot that is free has nothing of its last process left, whichever way it
\* got free.
CleanSlot == \A s \in Slots : state[s] = "Unused" => parents[s] = None /\ pid[s] = 0

\* Zombies left to init are reaped.
OrphansReaped ==
  \A s \in Slots :
    (state[s] = "Zombie" /\ parents[s] = InitProc) ~> state[s] # "Zombie"
=============================================================================
