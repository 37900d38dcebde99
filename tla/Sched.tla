------------------------------- MODULE Sched --------------------------------
(***************************************************************************)
(* Processes and CPUs: spinlocks with their interrupt bookkeeping          *)
(* (spinlock.rs, cpu.rs), the per-CPU scheduler and the switch to and from *)
(* it (cpu.rs), sleep and wakeup (proc.rs, process.rs), and one sleep-lock *)
(* (sleeplock.rs) that every process locks and unlocks Rounds times before *)
(* it exits.                                                               *)
(*                                                                         *)
(* A step of a CPU runs the thread it executes up to the next spinlock     *)
(* acquisition; a CPU that wants a lock held by another spins, that is,    *)
(* takes no step.  Timer interrupts may arrive whenever they are enabled.  *)
(***************************************************************************)
EXTENDS Naturals, FiniteSets

CONSTANTS
  NPROC,    \* processes; 1..NPROC is the order of the process table
  Cpus,
  None,     \* no CPU, no process
  Rounds    \* times a process takes the sleep-lock before it exits

ASSUME SchedAssumption ==
  /\ NPROC \in Nat \ {0}
  /\ Rounds \in Nat
  /\ None \notin Cpus \union (1..NPROC)

Procs == 1..NPROC
LK == 0                       \* the sleep-lock's inner_lock; p is p.inner
Locks == {LK} \union Procs

VARIABLES
  exec,     \* the process a CPU executes, None when in its scheduler
  proc,     \* Cpu.proc
  at,       \* where a CPU's scheduler is: scan, dispatch, switched
  idx,      \* the table index its find_runnable loop is at
  irq,      \* a CPU's interrupt enable bit, Cpu.noff and Cpu.intena
  holder,   \* the CPU that holds each spinlock, None when free
  state,    \* ProcInner.state
  chan,     \* ProcInner.chan: "lock" (the sleep-lock's), "disk", "none" (0)
  pc,       \* where a process is
  widx,     \* the table index its wakeup loop is at
  saved,    \* sched's local `intena` of a process, and the Cpu it refers to
  locked,   \* SleepLock.locked
  owner,    \* the process that holds the sleep-lock guard
  rounds    \* lock rounds a process has still to do

cpuVars == <<exec, proc, at, idx>>
lockVars == <<holder, irq>>
sleepVars == <<locked, owner, rounds>>
vars == <<exec, proc, at, idx, irq, holder, state, chan, pc, widx, saved, locked,
          owner, rounds>>

Init ==
  /\ exec = [c \in Cpus |-> None]
  /\ proc = [c \in Cpus |-> None]
  /\ at = [c \in Cpus |-> "scan"]
  /\ idx = [c \in Cpus |-> 1]
  /\ irq = [c \in Cpus |-> [on |-> TRUE, noff |-> 0, intena |-> FALSE]]
  /\ holder = [l \in Locks |-> None]
  /\ state = [p \in Procs |-> "Runnable"]
  /\ chan = [p \in Procs |-> "none"]
  /\ pc = [p \in Procs |-> "forkret"]
  /\ widx = [p \in Procs |-> 1]
  /\ saved = [p \in Procs |-> [cpu |-> None, intena |-> FALSE]]
  /\ locked = FALSE
  /\ owner = None
  /\ rounds = [p \in Procs |-> Rounds]

-----------------------------------------------------------------------------
(***************************************************************************)
(* push_off and pop_off on one CPU's interrupt record, and what taking and *)
(* dropping spinlocks does to a CPU.                                       *)
(***************************************************************************)
PushOff(r) ==
  [on     |-> FALSE,
   noff   |-> r.noff + 1,
   intena |-> IF r.noff = 0 THEN r.on ELSE r.intena]

PopOff(r) ==
  [r EXCEPT !.noff = @ - 1,
            !.on   = @ \/ (r.noff = 1 /\ r.intena)]

IntrOn(r) == [r EXCEPT !.on = TRUE]
IntrOff(r) == [r EXCEPT !.on = FALSE]

Free(l) == holder[l] = None

Acquire(c, l) ==
  /\ Free(l)
  /\ holder' = [holder EXCEPT ![l] = c]
  /\ irq' = [irq EXCEPT ![c] = PushOff(@)]

\* A critical section that is over within the step.
PassThrough(c, l) ==
  /\ Free(l)
  /\ irq' = [irq EXCEPT ![c] = PopOff(PushOff(@))]
  /\ UNCHANGED holder

-----------------------------------------------------------------------------
(***************************************************************************)
(* The scheduler of CPU c.                                                 *)
(***************************************************************************)

\* Mutant: find_runnable leaves the process Runnable for other CPUs to find.
ClaimNothing(p) == state

\* find_runnable claims a process it finds by making it Allocated.
Claim(p) == [state EXCEPT ![p] = "Allocated"]

\* One turn of find_runnable's loop; at its end the scheduler starts over.
Scan(c) ==
  LET p == idx[c]
  IN /\ exec[c] = None /\ at[c] = "scan"
     /\ PassThrough(c, p)
     /\ IF state[p] = "Runnable"
          THEN /\ state' = Claim(p)
               /\ proc' = [proc EXCEPT ![c] = p]
               /\ at' = [at EXCEPT ![c] = "dispatch"]
               /\ UNCHANGED idx
          ELSE /\ idx' = [idx EXCEPT ![c] = IF p = NPROC THEN 1 ELSE p + 1]
               /\ UNCHANGED <<state, proc, at>>
     /\ UNCHANGED <<exec, chan, pc, widx, saved, sleepVars>>

\* The process found runs, with its lock held by the CPU it runs on.
Dispatch(c) ==
  LET p == proc[c]
  IN /\ exec[c] = None /\ at[c] = "dispatch"
     /\ Acquire(c, p)
     /\ state' = [state EXCEPT ![p] = "Running"]
     /\ exec' = [exec EXCEPT ![c] = p]
     /\ UNCHANGED <<proc, at, idx, chan, pc, widx, saved, sleepVars>>

\* Back from swtch: drop the lock of the process that gave up the CPU, and
\* start over with interrupts on.
SwitchedBack(c) ==
  /\ exec[c] = None /\ at[c] = "switched"
  /\ holder' = [holder EXCEPT ![proc[c]] = None]
  /\ irq' = [irq EXCEPT ![c] = IntrOn(PopOff(@))]
  /\ proc' = [proc EXCEPT ![c] = None]
  /\ at' = [at EXCEPT ![c] = "scan"]
  /\ idx' = [idx EXCEPT ![c] = 1]
  /\ UNCHANGED <<exec, state, chan, pc, widx, saved, sleepVars>>

-----------------------------------------------------------------------------
(***************************************************************************)
(* Process p on CPU c.                                                     *)
(***************************************************************************)
Goto(p, loc) == pc' = [pc EXCEPT ![p] = loc]

\* sched: remember this CPU's intena and switch to its scheduler.
SwitchOut(c, p) ==
  /\ exec[c] = p /\ pc[p] = "sched"
  /\ saved' = [saved EXCEPT ![p] = [cpu |-> c, intena |-> irq[c].intena]]
  /\ exec' = [exec EXCEPT ![c] = None]
  /\ at' = [at EXCEPT ![c] = "switched"]
  /\ Goto(p, CASE state[p] = "Sleeping" -> "woken"
               [] state[p] = "Runnable" -> "yielded"
               [] state[p] = "Zombie"   -> "dead")
  /\ UNCHANGED <<proc, idx, lockVars, state, chan, widx, sleepVars>>

\* The end of sched, on the CPU the process resumes on: `self` is still the
\* Cpu it was called for.
RestoreIntena(p, q) ==
  [q EXCEPT ![saved[p].cpu] = [@ EXCEPT !.intena = saved[p].intena]]

\* forkret and the return to user space.
Forkret(c, p) ==
  /\ exec[c] = p /\ pc[p] = "forkret"
  /\ holder' = [holder EXCEPT ![p] = None]
  /\ irq' = [irq EXCEPT ![c] = IntrOn(PopOff(@))]
  /\ Goto(p, "user")
  /\ UNCHANGED <<cpuVars, state, chan, widx, saved, sleepVars>>

\* A timer interrupt: in user space, or in the kernel if interrupts are on.
Timer(c, p) ==
  /\ exec[c] = p /\ pc[p] \in {"user", "crit"}
  /\ irq[c].on
  /\ irq' = [irq EXCEPT ![c] = IntrOff(@)]
  /\ Goto(p, "yield")
  /\ UNCHANGED <<cpuVars, holder, state, chan, widx, saved, sleepVars>>

\* yield_process; its test for Running always succeeds here (CurrentProc).
Yield(c, p) ==
  /\ exec[c] = p /\ pc[p] = "yield"
  /\ Acquire(c, p)
  /\ state' = [state EXCEPT ![p] = "Runnable"]
  /\ Goto(p, "sched")
  /\ UNCHANGED <<cpuVars, chan, widx, saved, sleepVars>>

\* The yielding process resumes and returns from the interrupt.
Yielded(c, p) ==
  /\ exec[c] = p /\ pc[p] = "yielded"
  /\ holder' = [holder EXCEPT ![p] = None]
  /\ irq' = [RestoreIntena(p, irq) EXCEPT ![c] = IntrOn(PopOff(@))]
  /\ Goto(p, IF owner = p THEN "crit" ELSE "user")
  /\ UNCHANGED <<cpuVars, state, chan, widx, saved, sleepVars>>

\* A system call that takes the sleep-lock, or the one that exits; traps turn
\* interrupts off.
Syscall(c, p) ==
  /\ exec[c] = p /\ pc[p] = "user"
  /\ irq' = [irq EXCEPT ![c] = IntrOff(@)]
  /\ Goto(p, IF rounds[p] > 0 THEN "lock" ELSE "exit")
  /\ UNCHANGED <<cpuVars, holder, state, chan, widx, saved, sleepVars>>

\* SleepLock::lock takes inner_lock, then looks at `locked`: free, the guard
\* is ours and inner_lock is dropped; taken, it is to sleep.
TestLocked(c, p, r) ==
  IF locked
    THEN /\ holder' = [r EXCEPT ![LK] = c]
         /\ Goto(p, "sleep")
         /\ UNCHANGED <<locked, owner>>
    ELSE /\ holder' = r
         /\ Goto(p, "crit")
         /\ locked' = TRUE
         /\ owner' = p

LockStart(c, p) ==
  /\ exec[c] = p /\ pc[p] = "lock"
  /\ Free(LK)
  /\ TestLocked(c, p, holder)
  /\ irq' = [irq EXCEPT ![c] = IF locked THEN PushOff(@) ELSE PopOff(PushOff(@))]
  /\ UNCHANGED <<cpuVars, state, chan, widx, saved, rounds>>

\* sleep, with inner_lock held: take p.inner, then drop inner_lock.
Sleep(c, p) ==
  /\ exec[c] = p /\ pc[p] = "sleep"
  /\ Free(p)
  /\ holder' = [holder EXCEPT ![p] = c, ![LK] = None]
  /\ irq' = [irq EXCEPT ![c] = PopOff(PushOff(@))]
  /\ chan' = [chan EXCEPT ![p] = "lock"]
  /\ state' = [state EXCEPT ![p] = "Sleeping"]
  /\ Goto(p, "sched")
  /\ UNCHANGED <<cpuVars, widx, saved, sleepVars>>

\* sched returns in sleep: clear chan, with p.inner held.
Woken(c, p) ==
  /\ exec[c] = p /\ pc[p] = "woken" /\ chan[p] = "lock"
  /\ irq' = RestoreIntena(p, irq)
  /\ chan' = [chan EXCEPT ![p] = "none"]
  /\ Goto(p, "relock")
  /\ UNCHANGED <<cpuVars, holder, state, widx, saved, sleepVars>>

\* Mutant: the sleeper takes the sleep-lock without looking at it again.
RelockNoTest(c, p) ==
  /\ exec[c] = p /\ pc[p] = "relock"
  /\ Free(LK)
  /\ holder' = [holder EXCEPT ![p] = None]
  /\ irq' = [irq EXCEPT ![c] = PopOff(@)]
  /\ Goto(p, "crit")
  /\ locked' = TRUE
  /\ owner' = p
  /\ UNCHANGED <<cpuVars, state, chan, widx, saved, rounds>>

\* The end of sleep takes inner_lock again and only then drops p.inner; the
\* loop of SleepLock::lock looks at `locked` once more.
Relock(c, p) ==
  /\ exec[c] = p /\ pc[p] = "relock"
  /\ Free(LK)
  /\ TestLocked(c, p, [holder EXCEPT ![p] = None])
  /\ irq' = [irq EXCEPT ![c] = IF locked THEN PopOff(PushOff(@))
                                         ELSE PopOff(PopOff(PushOff(@)))]
  /\ UNCHANGED <<cpuVars, state, chan, widx, saved, rounds>>

\* The caller that has the guard sleeps until the disk interrupts, and goes on.
\* (The disk's own lock, which it gives to sleep, is left out.)
DiskWait(c, p) ==
  /\ exec[c] = p /\ pc[p] = "crit"
  /\ Acquire(c, p)
  /\ chan' = [chan EXCEPT ![p] = "disk"]
  /\ state' = [state EXCEPT ![p] = "Sleeping"]
  /\ Goto(p, "sched")
  /\ UNCHANGED <<cpuVars, widx, saved, sleepVars>>

DiskDone(c, p) ==
  /\ exec[c] = p /\ pc[p] = "woken" /\ chan[p] = "disk"
  /\ holder' = [holder EXCEPT ![p] = None]
  /\ irq' = [RestoreIntena(p, irq) EXCEPT ![c] = PopOff(@)]
  /\ chan' = [chan EXCEPT ![p] = "none"]
  /\ Goto(p, "crit")
  /\ UNCHANGED <<cpuVars, state, widx, saved, sleepVars>>

\* A CPU with interrupts on takes the disk's, whose handler calls wakeup.
DiskIntr(c, p) ==
  /\ irq[c].on /\ exec[c] # p
  /\ state[p] = "Sleeping" /\ chan[p] = "disk"
  /\ Free(p)
  /\ state' = [state EXCEPT ![p] = "Runnable"]
  /\ UNCHANGED <<cpuVars, lockVars, chan, pc, widx, saved, sleepVars>>

\* The caller is done with the sleep-lock and drops its guard.
Done(c, p) ==
  /\ exec[c] = p /\ pc[p] = "crit"
  /\ Goto(p, "unlock")
  /\ UNCHANGED <<cpuVars, lockVars, state, chan, widx, saved, sleepVars>>

\* Mutant: wakeup starts at the second process of the table.
ScanFromSecond == 2
ScanFrom == 1

Unlock(c, p) ==
  /\ exec[c] = p /\ pc[p] = "unlock"
  /\ Acquire(c, LK)
  /\ locked' = FALSE
  /\ owner' = None
  /\ widx' = [widx EXCEPT ![p] = ScanFrom]
  /\ Goto(p, "wakeup")
  /\ UNCHANGED <<cpuVars, state, chan, saved, rounds>>

\* One turn of wakeup's loop, with inner_lock held; it passes over the caller.
Wakeup(c, p) ==
  LET q == widx[p]
  IN /\ exec[c] = p /\ pc[p] = "wakeup" /\ q <= NPROC
     /\ q = p \/ Free(q)
     /\ state' = IF q # p /\ state[q] = "Sleeping" /\ chan[q] = "lock"
                   THEN [state EXCEPT ![q] = "Runnable"] ELSE state
     /\ widx' = [widx EXCEPT ![p] = q + 1]
     /\ UNCHANGED <<cpuVars, lockVars, chan, pc, saved, sleepVars>>

\* The end of unlock, and of the system call.
UnlockEnd(c, p) ==
  /\ exec[c] = p /\ pc[p] = "wakeup" /\ widx[p] > NPROC
  /\ holder' = [holder EXCEPT ![LK] = None]
  /\ irq' = [irq EXCEPT ![c] = IntrOn(PopOff(@))]
  /\ widx' = [widx EXCEPT ![p] = 1]
  /\ rounds' = [rounds EXCEPT ![p] = @ - 1]
  /\ Goto(p, "user")
  /\ UNCHANGED <<cpuVars, state, chan, saved, locked, owner>>

\* The end of exit: a zombie never runs again.
Exit(c, p) ==
  /\ exec[c] = p /\ pc[p] = "exit"
  /\ Acquire(c, p)
  /\ state' = [state EXCEPT ![p] = "Zombie"]
  /\ Goto(p, "sched")
  /\ UNCHANGED <<cpuVars, chan, widx, saved, sleepVars>>

-----------------------------------------------------------------------------
SchedulerStep(c) == Scan(c) \/ Dispatch(c) \/ SwitchedBack(c)

KernelStep(c, p) ==
  \/ SwitchOut(c, p) \/ Forkret(c, p) \/ Yield(c, p) \/ Yielded(c, p)
  \/ LockStart(c, p) \/ Sleep(c, p) \/ Woken(c, p) \/ Relock(c, p)
  \/ DiskDone(c, p) \/ Unlock(c, p) \/ Wakeup(c, p) \/ UnlockEnd(c, p)
  \/ Exit(c, p)

Next ==
  \/ \E c \in Cpus : SchedulerStep(c)
  \/ \E c \in Cpus, p \in Procs :
       \/ KernelStep(c, p) \/ Syscall(c, p) \/ Timer(c, p)
       \/ DiskWait(c, p) \/ DiskIntr(c, p) \/ Done(c, p)

\* A CPU never stops and the disk answers.  A process that runs again and again
\* gets something done between two timer ticks, and waits for the disk finitely
\* often.
Fairness ==
  /\ \A c \in Cpus :
       WF_vars(SchedulerStep(c) \/ \E p \in Procs : KernelStep(c, p))
  /\ \A p \in Procs : WF_vars(\E c \in Cpus : DiskIntr(c, p))
  /\ \A p \in Procs : SF_vars(\E c \in Cpus : Syscall(c, p))
  /\ \A p \in Procs : SF_vars(\E c \in Cpus : Done(c, p))

Spec == Init /\ [][Next]_vars
LiveSpec == Spec /\ Fairness

-----------------------------------------------------------------------------
(***************************************************************************)
(* Properties.                                                             *)
(***************************************************************************)

\* Types of the state of spinlock.rs, cpu.rs, proc.rs and sleeplock.rs.
TypeOK ==
  /\ exec \in [Cpus -> Procs \union {None}]
  /\ proc \in [Cpus -> Procs \union {None}]
  /\ at \in [Cpus -> {"scan", "dispatch", "switched"}]
  /\ idx \in [Cpus -> Procs]
  /\ irq \in [Cpus -> [on : BOOLEAN, noff : Nat, intena : BOOLEAN]]
  /\ holder \in [Locks -> Cpus \union {None}]
  /\ state \in [Procs -> {"Runnable", "Allocated", "Running", "Sleeping", "Zombie"}]
  /\ chan \in [Procs -> {"none", "lock", "disk"}]
  /\ pc \in [Procs -> {"forkret", "user", "yield", "yielded", "lock", "sleep", "sched",
                       "woken", "relock", "crit", "unlock", "wakeup", "exit", "dead"}]
  /\ widx \in [Procs -> 1..NPROC + 1]
  /\ saved \in [Procs -> [cpu : Cpus \union {None}, intena : BOOLEAN]]
  /\ locked \in BOOLEAN
  /\ owner \in Procs \union {None}
  /\ rounds \in [Procs -> 0..Rounds]

\* The spinlock a CPU is about to take, None when it needs none.
Wants(c) ==
  LET p == exec[c]
  IN IF p = None
       THEN CASE at[c] = "scan"     -> idx[c]
              [] at[c] = "dispatch" -> proc[c]
              [] OTHER              -> None
       ELSE CASE pc[p] \in {"lock", "relock", "unlock"} -> LK
              [] pc[p] \in {"yield", "sleep", "exit"}   -> p
              [] pc[p] = "wakeup" /\ widx[p] \in Procs \ {p} -> widx[p]
              [] OTHER -> None

\* No process runs on two CPUs, or is the current process (Cpu.proc) of two:
\* find_runnable, scheduler and sched hand it over one at a time.
OneCpu ==
  \A c, d \in Cpus : c # d => /\ (proc[c] = proc[d] => proc[c] = None)
                             /\ (exec[c] = exec[d] => exec[c] = None)

\* my_proc() is the process that executes, and its state is Running until it
\* gives up the CPU.  In the window where the scheduler has set Cpu.proc but
\* not yet switched, with interrupts on, the process is not Running, so that a
\* timer interrupt's yield_process leaves it alone.
CurrentProc ==
  \A c \in Cpus :
    /\ exec[c] # None => /\ proc[c] = exec[c]
                         /\ pc[exec[c]] # "sched" => state[exec[c]] = "Running"
    /\ exec[c] = None /\ at[c] = "dispatch" => state[proc[c]] # "Running"

\* Cpu.noff is the number of spinlocks the CPU holds, and interrupts are off
\* while it holds any ("interrupts must be off while a spinlock is held",
\* sleeplock.rs:12), across switches between threads and CPUs.
NoffCounts ==
  \A c \in Cpus :
    /\ irq[c].noff = Cardinality({l \in Locks : holder[l] = c})
    /\ irq[c].noff > 0 => ~irq[c].on

\* None of the panics of acquire, release, sched and pop_off is reachable: no
\* CPU takes a lock it holds, a process that gives up the CPU holds its own
\* lock and no other, and the scheduler gets that lock back.
NoPanic ==
  \A c \in Cpus :
    /\ Wants(c) # None => holder[Wants(c)] # c
    /\ exec[c] # None /\ pc[exec[c]] = "sched" =>
         irq[c].noff = 1 /\ holder[exec[c]] = c /\ state[exec[c]] # "Running"
    /\ exec[c] = None /\ at[c] = "switched" => holder[proc[c]] = c

\* The sleep-lock excludes: a process that goes on with the guard is the one it
\* was last given to, also after it slept or was preempted, and `locked` says
\* that the guard is out.
MutualExclusion ==
  /\ \A p \in Procs : pc[p] \in {"crit", "unlock"} => owner = p
  /\ locked <=> owner # None

\* No wakeup is lost: if a process sleeps on the sleep-lock then the lock is
\* taken, or the process that just released it has still to reach it in its
\* scan of the table (sleep holds p.inner from before it drops inner_lock).
NoLostWakeup ==
  \A p \in Procs : state[p] = "Sleeping" /\ chan[p] = "lock" =>
    \/ locked
    \/ \E q \in Procs \ {p} : pc[q] = "wakeup" /\ widx[q] <= p

\* Everybody gets the sleep-lock as often as asked for, and exits.
AllExit == <>(\A p \in Procs : state[p] = "Zombie")

\* No two CPUs spin for ever, each on a lock the other holds: "deadlock on
\* acquisition can be avoided at the compiler level" (spinlock.rs:15).
NoSpinCycle ==
  ~ \E c, d \in Cpus : c # d /\ Wants(c) # None /\ Wants(d) # None
                       /\ holder[Wants(c)] = d /\ holder[Wants(d)] = c

\* "intena is a property of this kernel thread, not this CPU" (cpu.rs:119):
\* after sched the CPU a process runs on has the intena it saved.
IntenaFollowsThread ==
  \A c \in Cpus, p \in Procs :
    exec[c] = p /\ pc[p] = "relock" => irq[c].intena = saved[p].intena
=============================================================================
