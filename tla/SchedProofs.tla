----------------------------- MODULE SchedProofs ----------------------------
(***************************************************************************)
(* Proofs about Sched, for every number of processes, CPUs and rounds.     *)
(***************************************************************************)
EXTENDS Sched, TLAPS

\* A leaf that names no prover is tried with the SMT solver, then with Zenon and
\* then, with more time, with the SMT solver again.
USE SMTT(10), Zenon, SMTT(30)

-----------------------------------------------------------------------------
(***************************************************************************)
(* The inductive invariant.                                                *)
(***************************************************************************)
States == {"Runnable", "Allocated", "Running", "Sleeping", "Zombie"}
Parked == {"forkret", "yielded", "woken", "dead"}
Busy == {"user", "yield", "lock", "sleep", "relock", "crit", "unlock", "wakeup", "exit"}

Types ==
  /\ exec \in [Cpus -> Procs \union {None}]
  /\ proc \in [Cpus -> Procs \union {None}]
  /\ at \in [Cpus -> {"scan", "dispatch", "switched"}]
  /\ idx \in [Cpus -> Procs]
  /\ holder \in [Locks -> Cpus \union {None}]
  /\ state \in [Procs -> States]
  /\ chan \in [Procs -> {"none", "lock", "disk"}]
  /\ pc \in [Procs -> Parked \union Busy \union {"sched"}]
  /\ widx \in [Procs -> 1..NPROC + 1]
  /\ locked \in BOOLEAN
  /\ owner \in Procs \union {None}

\* A process belongs to one CPU at most.
OneProc == \A c, d \in Cpus : proc[c] = proc[d] /\ proc[c] # None => c = d

\* What a CPU's Cpu.proc is: the process it executes, which is Running until it
\* is about to leave; the one found, which nobody else can find; or the one
\* that just left, whose lock the CPU still has.
CpuOK(c) ==
  /\ exec[c] # None => /\ proc[c] = exec[c]
                       /\ pc[exec[c]] # "sched" => state[exec[c]] = "Running"
  /\ exec[c] = None /\ at[c] = "scan" => proc[c] = None
  /\ exec[c] = None /\ at[c] = "dispatch" => proc[c] # None /\ state[proc[c]] = "Allocated"
  /\ exec[c] = None /\ at[c] = "switched" => proc[c] # None /\ holder[proc[c]] = c

\* A process about to leave holds its lock; one that is not Running has left or
\* is about to.
Leaving(p) ==
  /\ pc[p] = "sched" =>
       /\ holder[p] # None /\ exec[holder[p]] = p
       /\ state[p] \in {"Runnable", "Sleeping", "Zombie"}
  /\ state[p] # "Running" => pc[p] \in Parked \union {"sched"}

\* A process has a channel from sleep until it resumes; who waits for the disk
\* has the sleep-lock.
Channel(p) ==
  chan[p] # "none" =>
    /\ pc[p] \in {"sched", "woken"}
    /\ pc[p] = "sched" => state[p] = "Sleeping"
    /\ chan[p] = "disk" => owner = p

\* Between the test of `locked` and sleep, and during wakeup's scan, a process
\* holds the inner_lock.
InnerLock(p) ==
  pc[p] \in {"sleep", "wakeup"} =>
    /\ holder[LK] # None /\ exec[holder[LK]] = p
    /\ pc[p] = "sleep" => locked

IInv ==
  /\ Types /\ OneProc
  /\ \A c \in Cpus : CpuOK(c)
  /\ \A p \in Procs : Leaving(p) /\ Channel(p) /\ InnerLock(p)
  /\ MutualExclusion /\ NoLostWakeup

-----------------------------------------------------------------------------
LEMMA Distinct ==
  ASSUME NEW p \in Procs
  PROVE  p # LK /\ p # None /\ p \in Locks /\ LK \in Locks
BY SchedAssumption DEF Procs, LK, Locks

LEMMA InitIInv == Init => IInv
<1> SUFFICES ASSUME Init PROVE IInv
  OBVIOUS
<1> 1 \in Procs /\ 1 \in 1..NPROC + 1
  BY SchedAssumption DEF Procs
<1>1. Types
  BY Zenon DEF Init, Types, States, Parked
<1>2. OneProc /\ \A c \in Cpus : CpuOK(c)
  BY DEF Init, OneProc, CpuOK
<1>3. \A p \in Procs : Leaving(p) /\ Channel(p) /\ InnerLock(p)
  BY DEF Init, Leaving, Channel, InnerLock, Parked
<1>4. MutualExclusion /\ NoLostWakeup
  BY DEF Init, MutualExclusion, NoLostWakeup
<1> QED
  BY <1>1, <1>2, <1>3, <1>4 DEF IInv

\* The CPU that executes a process is the only one to have it.
LEMMA Executing ==
  ASSUME IInv, NEW c \in Cpus, NEW p \in Procs, exec[c] = p
  PROVE  /\ proc[c] = p
         /\ pc[p] # "sched" => state[p] = "Running"
         /\ pc[p] = "sched" => holder[p] = c
         /\ \A d \in Cpus \ {c} : exec[d] # p /\ proc[d] # p
<1>1. p # None /\ p \in Locks
  BY Distinct
<1>2. proc[c] = p /\ (pc[p] # "sched" => state[p] = "Running")
  BY <1>1 DEF IInv, CpuOK
<1>3. \A d \in Cpus \ {c} : exec[d] # p /\ proc[d] # p
  BY <1>1, <1>2 DEF IInv, CpuOK, OneProc
<1>4. pc[p] = "sched" => holder[p] = c
  BY <1>1, <1>3 DEF IInv, Types, Leaving
<1> QED
  BY <1>2, <1>3, <1>4

-----------------------------------------------------------------------------
(***************************************************************************)
(* A process goes on, and may drop its own lock and clear its channel.     *)
(***************************************************************************)
LEMMA GoesOn ==
  ASSUME IInv, NEW c \in Cpus, NEW p \in Procs, exec[c] = p,
         pc[p] \notin {"sched", "sleep", "wakeup"},
         NEW to \in {"user", "yield", "lock", "exit", "crit", "unlock", "relock"},
         to \in {"crit", "unlock"} => owner = p,
         pc' = [pc EXCEPT ![p] = to],
         holder' = holder \/ holder' = [holder EXCEPT ![p] = None],
         chan' = [chan EXCEPT ![p] = "none"],
         UNCHANGED <<exec, proc, at, idx, state, widx, locked, owner>>
  PROVE  IInv'
<1>1. p # LK /\ p # None /\ p \in Locks /\ LK \in Locks
  BY Distinct
<1>2. /\ proc[c] = p /\ state[p] = "Running"
      /\ \A d \in Cpus \ {c} : exec[d] # p /\ proc[d] # p
  BY Executing
<1>3. /\ pc'[p] = to /\ \A q \in Procs \ {p} : pc'[q] = pc[q]
      /\ chan'[p] = "none" /\ \A q \in Procs \ {p} : chan'[q] = chan[q]
      /\ \A l \in Locks \ {p} : holder'[l] = holder[l]
  BY DEF IInv, Types
<1>4. Types'
  BY <1>1 DEF IInv, Types, Busy
<1>5. OneProc'
  BY DEF IInv, OneProc
<1>6. ASSUME NEW d \in Cpus PROVE CpuOK(d)'
  <2>1. proc[d] # None /\ d # c => holder'[proc[d]] = holder[proc[d]]
    BY <1>2, <1>3, Distinct DEF IInv, Types
  <2> QED
    BY <1>1, <1>2, <1>3, <2>1 DEF IInv, Types, CpuOK
<1>7. ASSUME NEW q \in Procs PROVE Leaving(q)' /\ Channel(q)' /\ InnerLock(q)'
  <2>1. CASE q = p
    BY <1>2, <1>3, <2>1 DEF Leaving, Channel, InnerLock
  <2>2. CASE q # p
    <3>1. holder'[q] = holder[q] /\ holder'[LK] = holder[LK]
      BY <1>1, <1>3, <2>2, Distinct
    <3>2. Leaving(q)'
      BY <1>3, <2>2, <3>1 DEF IInv, Leaving
    <3>3. Channel(q)' /\ InnerLock(q)'
      BY <1>3, <2>2, <3>1 DEF IInv, Channel, InnerLock
    <3> QED
      BY <3>2, <3>3
  <2> QED
    BY <2>1, <2>2
<1>8. MutualExclusion'
  BY <1>3 DEF IInv, MutualExclusion
<1>9. NoLostWakeup'
  BY <1>3 DEF IInv, NoLostWakeup
<1> QED
  BY <1>4, <1>5, <1>6, <1>7, <1>8, <1>9 DEF IInv

\* Who is not about to sleep or just woken has no channel.
LEMMA NoChannel ==
  ASSUME IInv, NEW p \in Procs, pc[p] \notin {"sched", "woken"}
  PROVE  chan = [chan EXCEPT ![p] = "none"]
BY DEF IInv, Types, Channel

LEMMA ForkretKeeps ==
  ASSUME IInv, NEW c \in Cpus, NEW p \in Procs, Forkret(c, p)
  PROVE  IInv'
BY ZenonT(30), GoesOn, NoChannel DEF Forkret, Goto, cpuVars, sleepVars

LEMMA TimerKeeps ==
  ASSUME IInv, NEW c \in Cpus, NEW p \in Procs, Timer(c, p)
  PROVE  IInv'
BY ZenonT(30), GoesOn, NoChannel DEF Timer, Goto, cpuVars, sleepVars

LEMMA YieldedKeeps ==
  ASSUME IInv, NEW c \in Cpus, NEW p \in Procs, Yielded(c, p)
  PROVE  IInv'
<1>1. CASE owner = p
  BY ZenonT(30), <1>1, GoesOn, NoChannel DEF Yielded, Goto, cpuVars, sleepVars
<1>2. CASE owner # p
  BY ZenonT(30), <1>2, GoesOn, NoChannel DEF Yielded, Goto, cpuVars, sleepVars
<1> QED
  BY <1>1, <1>2

LEMMA SyscallKeeps ==
  ASSUME IInv, NEW c \in Cpus, NEW p \in Procs, Syscall(c, p)
  PROVE  IInv'
<1>1. PICK to \in {"lock", "exit"} : pc' = [pc EXCEPT ![p] = to]
  BY Zenon DEF Syscall, Goto
<1> QED
  BY ZenonT(30), <1>1, GoesOn, NoChannel DEF Syscall, cpuVars, sleepVars

LEMMA DoneKeeps ==
  ASSUME IInv, NEW c \in Cpus, NEW p \in Procs, Done(c, p)
  PROVE  IInv'
<1>1. owner = p
  BY DEF Done, IInv, MutualExclusion
<1> QED
  BY ZenonT(30), <1>1, GoesOn, NoChannel DEF Done, Goto, cpuVars, lockVars, sleepVars

LEMMA WokenKeeps ==
  ASSUME IInv, NEW c \in Cpus, NEW p \in Procs, Woken(c, p)
  PROVE  IInv'
BY ZenonT(30), GoesOn DEF Woken, Goto, cpuVars, sleepVars

LEMMA DiskDoneKeeps ==
  ASSUME IInv, NEW c \in Cpus, NEW p \in Procs, DiskDone(c, p)
  PROVE  IInv'
<1>1. owner = p
  BY DEF DiskDone, IInv, Channel
<1> QED
  BY ZenonT(30), <1>1, GoesOn DEF DiskDone, Goto, cpuVars, sleepVars

-----------------------------------------------------------------------------
(***************************************************************************)
(* A process takes its own lock and gives up the CPU; sleep drops the      *)
(* inner_lock.                                                             *)
(***************************************************************************)
LEMMA GivesUp ==
  ASSUME IInv, NEW c \in Cpus, NEW p \in Procs, exec[c] = p,
         pc[p] \in Busy \ {"wakeup"},
         NEW s \in {"Runnable", "Sleeping", "Zombie"}, NEW ch \in {"none", "lock", "disk"},
         ch # "none" => s = "Sleeping",
         ch = "disk" => owner = p,
         ch = "lock" => locked,
         pc' = [pc EXCEPT ![p] = "sched"],
         state' = [state EXCEPT ![p] = s],
         chan' = [chan EXCEPT ![p] = ch],
         \/ holder' = [holder EXCEPT ![p] = c]
         \/ holder' = [holder EXCEPT ![p] = c, ![LK] = None] /\ pc[p] = "sleep",
         UNCHANGED <<exec, proc, at, idx, widx, locked, owner>>
  PROVE  IInv'
<1>1. p # LK /\ p # None /\ p \in Locks /\ LK \in Locks
  BY Distinct
<1>2. /\ proc[c] = p /\ c # None
      /\ \A d \in Cpus \ {c} : exec[d] # p /\ proc[d] # p
  BY Executing, SchedAssumption
<1>3. /\ pc'[p] = "sched" /\ \A q \in Procs \ {p} : pc'[q] = pc[q]
      /\ chan'[p] = ch /\ \A q \in Procs \ {p} : chan'[q] = chan[q]
      /\ state'[p] = s /\ \A q \in Procs \ {p} : state'[q] = state[q]
  BY DEF IInv, Types
<1>4. holder'[p] = c /\ \A q \in Procs \ {p} : holder'[q] = holder[q]
  BY <1>1, Distinct DEF IInv, Types
<1>5. Types'
  BY <1>1 DEF IInv, Types, States
<1>6. OneProc'
  BY DEF IInv, OneProc
<1>7. ASSUME NEW d \in Cpus PROVE CpuOK(d)'
  <2>1. proc[d] # None /\ d # c =>
          holder'[proc[d]] = holder[proc[d]] /\ state'[proc[d]] = state[proc[d]]
    BY <1>2, <1>3, <1>4 DEF IInv, Types
  <2>2. CASE d = c
    BY <1>1, <1>2, <1>3, <2>2 DEF CpuOK
  <2>3. CASE d # c
    BY <1>2, <1>3, <2>1, <2>3 DEF IInv, Types, CpuOK
  <2> QED
    BY <2>2, <2>3
<1>8. ASSUME NEW q \in Procs PROVE Leaving(q)' /\ Channel(q)'
  <2>1. CASE q = p
    BY <1>2, <1>3, <1>4, <2>1 DEF Leaving, Channel
  <2>2. CASE q # p
    BY <1>3, <1>4, <2>2 DEF IInv, Leaving, Channel
  <2> QED
    BY <2>1, <2>2
<1>9. ASSUME NEW q \in Procs PROVE InnerLock(q)'
  <2>1. CASE holder'[LK] = holder[LK]
    BY <1>3, <2>1 DEF IInv, InnerLock
  <2>2. CASE holder'[LK] # holder[LK]
    <3>1. pc[p] = "sleep"
      BY <1>1, <2>2 DEF IInv, Types
    <3>2. exec[holder[LK]] = p
      BY <3>1 DEF IInv, InnerLock
    <3> QED
      BY <1>3, <3>2 DEF IInv, InnerLock
  <2> QED
    BY <2>1, <2>2
<1>10. MutualExclusion'
  BY <1>3 DEF IInv, MutualExclusion
<1>11. NoLostWakeup'
  <2> SUFFICES ASSUME NEW r \in Procs, state'[r] = "Sleeping", chan'[r] = "lock", ~locked
               PROVE  \E q \in Procs \ {r} : pc'[q] = "wakeup" /\ widx[q] <= r
    BY DEF NoLostWakeup
  <2>1. r # p /\ state[r] = "Sleeping" /\ chan[r] = "lock"
    BY <1>3
  <2>2. PICK q \in Procs \ {r} : pc[q] = "wakeup" /\ widx[q] <= r
    BY <2>1 DEF IInv, NoLostWakeup
  <2> QED
    BY <1>3, <2>2
<1> QED
  BY <1>5, <1>6, <1>7, <1>8, <1>9, <1>10, <1>11 DEF IInv

LEMMA YieldKeeps ==
  ASSUME IInv, NEW c \in Cpus, NEW p \in Procs, Yield(c, p)
  PROVE  IInv'
BY ZenonT(30), GivesUp, NoChannel DEF Yield, Acquire, Goto, Busy, cpuVars, sleepVars

LEMMA SleepKeeps ==
  ASSUME IInv, NEW c \in Cpus, NEW p \in Procs, Sleep(c, p)
  PROVE  IInv'
<1>1. locked
  BY DEF Sleep, IInv, InnerLock
<1> QED
  BY ZenonT(30), <1>1, GivesUp DEF Sleep, Goto, Busy, cpuVars, sleepVars

LEMMA DiskWaitKeeps ==
  ASSUME IInv, NEW c \in Cpus, NEW p \in Procs, DiskWait(c, p)
  PROVE  IInv'
<1>1. owner = p
  BY DEF DiskWait, IInv, MutualExclusion
<1> QED
  BY ZenonT(30), <1>1, GivesUp DEF DiskWait, Acquire, Goto, Busy, cpuVars, sleepVars

LEMMA ExitKeeps ==
  ASSUME IInv, NEW c \in Cpus, NEW p \in Procs, Exit(c, p)
  PROVE  IInv'
BY ZenonT(30), GivesUp, NoChannel DEF Exit, Acquire, Goto, Busy, cpuVars, sleepVars

-----------------------------------------------------------------------------
(***************************************************************************)
(* SleepLock::lock and unlock under the inner_lock.                        *)
(***************************************************************************)
LEMMA TestKeeps ==
  ASSUME IInv, NEW c \in Cpus, NEW p \in Procs, exec[c] = p, pc[p] \in {"lock", "relock"},
         Free(LK), NEW r, r = holder \/ r = [holder EXCEPT ![p] = None],
         TestLocked(c, p, r),
         UNCHANGED <<exec, proc, at, idx, state, chan, widx>>
  PROVE  IInv'
<1>1. p # LK /\ p # None /\ p \in Locks /\ LK \in Locks
  BY Distinct
<1>2. /\ proc[c] = p /\ state[p] = "Running" /\ c # None
      /\ \A d \in Cpus \ {c} : exec[d] # p /\ proc[d] # p
  BY Executing, SchedAssumption
<1>3. PICK to \in {"sleep", "crit"} : pc' = [pc EXCEPT ![p] = to]
  BY DEF TestLocked, Goto
<1>4. /\ pc'[p] = to /\ \A q \in Procs \ {p} : pc'[q] = pc[q]
      /\ \A q \in Procs \ {p} : holder'[q] = holder[q]
  BY <1>1, <1>3, Distinct DEF IInv, Types, TestLocked
<1>5. IF to = "sleep" THEN locked /\ locked' /\ owner' = owner /\ holder'[LK] = c
                      ELSE ~locked /\ locked' /\ owner' = p /\ owner = None
  BY <1>1, <1>3 DEF IInv, Types, TestLocked, Goto, MutualExclusion
<1>6. \A q \in Procs : pc[q] \notin {"sleep", "wakeup"}
  BY DEF IInv, InnerLock, Free
<1>7. Types'
  <2>1. holder' \in [Locks -> Cpus \union {None}]
    BY <1>1 DEF IInv, Types, TestLocked
  <2>2. pc' \in [Procs -> Parked \union Busy \union {"sched"}]
    BY <1>3 DEF IInv, Types, Busy
  <2>3. locked' \in BOOLEAN /\ owner' \in Procs \union {None}
    <3>1. CASE locked
      BY <3>1 DEF IInv, Types, TestLocked
    <3>2. CASE ~locked
      BY <3>2 DEF TestLocked
    <3> QED
      BY <3>1, <3>2
  <2> QED
    BY <2>1, <2>2, <2>3 DEF IInv, Types
<1>8. OneProc'
  BY DEF IInv, OneProc
<1>9. ASSUME NEW d \in Cpus PROVE CpuOK(d)'
  <2>1. CASE d = c
    BY <1>1, <1>2, <2>1 DEF CpuOK
  <2>2. CASE d # c
    <3>1. proc[d] # None => holder'[proc[d]] = holder[proc[d]]
      BY <1>2, <1>4, <2>2 DEF IInv, Types
    <3> QED
      BY <1>2, <1>4, <2>2, <3>1 DEF IInv, Types, CpuOK
  <2> QED
    BY <2>1, <2>2
<1>10. ASSUME NEW q \in Procs PROVE Leaving(q)' /\ Channel(q)' /\ InnerLock(q)'
  <2>1. CASE q = p
    <3>1. chan[p] = "none"
      BY DEF IInv, Channel
    <3> QED
      BY <1>2, <1>4, <1>5, <2>1, <3>1 DEF Leaving, Channel, InnerLock
  <2>2. CASE q # p
    <3>1. Leaving(q)'
      BY <1>4, <2>2 DEF IInv, Leaving
    <3>2. Channel(q)'
      BY <1>4, <1>5, <2>2, Distinct DEF IInv, Channel
    <3>3. InnerLock(q)'
      BY <1>4, <1>6, <2>2 DEF InnerLock
    <3> QED
      BY <3>1, <3>2, <3>3
  <2> QED
    BY <2>1, <2>2
<1>11. MutualExclusion'
  BY <1>1, <1>4, <1>5, Distinct DEF IInv, MutualExclusion
<1>12. NoLostWakeup'
  BY <1>5 DEF NoLostWakeup
<1> QED
  BY <1>7, <1>8, <1>9, <1>10, <1>11, <1>12 DEF IInv

LEMMA LockStartKeeps ==
  ASSUME IInv, NEW c \in Cpus, NEW p \in Procs, LockStart(c, p)
  PROVE  IInv'
BY TestKeeps DEF LockStart, cpuVars

LEMMA RelockKeeps ==
  ASSUME IInv, NEW c \in Cpus, NEW p \in Procs, Relock(c, p)
  PROVE  IInv'
BY TestKeeps DEF Relock, cpuVars

LEMMA UnlockKeeps ==
  ASSUME IInv, NEW c \in Cpus, NEW p \in Procs, Unlock(c, p)
  PROVE  IInv'
<1>1. p # LK /\ p # None /\ p \in Locks /\ LK \in Locks
  BY Distinct
<1>2. exec[c] = p /\ pc[p] = "unlock" /\ owner = p /\ Free(LK) /\ c # None
  BY SchedAssumption DEF Unlock, Acquire, IInv, MutualExclusion
<1>3. /\ proc[c] = p /\ state[p] = "Running"
      /\ \A d \in Cpus \ {c} : exec[d] # p /\ proc[d] # p
  BY <1>2, Executing
<1>4. /\ pc'[p] = "wakeup" /\ \A q \in Procs \ {p} : pc'[q] = pc[q]
      /\ widx'[p] = 1
      /\ holder'[LK] = c /\ \A q \in Procs : holder'[q] = holder[q]
      /\ locked' = FALSE /\ owner' = None
      /\ UNCHANGED <<exec, proc, at, idx, state, chan>>
  BY <1>1, Distinct DEF Unlock, Acquire, Goto, IInv, Types, cpuVars, ScanFrom
<1>5. Types'
  <2>1. 1 \in 1..NPROC + 1
    BY SchedAssumption
  <2> QED
    BY <1>1, <2>1, Zenon DEF Unlock, Acquire, Goto, IInv, Types, Busy, cpuVars, ScanFrom
<1>6. OneProc'
  BY <1>4 DEF IInv, OneProc
<1>7. ASSUME NEW d \in Cpus PROVE CpuOK(d)'
  BY <1>2, <1>3, <1>4 DEF IInv, Types, CpuOK
<1>8. ASSUME NEW q \in Procs PROVE Leaving(q)' /\ Channel(q)' /\ InnerLock(q)'
  <2>1. CASE q = p
    <3>1. chan[p] = "none"
      BY <1>2 DEF IInv, Channel
    <3> QED
      BY <1>2, <1>3, <1>4, <2>1, <3>1 DEF Leaving, Channel, InnerLock
  <2>2. CASE q # p
    <3>0. Leaving(q) /\ Channel(q) /\ InnerLock(q)
      BY DEF IInv
    <3>1. Leaving(q)'
      BY <1>4, <2>2, <3>0 DEF Leaving
    <3>2. Channel(q)'
      BY <1>2, <1>4, <2>2, <3>0 DEF Channel
    <3>3. InnerLock(q)'
      BY <1>2, <1>4, <2>2, <3>0 DEF InnerLock, Free
    <3> QED
      BY <3>1, <3>2, <3>3
  <2> QED
    BY <2>1, <2>2
<1>9. MutualExclusion'
  BY <1>2, <1>4 DEF IInv, MutualExclusion
<1>10. NoLostWakeup'
  <2> SUFFICES ASSUME NEW r \in Procs, state'[r] = "Sleeping"
               PROVE  \E q \in Procs \ {r} : pc'[q] = "wakeup" /\ widx'[q] <= r
    BY DEF NoLostWakeup
  <2>1. r # p
    BY <1>3, <1>4
  <2>2. 1 <= r
    BY SchedAssumption DEF Procs
  <2> QED
    BY <1>4, <2>1, <2>2
<1> QED
  BY <1>5, <1>6, <1>7, <1>8, <1>9, <1>10 DEF IInv

LEMMA UnlockEndKeeps ==
  ASSUME IInv, NEW c \in Cpus, NEW p \in Procs, UnlockEnd(c, p)
  PROVE  IInv'
<1>1. p # LK /\ p # None /\ p \in Locks /\ LK \in Locks
  BY Distinct
<1>2. exec[c] = p /\ pc[p] = "wakeup" /\ widx[p] > NPROC
  BY DEF UnlockEnd
<1>3. /\ proc[c] = p /\ state[p] = "Running" /\ exec[holder[LK]] = p
      /\ \A d \in Cpus \ {c} : exec[d] # p /\ proc[d] # p
  BY <1>2, Executing DEF IInv, InnerLock
<1>4. /\ pc'[p] = "user" /\ \A q \in Procs \ {p} : pc'[q] = pc[q] /\ widx'[q] = widx[q]
      /\ \A q \in Procs : holder'[q] = holder[q]
      /\ UNCHANGED <<exec, proc, at, idx, state, chan, locked, owner>>
  BY <1>1, Distinct DEF UnlockEnd, Goto, IInv, Types, cpuVars
<1>5. Types'
  <2>1. 1 \in 1..NPROC + 1
    BY SchedAssumption
  <2> QED
    BY <1>1, <2>1 DEF UnlockEnd, Goto, IInv, Types, Busy, cpuVars
<1>6. OneProc'
  BY <1>4 DEF IInv, OneProc
<1>7. ASSUME NEW d \in Cpus PROVE CpuOK(d)'
  <2>1. CpuOK(d) /\ proc[d] \in Procs \union {None}
    BY DEF IInv, Types
  <2>2. exec[d] # None => (pc[exec[d]] # "sched" => state[exec[d]] = "Running")
    BY <2>1 DEF CpuOK
  <2>3. exec[d] # None => exec[d] \in Procs
    BY <2>1 DEF CpuOK
  <2>4. exec[d] # None => (pc'[exec[d]] # "sched" => state[exec[d]] = "Running")
    BY <1>3, <1>4, <2>2, <2>3
  <2> QED
    BY <1>4, <2>1, <2>4, Zenon DEF CpuOK
<1>8. ASSUME NEW q \in Procs PROVE Leaving(q)' /\ Channel(q)' /\ InnerLock(q)'
  <2>1. CASE q = p
    <3>1. chan[p] = "none"
      BY <1>2 DEF IInv, Channel
    <3> QED
      BY <1>3, <1>4, <2>1, <3>1 DEF Leaving, Channel, InnerLock
  <2>2. CASE q # p
    <3>1. pc[q] \notin {"sleep", "wakeup"}
      BY <1>3, <2>2 DEF IInv, InnerLock
    <3>2. Leaving(q) /\ Channel(q)
      BY DEF IInv
    <3>3. Leaving(q)'
      BY <1>4, <2>2, <3>2 DEF Leaving
    <3>4. Channel(q)'
      BY <1>4, <2>2, <3>2 DEF Channel
    <3>5. InnerLock(q)'
      BY <1>4, <2>2, <3>1 DEF InnerLock
    <3> QED
      BY <3>3, <3>4, <3>5
  <2> QED
    BY <2>1, <2>2
<1>9. MutualExclusion'
  BY <1>4 DEF IInv, MutualExclusion
<1>10. NoLostWakeup'
  <2> SUFFICES ASSUME NEW r \in Procs, state[r] = "Sleeping", chan[r] = "lock", ~locked
               PROVE  \E q \in Procs \ {r} : pc'[q] = "wakeup" /\ widx'[q] <= r
    BY <1>4 DEF NoLostWakeup
  <2>1. PICK q \in Procs \ {r} : pc[q] = "wakeup" /\ widx[q] <= r
    BY DEF IInv, NoLostWakeup
  <2>2. q # p
    <3>1. widx[p] \in Nat /\ r \in Nat /\ r <= NPROC /\ NPROC \in Nat
      BY SchedAssumption DEF Procs, IInv, Types
    <3>2. ~(widx[p] <= r)
      BY <1>2, <3>1
    <3> QED
      BY <2>1, <3>2
  <2> QED
    BY <1>4, <2>1, <2>2
<1> QED
  BY <1>5, <1>6, <1>7, <1>8, <1>9, <1>10 DEF IInv

-----------------------------------------------------------------------------
(***************************************************************************)
(* A sleeper whose lock is free is made Runnable, by unlock's wakeup or by *)
(* the disk.                                                               *)
(***************************************************************************)
LEMMA Awakes ==
  ASSUME IInv, NEW q \in Procs, state[q] = "Sleeping", Free(q),
         state' = [state EXCEPT ![q] = "Runnable"],
         UNCHANGED <<exec, proc, at, idx, holder, chan, pc, locked, owner>>
  PROVE  /\ state' \in [Procs -> States]
         /\ \A d \in Cpus : CpuOK(d)'
         /\ \A p \in Procs : Leaving(p)' /\ Channel(p)' /\ InnerLock(p)'
<1>1. pc[q] # "sched" /\ pc[q] \in Parked
  BY DEF IInv, Leaving, Free
<1>2. state'[q] = "Runnable" /\ \A p \in Procs \ {q} : state'[p] = state[p]
  BY DEF IInv, Types
<1>3. state' \in [Procs -> States]
  BY DEF IInv, Types, States
<1>4. ASSUME NEW d \in Cpus PROVE CpuOK(d)'
  <2>1. exec[d] # q
    BY <1>1, Distinct DEF IInv, CpuOK
  <2>2. exec[d] = None /\ at[d] = "dispatch" => proc[d] # q
    BY DEF IInv, CpuOK
  <2> QED
    BY <1>2, <2>1, <2>2 DEF IInv, Types, CpuOK
<1>5. ASSUME NEW p \in Procs PROVE Leaving(p)' /\ Channel(p)' /\ InnerLock(p)'
  <2>1. CASE p = q
    BY <1>1, <1>2, <2>1 DEF IInv, Leaving, Channel, InnerLock, Parked
  <2>2. CASE p # q
    BY <1>2, <2>2 DEF IInv, Leaving, Channel, InnerLock
  <2> QED
    BY <2>1, <2>2
<1> QED
  BY <1>3, <1>4, <1>5

LEMMA DiskIntrKeeps ==
  ASSUME IInv, NEW c \in Cpus, NEW p \in Procs, DiskIntr(c, p)
  PROVE  IInv'
<1>1. /\ UNCHANGED <<exec, proc, at, idx, holder, chan, pc, widx, locked, owner>>
      /\ state[p] = "Sleeping" /\ Free(p) /\ state' = [state EXCEPT ![p] = "Runnable"]
  BY DEF DiskIntr, cpuVars, lockVars, sleepVars
<1>2. /\ state' \in [Procs -> States]
      /\ \A d \in Cpus : CpuOK(d)'
      /\ \A q \in Procs : Leaving(q)' /\ Channel(q)' /\ InnerLock(q)'
  BY ZenonT(30), <1>1, Awakes
<1>3. Types' /\ OneProc' /\ MutualExclusion'
  BY <1>1, <1>2 DEF IInv, Types, OneProc, MutualExclusion
<1>4. NoLostWakeup'
  BY <1>1 DEF IInv, Types, NoLostWakeup
<1> QED
  BY <1>2, <1>3, <1>4 DEF IInv

LEMMA WakeupKeeps ==
  ASSUME IInv, NEW c \in Cpus, NEW p \in Procs, Wakeup(c, p)
  PROVE  IInv'
<1> DEFINE q == widx[p]
           hit == q # p /\ state[q] = "Sleeping" /\ chan[q] = "lock"
<1>1. /\ exec[c] = p /\ pc[p] = "wakeup" /\ q <= NPROC /\ (q = p \/ Free(q))
      /\ state' = IF hit THEN [state EXCEPT ![q] = "Runnable"] ELSE state
      /\ widx' = [widx EXCEPT ![p] = q + 1]
      /\ UNCHANGED <<exec, proc, at, idx, holder, chan, pc, locked, owner>>
  BY DEF Wakeup, cpuVars, lockVars, sleepVars
<1>2. q \in Procs /\ q + 1 \in 1..NPROC + 1
  <2>1. q \in 1..NPROC + 1 /\ NPROC \in Nat
    BY SchedAssumption DEF IInv, Types
  <2>2. q <= NPROC
    BY <1>1
  <2> HIDE DEF q
  <2> QED
    BY <2>1, <2>2 DEF Procs
<1>3. state[p] = "Running"
  BY <1>1, Executing
<1> HIDE DEF q
<1>4. /\ state' \in [Procs -> States]
      /\ \A d \in Cpus : CpuOK(d)'
      /\ \A r \in Procs : Leaving(r)' /\ Channel(r)' /\ InnerLock(r)'
  <2>1. CASE hit
    BY <1>1, <1>2, <2>1, Awakes, Zenon
  <2>2. CASE ~hit
    <3>1. UNCHANGED state
      BY <1>1, <2>2
    <3>2. state' \in [Procs -> States]
      BY <3>1 DEF IInv, Types
    <3>3. \A d \in Cpus : CpuOK(d)'
      BY <1>1, <3>1 DEF IInv, CpuOK
    <3>4. \A r \in Procs : Leaving(r)' /\ Channel(r)' /\ InnerLock(r)'
      <4> SUFFICES ASSUME NEW r \in Procs
                   PROVE  Leaving(r)' /\ Channel(r)' /\ InnerLock(r)'
        OBVIOUS
      <4>1. Leaving(r) /\ Channel(r) /\ InnerLock(r)
        BY DEF IInv
      <4>2. UNCHANGED <<exec, holder, chan, pc, locked, owner>>
        BY <1>1
      <4> QED
        BY <3>1, <4>1, <4>2 DEF Leaving, Channel, InnerLock
    <3> QED
      BY <3>2, <3>3, <3>4
  <2> QED
    BY <2>1, <2>2
<1>5. Types' /\ OneProc' /\ MutualExclusion'
  BY <1>1, <1>2, <1>4 DEF IInv, Types, OneProc, MutualExclusion
<1>6. NoLostWakeup'
  <2> SUFFICES ASSUME NEW r \in Procs, state'[r] = "Sleeping", chan[r] = "lock", ~locked
               PROVE  \E w \in Procs \ {r} : pc[w] = "wakeup" /\ widx'[w] <= r
    BY <1>1 DEF NoLostWakeup
  <2>1. state[r] = "Sleeping" /\ r # q
    BY <1>1, <1>2, <1>3 DEF IInv, Types
  <2>2. PICK w \in Procs \ {r} : pc[w] = "wakeup" /\ widx[w] <= r
    BY <2>1 DEF IInv, NoLostWakeup
  <2>3. CASE w # p
    BY <1>1, <2>2, <2>3 DEF IInv, Types
  <2>4. CASE w = p
    <3>1. q <= r /\ q \in Nat /\ r \in Nat
      BY <1>2, <2>2, <2>4, SchedAssumption DEF Procs, q
    <3>2. q + 1 <= r
      BY <2>1, <3>1
    <3>3. widx'[p] = q + 1
      BY <1>1 DEF IInv, Types
    <3> QED
      BY <2>2, <2>4, <3>2, <3>3
  <2> QED
    BY <2>3, <2>4
<1> QED
  BY <1>4, <1>5, <1>6 DEF IInv

-----------------------------------------------------------------------------
(***************************************************************************)
(* The scheduler.                                                          *)
(***************************************************************************)
LEMMA SwitchOutKeeps ==
  ASSUME IInv, NEW c \in Cpus, NEW p \in Procs, SwitchOut(c, p)
  PROVE  IInv'
<1>1. p # LK /\ p # None /\ p \in Locks /\ LK \in Locks
  BY Distinct
<1>2. exec[c] = p /\ pc[p] = "sched"
  BY DEF SwitchOut
<1>3. /\ proc[c] = p /\ holder[p] = c
      /\ \A d \in Cpus \ {c} : exec[d] # p /\ proc[d] # p
  BY <1>2, Executing
<1>4. state[p] \in {"Runnable", "Sleeping", "Zombie"}
  BY <1>2 DEF IInv, Leaving
<1>5. PICK to \in {"woken", "yielded", "dead"} :
        /\ pc' = [pc EXCEPT ![p] = to]
        /\ state[p] = "Sleeping" => to = "woken"
  <2>1. CASE state[p] = "Sleeping"
    BY <2>1 DEF SwitchOut, Goto
  <2>2. CASE state[p] = "Runnable"
    BY <2>2 DEF SwitchOut, Goto
  <2>3. CASE state[p] = "Zombie"
    BY <2>3 DEF SwitchOut, Goto
  <2> QED
    BY <1>4, <2>1, <2>2, <2>3
<1>6. /\ pc'[p] = to /\ \A q \in Procs \ {p} : pc'[q] = pc[q]
      /\ exec'[c] = None /\ \A d \in Cpus \ {c} : exec'[d] = exec[d]
      /\ at'[c] = "switched" /\ \A d \in Cpus \ {c} : at'[d] = at[d]
      /\ UNCHANGED <<proc, idx, holder, state, chan, widx, locked, owner>>
  BY <1>5 DEF SwitchOut, IInv, Types, lockVars, sleepVars
<1>7. Types'
  BY <1>5 DEF SwitchOut, IInv, Types, Parked, lockVars, sleepVars
<1>8. OneProc'
  BY <1>6 DEF IInv, OneProc
<1>9. ASSUME NEW d \in Cpus PROVE CpuOK(d)'
  <2>1. CASE d = c
    BY <1>1, <1>3, <1>6, <2>1 DEF CpuOK
  <2>2. CASE d # c
    <3>1. CpuOK(d)
      BY DEF IInv
    <3>2. proc[d] # None => proc[d] \in Procs \ {p}
      BY <1>3, <2>2 DEF IInv, Types
    <3> QED
      BY <1>6, <2>2, <3>1, <3>2 DEF CpuOK
  <2> QED
    BY <2>1, <2>2
<1>10. ASSUME NEW q \in Procs PROVE Leaving(q)' /\ Channel(q)' /\ InnerLock(q)'
  <2>1. CASE q = p
    BY <1>2, <1>5, <1>6, <2>1 DEF IInv, Leaving, Channel, InnerLock, Parked
  <2>2. CASE q # p
    <3>1. \A l \in Locks : holder[l] # None /\ exec[holder[l]] = q => exec'[holder[l]] = q
      <4>1. holder \in [Locks -> Cpus \union {None}]
        BY DEF IInv, Types
      <4> QED
        BY <1>2, <1>6, <2>2, <4>1
    <3>2. q \in Locks
      BY Distinct
    <3>3. Leaving(q) /\ Channel(q) /\ InnerLock(q)
      BY DEF IInv
    <3> QED
      BY <1>1, <1>6, <2>2, <3>1, <3>2, <3>3 DEF Leaving, Channel, InnerLock
  <2> QED
    BY <2>1, <2>2
<1>11. MutualExclusion'
  BY <1>6 DEF IInv, MutualExclusion
<1>12. NoLostWakeup'
  BY <1>2, <1>6 DEF IInv, NoLostWakeup
<1> QED
  BY <1>7, <1>8, <1>9, <1>10, <1>11, <1>12 DEF IInv

\* A Runnable process whose lock is free belongs to no CPU.
LEMMA RunnableIsNobodys ==
  ASSUME IInv, NEW p \in Procs, state[p] = "Runnable", Free(p), NEW d \in Cpus
  PROVE  proc[d] # p
<1> SUFFICES ASSUME proc[d] = p PROVE FALSE
  OBVIOUS
<1>1. p # None /\ d # None
  BY Distinct, SchedAssumption
<1>2. CASE exec[d] # None
  <2>1. exec[d] = p /\ pc[p] = "sched"
    BY <1>2 DEF IInv, CpuOK
  <2> QED
    BY <2>1 DEF IInv, Leaving, Free
<1>3. CASE exec[d] = None
  BY <1>1, <1>3 DEF IInv, Types, CpuOK, Free
<1> QED
  BY <1>2, <1>3

LEMMA ScanKeeps ==
  ASSUME IInv, NEW c \in Cpus, Scan(c)
  PROVE  IInv'
<1> DEFINE p == idx[c]
<1>1. p \in Procs /\ p # None /\ exec[c] = None /\ at[c] = "scan" /\ Free(p)
  BY Distinct DEF Scan, PassThrough, IInv, Types
<1>2. UNCHANGED <<exec, holder, chan, pc, widx, locked, owner>>
  BY DEF Scan, PassThrough, sleepVars
<1>3. CASE state[p] = "Runnable"
  <2>1. /\ state' = [state EXCEPT ![p] = "Allocated"]
        /\ proc' = [proc EXCEPT ![c] = p]
        /\ at' = [at EXCEPT ![c] = "dispatch"]
        /\ idx' = idx
    BY <1>3 DEF Scan, Claim
  <2>2. \A d \in Cpus : proc[d] # p
    BY <1>1, <1>3, RunnableIsNobodys
  <2>3. pc[p] # "sched" /\ pc[p] \in Parked
    BY <1>1, <1>3 DEF IInv, Leaving, Free
  <2> HIDE DEF p
  <2>4. /\ state'[p] = "Allocated" /\ \A q \in Procs \ {p} : state'[q] = state[q]
        /\ proc'[c] = p /\ \A d \in Cpus \ {c} : proc'[d] = proc[d]
        /\ at'[c] = "dispatch" /\ \A d \in Cpus \ {c} : at'[d] = at[d]
    BY <1>1, <2>1 DEF IInv, Types
  <2>5. Types'
    BY <1>1, <1>2, <2>1 DEF IInv, Types, States
  <2>6. OneProc'
    <3> SUFFICES ASSUME NEW d \in Cpus, NEW e \in Cpus, d # e, proc'[d] = proc'[e]
                 PROVE  proc'[d] = None
      BY DEF OneProc
    <3>1. CASE d = c \/ e = c
      BY <2>2, <2>4, <3>1
    <3>2. CASE d # c /\ e # c
      BY <2>4, <3>2 DEF IInv, OneProc
    <3> QED
      BY <3>1, <3>2
  <2>7. ASSUME NEW d \in Cpus PROVE CpuOK(d)'
    <3>1. CASE d = c
      BY <1>1, <1>2, <2>4, <3>1 DEF CpuOK
    <3>2. CASE d # c
      <4>1. CpuOK(d) /\ proc[d] \in Procs \union {None} /\ exec[d] \in Procs \union {None}
        BY DEF IInv, Types
      <4>2. proc[d] # None => proc[d] \in Procs \ {p}
        BY <2>2, <4>1
      <4> QED
        BY <1>2, <2>4, <3>2, <4>1, <4>2 DEF CpuOK
    <3> QED
      BY <3>1, <3>2
  <2>8. ASSUME NEW q \in Procs PROVE Leaving(q)' /\ Channel(q)' /\ InnerLock(q)'
    <3>1. CASE q = p
      BY <1>2, <2>3, <2>4, <3>1 DEF IInv, Leaving, Channel, InnerLock
    <3>2. CASE q # p
      BY <1>2, <2>4, <3>2 DEF IInv, Leaving, Channel, InnerLock
    <3> QED
      BY <3>1, <3>2
  <2>9. MutualExclusion' /\ NoLostWakeup'
    BY <1>2, <2>4 DEF IInv, MutualExclusion, NoLostWakeup
  <2> QED
    BY <2>5, <2>6, <2>7, <2>8, <2>9 DEF IInv
<1>4. CASE state[p] # "Runnable"
  <2>1. UNCHANGED <<state, proc, at>> /\ idx' = [idx EXCEPT ![c] = IF p = NPROC THEN 1 ELSE p + 1]
    BY <1>4 DEF Scan
  <2>2. (IF p = NPROC THEN 1 ELSE p + 1) \in Procs
    BY <1>1, SchedAssumption DEF Procs
  <2>3. Types' /\ OneProc'
    BY <1>2, <2>1, <2>2 DEF IInv, Types, OneProc
  <2>4. \A d \in Cpus : CpuOK(d)'
    BY <1>2, <2>1 DEF IInv, CpuOK
  <2>5. \A q \in Procs : Leaving(q)' /\ Channel(q)' /\ InnerLock(q)'
    BY <1>2, <2>1 DEF IInv, Leaving, Channel, InnerLock
  <2>6. MutualExclusion' /\ NoLostWakeup'
    BY <1>2, <2>1 DEF IInv, MutualExclusion, NoLostWakeup
  <2> QED
    BY <2>3, <2>4, <2>5, <2>6 DEF IInv
<1> QED
  BY <1>3, <1>4

LEMMA DispatchKeeps ==
  ASSUME IInv, NEW c \in Cpus, Dispatch(c)
  PROVE  IInv'
<1> DEFINE p == proc[c]
<1>1. exec[c] = None /\ at[c] = "dispatch" /\ c # None
  BY SchedAssumption DEF Dispatch
<1>2. p \in Procs /\ p # None /\ state[p] = "Allocated" /\ Free(p)
  BY <1>1 DEF Dispatch, Acquire, IInv, Types, CpuOK
<1>3. p # LK /\ p \in Locks /\ LK \in Locks
  BY <1>2, Distinct
<1>4. \A d \in Cpus \ {c} : proc[d] # p /\ exec[d] # p
  BY <1>2 DEF IInv, OneProc, CpuOK
<1>5. pc[p] \in Parked /\ pc[p] # "sched"
  BY <1>2 DEF IInv, Leaving, Free
<1>6. /\ holder' = [holder EXCEPT ![p] = c]
      /\ state' = [state EXCEPT ![p] = "Running"]
      /\ exec' = [exec EXCEPT ![c] = p]
      /\ UNCHANGED <<proc, at, idx, chan, pc, widx, locked, owner>>
  BY DEF Dispatch, Acquire, sleepVars
<1> HIDE DEF p
<1>7. /\ \A l \in Locks \ {p} : holder'[l] = holder[l]
      /\ state'[p] = "Running" /\ \A q \in Procs \ {p} : state'[q] = state[q]
      /\ exec'[c] = p /\ \A d \in Cpus \ {c} : exec'[d] = exec[d]
  BY <1>2, <1>3, <1>6 DEF IInv, Types
<1>8. Types'
  BY <1>2, <1>3, <1>6 DEF IInv, Types, States
<1>9. OneProc'
  BY <1>6 DEF IInv, OneProc
<1>10. ASSUME NEW d \in Cpus PROVE CpuOK(d)'
  <2>1. CASE d = c
    BY <1>2, <1>6, <1>7, <2>1 DEF CpuOK, p
  <2>2. CASE d # c
    <3>1. CpuOK(d) /\ proc[d] \in Procs \union {None}
      BY DEF IInv, Types
    <3>2. proc[d] # None => proc[d] \in Locks \ {p} /\ proc[d] \in Procs \ {p}
      BY <1>4, <2>2, <3>1, Distinct
    <3> QED
      BY <1>6, <1>7, <2>2, <3>1, <3>2 DEF CpuOK
  <2> QED
    BY <2>1, <2>2
<1>11. ASSUME NEW q \in Procs PROVE Leaving(q)' /\ Channel(q)' /\ InnerLock(q)'
  <2>1. CASE q = p
    <3>1. Channel(q) /\ pc'[q] = pc[q] /\ chan'[q] = chan[q] /\ owner' = owner
      BY <1>6 DEF IInv
    <3>2. pc[q] \in Parked /\ pc[q] # "sched" /\ state'[q] = "Running"
      BY <1>5, <1>7, <2>1
    <3> QED
      BY <3>1, <3>2 DEF Leaving, Channel, InnerLock, Parked
  <2>2. CASE q # p
    <3>1. q \in Locks /\ q # None /\ holder'[q] = holder[q] /\ holder'[LK] = holder[LK]
      BY <1>3, <1>7, <2>2, Distinct
    <3>2. \A l \in Locks : holder[l] # None /\ exec[holder[l]] = q => exec'[holder[l]] = q
      BY <1>1, <1>7, <3>1 DEF IInv, Types
    <3>3. /\ pc'[q] = pc[q] /\ chan'[q] = chan[q] /\ state'[q] = state[q]
          /\ owner' = owner /\ locked' = locked
      BY <1>6, <1>7, <2>2
    <3>4. Leaving(q) /\ Channel(q) /\ InnerLock(q)
      BY DEF IInv
    <3>5. Leaving(q)'
      BY <3>1, <3>2, <3>3, <3>4 DEF Leaving
    <3>6. Channel(q)'
      BY <3>3, <3>4 DEF Channel
    <3>7. InnerLock(q)'
      BY <1>3, <3>1, <3>2, <3>3, <3>4 DEF InnerLock
    <3> QED
      BY <3>5, <3>6, <3>7
  <2> QED
    BY <2>1, <2>2
<1>12. MutualExclusion' /\ NoLostWakeup'
  BY <1>6, <1>7 DEF IInv, MutualExclusion, NoLostWakeup
<1> QED
  BY <1>8, <1>9, <1>10, <1>11, <1>12 DEF IInv

LEMMA SwitchedBackKeeps ==
  ASSUME IInv, NEW c \in Cpus, SwitchedBack(c)
  PROVE  IInv'
<1> DEFINE p == proc[c]
<1>1. exec[c] = None /\ at[c] = "switched"
  BY DEF SwitchedBack
<1>2. p \in Procs /\ p # None /\ holder[p] = c
  BY <1>1 DEF IInv, Types, CpuOK
<1>3. p # LK /\ p \in Locks /\ LK \in Locks
  BY <1>2, Distinct
<1>4. \A d \in Cpus \ {c} : proc[d] # p
  BY <1>2 DEF IInv, OneProc
<1>5. /\ holder' = [holder EXCEPT ![p] = None]
      /\ proc' = [proc EXCEPT ![c] = None]
      /\ at' = [at EXCEPT ![c] = "scan"]
      /\ idx' = [idx EXCEPT ![c] = 1]
      /\ UNCHANGED <<exec, state, chan, pc, widx, locked, owner>>
  BY DEF SwitchedBack, sleepVars
<1> HIDE DEF p
<1>6. /\ \A l \in Locks \ {p} : holder'[l] = holder[l]
      /\ proc'[c] = None /\ \A d \in Cpus \ {c} : proc'[d] = proc[d]
      /\ at'[c] = "scan" /\ \A d \in Cpus \ {c} : at'[d] = at[d]
  BY <1>3, <1>5 DEF IInv, Types
<1>7. Types'
  <2>1. 1 \in Procs
    BY SchedAssumption DEF Procs
  <2> QED
    BY <1>3, <1>5, <2>1 DEF IInv, Types
<1>8. OneProc'
  BY <1>6 DEF IInv, OneProc
<1>9. ASSUME NEW d \in Cpus PROVE CpuOK(d)'
  <2>1. CASE d = c
    BY <1>1, <1>5, <1>6, <2>1 DEF CpuOK
  <2>2. CASE d # c
    <3>1. CpuOK(d) /\ proc[d] \in Procs \union {None}
      BY DEF IInv, Types
    <3>2. proc[d] # None => proc[d] \in Locks \ {p}
      BY <1>4, <2>2, <3>1, Distinct
    <3> QED
      BY <1>5, <1>6, <2>2, <3>1, <3>2 DEF CpuOK
  <2> QED
    BY <2>1, <2>2
<1>10. ASSUME NEW q \in Procs PROVE Leaving(q)' /\ Channel(q)' /\ InnerLock(q)'
  <2>1. pc[q] = "sched" => holder'[q] = holder[q]
    BY <1>1, <1>2, <1>6, Distinct DEF IInv, Leaving
  <2>2. holder'[LK] = holder[LK]
    BY <1>3, <1>6
  <2>3. Leaving(q)'
    BY <1>5, <2>1 DEF IInv, Leaving
  <2>4. Channel(q)'
    BY <1>5 DEF IInv, Channel
  <2>5. InnerLock(q)'
    BY <1>5, <2>2 DEF IInv, InnerLock
  <2> QED
    BY <2>3, <2>4, <2>5
<1>11. MutualExclusion' /\ NoLostWakeup'
  BY <1>5 DEF IInv, MutualExclusion, NoLostWakeup
<1> QED
  BY <1>7, <1>8, <1>9, <1>10, <1>11 DEF IInv

-----------------------------------------------------------------------------
(***************************************************************************)
(* The theorems.                                                           *)
(***************************************************************************)
LEMMA NextKeeps == IInv /\ [Next]_vars => IInv'
<1> SUFFICES ASSUME IInv, [Next]_vars PROVE IInv'
  OBVIOUS
<1>1. CASE UNCHANGED vars
  <2>1. Types' /\ OneProc' /\ MutualExclusion' /\ NoLostWakeup'
    BY <1>1 DEF vars, IInv, Types, OneProc, MutualExclusion, NoLostWakeup
  <2>2. \A c \in Cpus : CpuOK(c)'
    BY <1>1 DEF vars, IInv, CpuOK
  <2>3. \A p \in Procs : Leaving(p)' /\ Channel(p)' /\ InnerLock(p)'
    BY <1>1 DEF vars, IInv, Leaving, Channel, InnerLock
  <2> QED
    BY <2>1, <2>2, <2>3 DEF IInv
<1>2. ASSUME NEW c \in Cpus, SchedulerStep(c) PROVE IInv'
  BY <1>2, ScanKeeps, DispatchKeeps, SwitchedBackKeeps DEF SchedulerStep
<1>3. ASSUME NEW c \in Cpus, NEW p \in Procs, KernelStep(c, p) PROVE IInv'
  BY <1>3, SwitchOutKeeps, ForkretKeeps, YieldKeeps, YieldedKeeps, LockStartKeeps, SleepKeeps,
     WokenKeeps, RelockKeeps, DiskDoneKeeps, UnlockKeeps, WakeupKeeps, UnlockEndKeeps, ExitKeeps
     DEF KernelStep
<1>4. ASSUME NEW c \in Cpus, NEW p \in Procs,
             Syscall(c, p) \/ Timer(c, p) \/ DiskWait(c, p) \/ DiskIntr(c, p) \/ Done(c, p)
      PROVE  IInv'
  BY <1>4, SyscallKeeps, TimerKeeps, DiskWaitKeeps, DiskIntrKeeps, DoneKeeps
<1> QED
  BY <1>1, <1>2, <1>3, <1>4 DEF Next

\* The places of processes, CPUs, locks and channels fit together.
THEOREM SchedInvariant == Spec => []IInv
  BY InitIInv, NextKeeps, PTL DEF Spec

\* On any number of CPUs, no process runs on two of them or is the current
\* process of two (Cpu::scheduler, find_runnable, sched).
THEOREM SchedOneCpu == Spec => []OneCpu
<1>1. IInv => OneCpu
  BY DEF IInv, OneProc, CpuOK, OneCpu
<1> QED
  BY <1>1, SchedInvariant, PTL

\* The sleep-lock excludes, for any number of processes and CPUs
\* (SleepLock::lock and the drop of its guard).
THEOREM SchedMutualExclusion == Spec => []MutualExclusion
<1>1. IInv => MutualExclusion
  BY DEF IInv
<1> QED
  BY <1>1, SchedInvariant, PTL

\* A process asleep on the sleep-lock has somebody to wake it: the holder, or
\* the wakeup that has still to reach it (Proc::sleep, ProcessTable::wakeup).
THEOREM SchedNoLostWakeup == Spec => []NoLostWakeup
<1>1. IInv => NoLostWakeup
  BY DEF IInv
<1> QED
  BY <1>1, SchedInvariant, PTL
=============================================================================
