--------------------------- MODULE ProcTableProofs --------------------------
(***************************************************************************)
(* Proofs about ProcTable, for every number of slots, CPUs and pids.       *)
(***************************************************************************)
EXTENDS ProcTable, TLAPS

\* A leaf that names no prover is tried with the SMT solver, then with Zenon and
\* then, with more time, with the SMT solver again.
USE SMTT(10), Zenon, SMTT(30)

-----------------------------------------------------------------------------
(***************************************************************************)
(* The inductive invariant.                                                *)
(***************************************************************************)
States == {"Unused", "Allocated", "Runnable", "Running", "Sleeping", "Zombie"}
Alive == {"Running", "Runnable", "Sleeping"}
Forking == {"copy", "parent", "run"}
Busy == Forking \union {"alloc", "wait", "exit"}

Types ==
  /\ state \in [Slots -> States]
  /\ parents \in [Slots -> Slots \union {None}]
  /\ pc \in [Slots -> Busy \union {"user", "woken", "leaving"}]
  /\ child \in [Slots -> 0..NPROC]

\* Who is in the middle of a call runs; who is leaving its stack is a zombie;
\* init does not exit.
Places ==
  \A p \in Slots :
    /\ pc[p] \in Busy => state[p] = "Running"
    /\ pc[p] = "leaving" => state[p] = "Zombie"
    /\ pc[p] = "exit" => p # InitProc

\* A fork has a slot of its own, which has a parent before it is Runnable.
Forks ==
  /\ \A p \in Slots : pc[p] \in Forking =>
       /\ child[p] \in Slots /\ state[child[p]] = "Allocated"
       /\ pc[p] = "run" => parents[child[p]] # None
  /\ \A p, q \in Slots : p # q /\ pc[p] \in Forking /\ pc[q] \in Forking => child[p] # child[q]

InitAlive == state[InitProc] \in Alive

IInv == Types /\ Places /\ Forks /\ InitAlive /\ ParentAlive /\ NoMissedZombie

\* user_init sets it up.
LEMMA InitIInv == Init => IInv
  BY ProcTableAssumption
     DEF Init, IInv, Types, States, Busy, Forking, Alive, Places, Forks, InitAlive, ParentAlive,
         NoMissedZombie, Slots, InitProc

-----------------------------------------------------------------------------
(***************************************************************************)
(* Each step keeps it.                                                     *)
(***************************************************************************)

LEMMA DispatchKeeps ==
  ASSUME IInv, NEW p \in Slots, Dispatch(p)
  PROVE  IInv'
<1> USE ProcTableAssumption DEF IInv, Dispatch
<1>1. Types'
  BY DEF Types, States, Busy, Forking, Slots, InitProc
<1>2. Places'
  BY DEF Types, Places, Busy, Forking, Forks, States
<1>3. Forks'
  BY DEF Types, Places, Forks, Busy, Forking, States
<1>4. InitAlive'
  BY DEF Types, Places, Forks, Busy, Forking, Alive, InitAlive, Slots, InitProc
<1>5. ParentAlive'
  BY DEF Types, Places, Forks, Busy, Forking, Alive, InitAlive, ParentAlive, Slots, InitProc
<1>6. NoMissedZombie'
  BY DEF Types, Places, Forks, Busy, Forking, ParentAlive, NoMissedZombie, Slots, InitProc
<1> QED
  BY <1>1, <1>2, <1>3, <1>4, <1>5, <1>6

LEMMA PreemptKeeps ==
  ASSUME IInv, NEW p \in Slots, Preempt(p)
  PROVE  IInv'
<1> USE ProcTableAssumption DEF IInv, Preempt, At
<1>1. Types'
  BY DEF Types, States, Busy, Forking, Slots, InitProc
<1>2. Places'
  BY DEF Types, Places, Busy, Forking, Forks, States
<1>3. Forks'
  BY DEF Types, Places, Forks, Busy, Forking, States
<1>4. InitAlive'
  BY DEF Types, Places, Forks, Busy, Forking, Alive, InitAlive, Slots, InitProc
<1>5. ParentAlive'
  BY DEF Types, Places, Forks, Busy, Forking, Alive, InitAlive, ParentAlive, Slots, InitProc
<1>6. NoMissedZombie'
  BY DEF Types, Places, Forks, Busy, Forking, ParentAlive, NoMissedZombie, Slots, InitProc
<1> QED
  BY <1>1, <1>2, <1>3, <1>4, <1>5, <1>6

LEMMA ForkStartKeeps ==
  ASSUME IInv, NEW p \in Slots, ForkStart(p)
  PROVE  IInv'
<1> USE ProcTableAssumption DEF IInv, ForkStart, At, AllocPid, Goto
<1>1. Types'
  BY DEF Types, States, Busy, Forking, Slots, InitProc
<1>2. Places'
  BY DEF Types, Places, Busy, Forking, Forks, States
<1>3. Forks'
  BY DEF Types, Places, Forks, Busy, Forking, States
<1>4. InitAlive'
  BY DEF Types, Places, Forks, Busy, Forking, Alive, InitAlive, Slots, InitProc
<1>5. ParentAlive'
  BY DEF Types, Places, Forks, Busy, Forking, Alive, InitAlive, ParentAlive, Slots, InitProc
<1>6. NoMissedZombie'
  BY DEF Types, Places, Forks, Busy, Forking, ParentAlive, NoMissedZombie, Slots, InitProc
<1> QED
  BY <1>1, <1>2, <1>3, <1>4, <1>5, <1>6

LEMMA WaitLockKeeps ==
  ASSUME IInv, NEW p \in Slots, WaitLock(p)
  PROVE  IInv'
<1> USE ProcTableAssumption DEF IInv, WaitLock, At, Goto
<1>1. Types'
  BY DEF Types, States, Busy, Forking, Slots, InitProc
<1>2. Places'
  BY DEF Types, Places, Busy, Forking, Forks, States
<1>3. Forks'
  BY DEF Types, Places, Forks, Busy, Forking, States
<1>4. InitAlive'
  BY DEF Types, Places, Forks, Busy, Forking, Alive, InitAlive, Slots, InitProc
<1>5. ParentAlive'
  BY DEF Types, Places, Forks, Busy, Forking, Alive, InitAlive, ParentAlive, Slots, InitProc
<1>6. NoMissedZombie'
  BY DEF Types, Places, Forks, Busy, Forking, ParentAlive, NoMissedZombie, Slots, InitProc
<1> QED
  BY <1>1, <1>2, <1>3, <1>4, <1>5, <1>6

LEMMA ExitLockKeeps ==
  ASSUME IInv, NEW p \in Slots, ExitLock(p)
  PROVE  IInv'
<1> USE ProcTableAssumption DEF IInv, ExitLock, At, Goto
<1>1. Types'
  BY DEF Types, States, Busy, Forking, Slots, InitProc
<1>2. Places'
  BY DEF Types, Places, Busy, Forking, Forks, States
<1>3. Forks'
  BY DEF Types, Places, Forks, Busy, Forking, States
<1>4. InitAlive'
  BY DEF Types, Places, Forks, Busy, Forking, Alive, InitAlive, Slots, InitProc
<1>5. ParentAlive'
  BY DEF Types, Places, Forks, Busy, Forking, Alive, InitAlive, ParentAlive, Slots, InitProc
<1>6. NoMissedZombie'
  BY DEF Types, Places, Forks, Busy, Forking, ParentAlive, NoMissedZombie, Slots, InitProc
<1> QED
  BY <1>1, <1>2, <1>3, <1>4, <1>5, <1>6

LEMMA AllocNextKeeps ==
  ASSUME IInv, NEW p \in Slots, AllocNext(p)
  PROVE  IInv'
<1> USE ProcTableAssumption DEF IInv, AllocNext, At, Goto
<1>1. Types'
  BY DEF Types, States, Busy, Forking, Slots, InitProc
<1>2. Places'
  BY DEF Types, Places, Busy, Forking, Forks, States
<1>3. Forks'
  BY DEF Types, Places, Forks, Busy, Forking, States
<1>4. InitAlive'
  BY DEF Types, Places, Forks, Busy, Forking, Alive, InitAlive, Slots, InitProc
<1>5. ParentAlive'
  BY DEF Types, Places, Forks, Busy, Forking, Alive, InitAlive, ParentAlive, Slots, InitProc
<1>6. NoMissedZombie'
  BY DEF Types, Places, Forks, Busy, Forking, ParentAlive, NoMissedZombie, Slots, InitProc
<1> QED
  BY <1>1, <1>2, <1>3, <1>4, <1>5, <1>6

LEMMA AllocTakeKeeps ==
  ASSUME IInv, NEW p \in Slots, AllocTake(p)
  PROVE  IInv'
<1> USE ProcTableAssumption DEF IInv, AllocTake, At, Goto
<1>1. Types'
  BY DEF Types, States, Busy, Forking, Slots, InitProc
<1>2. Places'
  BY DEF Types, Places, Busy, Forking, Forks, States
<1>3. Forks'
  <2>1. ASSUME NEW q \in Slots, pc'[q] \in Forking
        PROVE  /\ child[q] \in Slots /\ state'[child[q]] = "Allocated"
               /\ pc'[q] = "run" => parents'[child[q]] # None
    BY <2>1 DEF Types, Places, Forks, Forking, Slots
  <2>2. ASSUME NEW q \in Slots, NEW r \in Slots, q # r, pc'[q] \in Forking, pc'[r] \in Forking
        PROVE  child[q] # child[r]
    BY <2>2 DEF Types, Places, Forks, Forking, Slots
  <2> QED
    BY <2>1, <2>2 DEF Forks
<1>4. InitAlive'
  BY DEF Types, Places, Forks, Busy, Forking, Alive, InitAlive, Slots, InitProc
<1>5. ParentAlive'
  BY DEF Types, Places, Forks, Busy, Forking, Alive, InitAlive, ParentAlive, Slots, InitProc
<1>6. NoMissedZombie'
  BY DEF Types, Places, Forks, Busy, Forking, ParentAlive, NoMissedZombie, Slots, InitProc
<1> QED
  BY <1>1, <1>2, <1>3, <1>4, <1>5, <1>6

LEMMA AllocNoMemoryKeeps ==
  ASSUME IInv, NEW p \in Slots, AllocNoMemory(p)
  PROVE  IInv'
<1> USE ProcTableAssumption DEF IInv, AllocNoMemory, At, Goto
<1>1. Types'
  BY DEF Types, States, Busy, Forking, Slots, InitProc
<1>2. Places'
  BY DEF Types, Places, Busy, Forking, Forks, States
<1>3. Forks'
  BY DEF Types, Places, Forks, Busy, Forking, States
<1>4. InitAlive'
  BY DEF Types, Places, Forks, Busy, Forking, Alive, InitAlive, Slots, InitProc
<1>5. ParentAlive'
  BY DEF Types, Places, Forks, Busy, Forking, Alive, InitAlive, ParentAlive, Slots, InitProc
<1>6. NoMissedZombie'
  BY DEF Types, Places, Forks, Busy, Forking, ParentAlive, NoMissedZombie, Slots, InitProc
<1> QED
  BY <1>1, <1>2, <1>3, <1>4, <1>5, <1>6

LEMMA ForkCopyKeeps ==
  ASSUME IInv, NEW p \in Slots, ForkCopy(p)
  PROVE  IInv'
<1> USE ProcTableAssumption DEF IInv, ForkCopy, At, Goto
<1>1. Types'
  BY DEF Types, States, Busy, Forking, Slots, InitProc
<1>2. Places'
  BY DEF Types, Places, Busy, Forking, Forks, States
<1>3. Forks'
  BY DEF Types, Places, Forks, Busy, Forking, States
<1>4. InitAlive'
  BY DEF Types, Places, Forks, Busy, Forking, Alive, InitAlive, Slots, InitProc
<1>5. ParentAlive'
  BY DEF Types, Places, Forks, Busy, Forking, Alive, InitAlive, ParentAlive, Slots, InitProc
<1>6. NoMissedZombie'
  BY DEF Types, Places, Forks, Busy, Forking, ParentAlive, NoMissedZombie, Slots, InitProc
<1> QED
  BY <1>1, <1>2, <1>3, <1>4, <1>5, <1>6

LEMMA ForkCopyFailsKeeps ==
  ASSUME IInv, NEW p \in Slots, ForkCopyFails(p)
  PROVE  IInv'
<1> USE ProcTableAssumption DEF IInv, ForkCopyFails, At, Goto, FreeSlot
<1>1. Types'
  BY Zenon DEF Types, States, Busy, Forking, Slots, InitProc
<1>2. Places'
  BY DEF Types, Places, Busy, Forking, Forks, States
<1>3. Forks'
  BY DEF Types, Places, Forks, Busy, Forking, States
<1>4. InitAlive'
  BY DEF Types, Places, Forks, Busy, Forking, Alive, InitAlive, Slots, InitProc
<1>5. ParentAlive'
  BY DEF Types, Places, Forks, Busy, Forking, Alive, InitAlive, ParentAlive, Slots, InitProc
<1>6. NoMissedZombie'
  BY DEF Types, Places, Forks, Busy, Forking, ParentAlive, NoMissedZombie, Slots, InitProc
<1> QED
  BY <1>1, <1>2, <1>3, <1>4, <1>5, <1>6

LEMMA ForkParentKeeps ==
  ASSUME IInv, NEW p \in Slots, ForkParent(p)
  PROVE  IInv'
<1> USE ProcTableAssumption DEF IInv, ForkParent, At, Goto
<1>1. Types'
  BY Zenon DEF Types, States, Busy, Forking, Slots, InitProc
<1>2. Places'
  BY DEF Types, Places, Busy, Forking, Forks, States
<1>3. Forks'
  <2>1. ASSUME NEW q \in Slots, pc'[q] \in Forking
        PROVE  /\ child[q] \in Slots /\ state'[child[q]] = "Allocated"
               /\ pc'[q] = "run" => parents'[child[q]] # None
    BY <2>1 DEF Types, Places, Forks, Forking, Slots
  <2>2. ASSUME NEW q \in Slots, NEW r \in Slots, q # r, pc'[q] \in Forking, pc'[r] \in Forking
        PROVE  child[q] # child[r]
    BY <2>2 DEF Types, Places, Forks, Forking, Slots
  <2> QED
    BY <2>1, <2>2 DEF Forks
<1>4. InitAlive'
  BY DEF Types, Places, Forks, Busy, Forking, Alive, InitAlive, Slots, InitProc
<1>5. ParentAlive'
  BY DEF Types, Places, Forks, Busy, Forking, Alive, InitAlive, ParentAlive, Slots, InitProc
<1>6. NoMissedZombie'
  BY DEF Types, Places, Forks, Busy, Forking, ParentAlive, NoMissedZombie, Slots, InitProc
<1> QED
  BY <1>1, <1>2, <1>3, <1>4, <1>5, <1>6

LEMMA ForkRunKeeps ==
  ASSUME IInv, NEW p \in Slots, ForkRun(p)
  PROVE  IInv'
<1> USE ProcTableAssumption DEF IInv, ForkRun, At
<1>1. Types'
  BY Zenon DEF Types, States, Busy, Forking, Slots, InitProc
<1>2. Places'
  BY DEF Types, Places, Busy, Forking, Forks, States
<1>3. Forks'
  BY DEF Types, Places, Forks, Busy, Forking, States
<1>4. InitAlive'
  BY DEF Types, Places, Forks, Busy, Forking, Alive, InitAlive, Slots, InitProc
<1>5. ParentAlive'
  BY DEF Types, Places, Forks, Busy, Forking, Alive, InitAlive, ParentAlive, Slots, InitProc
<1>6. NoMissedZombie'
  BY DEF Types, Places, Forks, Busy, Forking, ParentAlive, NoMissedZombie, Slots, InitProc
<1> QED
  BY <1>1, <1>2, <1>3, <1>4, <1>5, <1>6

LEMMA WaitReapKeeps ==
  ASSUME IInv, NEW p \in Slots, WaitReap(p)
  PROVE  IInv'
<1> USE ProcTableAssumption DEF IInv
<1>0. PICK z \in Zombies(p) \intersect Scanned(p) :
        FreeSlot(z) /\ parents' = [parents EXCEPT ![z] = None]
  BY Zenon DEF WaitReap
<1>1. /\ z \in Slots /\ parents[z] = p /\ state[z] = "Zombie" /\ z \in Scanned(p)
  BY DEF Zombies, Kids
<1>2. /\ pc[z] # "leaving" /\ state[p] = "Running" /\ z # p
  BY <1>1 DEF WaitReap, Held, At
<1>3. /\ state' = [state EXCEPT ![z] = "Unused"]
      /\ parents' = [parents EXCEPT ![z] = None]
      /\ pc' = [pc EXCEPT ![p] = "user"] /\ child' = child
  BY <1>0, Zenon DEF WaitReap, FreeSlot, Goto
<1>4. Types'
  BY <1>3, Zenon DEF Types, States, Busy, Forking, Slots
<1>5. Places'
  BY <1>1, <1>2, <1>3 DEF Types, Places, Busy, Forking
<1>6. Forks'
  BY <1>1, <1>3 DEF Types, Forks, Busy, Forking
<1>7. InitAlive'
  BY <1>1, <1>3 DEF Types, InitAlive, Alive, InitProc, Slots
<1>8. ParentAlive'
  BY <1>1, <1>3 DEF Types, ParentAlive, InitProc, Slots
<1>9. NoMissedZombie'
  BY <1>1, <1>3 DEF Types, NoMissedZombie, ParentAlive, InitAlive, Alive, InitProc, Slots
<1> QED
  BY <1>4, <1>5, <1>6, <1>7, <1>8, <1>9

LEMMA WaitFailsKeeps ==
  ASSUME IInv, NEW p \in Slots, WaitFails(p)
  PROVE  IInv'
<1> USE ProcTableAssumption DEF IInv, WaitFails, At, Goto
<1>1. Types'
  BY DEF Types, States, Busy, Forking, Slots, InitProc
<1>2. Places'
  BY DEF Types, Places, Busy, Forking, Forks, States
<1>3. Forks'
  BY DEF Types, Places, Forks, Busy, Forking, States
<1>4. InitAlive'
  BY DEF Types, Places, Forks, Busy, Forking, Alive, InitAlive, Slots, InitProc
<1>5. ParentAlive'
  BY DEF Types, Places, Forks, Busy, Forking, Alive, InitAlive, ParentAlive, Slots, InitProc
<1>6. NoMissedZombie'
  BY DEF Types, Places, Forks, Busy, Forking, ParentAlive, NoMissedZombie, Slots, InitProc
<1> QED
  BY <1>1, <1>2, <1>3, <1>4, <1>5, <1>6

LEMMA WaitSleepKeeps ==
  ASSUME IInv, NEW p \in Slots, WaitSleep(p)
  PROVE  IInv'
<1> USE ProcTableAssumption DEF IInv, WaitSleep, At, Goto
<1>1. Types'
  BY DEF Types, States, Busy, Forking, Slots, InitProc
<1>2. Places'
  BY DEF Types, Places, Busy, Forking, Forks, States
<1>3. Forks'
  BY DEF Types, Places, Forks, Busy, Forking, States
<1>4. InitAlive'
  BY DEF Types, Places, Forks, Busy, Forking, Alive, InitAlive, Slots, InitProc
<1>5. ParentAlive'
  BY DEF Types, Places, Forks, Busy, Forking, Alive, InitAlive, ParentAlive, Slots, InitProc
<1>6. NoMissedZombie'
  <2> SUFFICES ASSUME NEW s \in Slots, state'[s] = "Zombie"
               PROVE  state'[parents[s]] # "Sleeping"
    BY DEF NoMissedZombie
  <2>1. state[s] = "Zombie"
    BY DEF Types
  <2>2. parents[s] \in Slots \ {p}
    BY <2>1 DEF Zombies, Kids, Types, Places, InitAlive, ParentAlive, Alive
  <2>3. state'[parents[s]] = state[parents[s]]
    BY <2>2 DEF Types
  <2> QED
    BY <2>1, <2>3 DEF NoMissedZombie
<1> QED
  BY <1>1, <1>2, <1>3, <1>4, <1>5, <1>6

LEMMA WaitWokenKeeps ==
  ASSUME IInv, NEW p \in Slots, WaitWoken(p)
  PROVE  IInv'
<1> USE ProcTableAssumption DEF IInv, WaitWoken, At, Goto
<1>1. Types'
  BY DEF Types, States, Busy, Forking, Slots, InitProc
<1>2. Places'
  BY DEF Types, Places, Busy, Forking, Forks, States
<1>3. Forks'
  BY DEF Types, Places, Forks, Busy, Forking, States
<1>4. InitAlive'
  BY DEF Types, Places, Forks, Busy, Forking, Alive, InitAlive, Slots, InitProc
<1>5. ParentAlive'
  BY DEF Types, Places, Forks, Busy, Forking, Alive, InitAlive, ParentAlive, Slots, InitProc
<1>6. NoMissedZombie'
  BY DEF Types, Places, Forks, Busy, Forking, ParentAlive, NoMissedZombie, Slots, InitProc
<1> QED
  BY <1>1, <1>2, <1>3, <1>4, <1>5, <1>6

LEMMA ExitReparentKeeps ==
  ASSUME IInv, NEW p \in Slots, ExitReparent(p)
  PROVE  IInv'
<1> USE ProcTableAssumption DEF IInv
<1>0. PICK k \in Kids(p) : parents' = [parents EXCEPT ![k] = InitProc]
  BY Zenon DEF ExitReparent
<1>1. k \in Slots /\ parents[k] = p /\ InitProc \in Slots /\ p # InitProc /\ state[p] = "Running"
  BY DEF ExitReparent, At, Kids, Places, InitProc, Slots
<1>2. /\ parents' = [parents EXCEPT ![k] = InitProc]
      /\ state' = IF state[InitProc] = "Sleeping"
                   THEN [state EXCEPT ![InitProc] = "Runnable"] ELSE state
      /\ pc' = pc /\ child' = child
  BY <1>0, <1>1, Zenon DEF ExitReparent, WakeupSlot
<1>3. InitProc # None
  BY DEF InitProc
<1>4. Types'
  BY <1>1, <1>2 DEF Types, States
<1>5. Places'
  BY <1>1, <1>2 DEF Types, Places, Busy, Forking
<1>6. Forks'
  BY <1>1, <1>2, <1>3 DEF Types, Forks, Busy, Forking
<1>7. InitAlive'
  BY <1>1, <1>2 DEF Types, InitAlive, Alive
<1>8. ParentAlive'
  BY <1>1, <1>2, <1>3, <1>7 DEF Types, ParentAlive, InitAlive, Alive
<1>9. NoMissedZombie'
  BY <1>1, <1>2 DEF Types, NoMissedZombie, ParentAlive, InitAlive, Alive
<1> QED
  BY <1>4, <1>5, <1>6, <1>7, <1>8, <1>9

LEMMA ExitFinishKeeps ==
  ASSUME IInv, NEW p \in Slots, ExitFinish(p)
  PROVE  IInv'
<1> USE ProcTableAssumption DEF IInv
<1> DEFINE q == parents[p]
<1>1. /\ state[p] = "Running" /\ pc[p] = "exit" /\ p # InitProc /\ InitProc \in Slots
      /\ \A s \in Slots : parents[s] # p
  BY DEF ExitFinish, At, Places, Kids, InitProc, Slots
<1>2. q \in Slots /\ q # p /\ state[q] \in Alive
  BY <1>1 DEF ParentAlive, Types, Alive
<1>3. /\ state' = [s \in Slots |-> IF s = p THEN "Zombie"
                                    ELSE IF s = q /\ state[q] = "Sleeping" THEN "Runnable"
                                    ELSE state[s]]
      /\ pc' = [pc EXCEPT ![p] = "leaving"] /\ parents' = parents /\ child' = child
  BY <1>2, Zenon DEF ExitFinish, Goto, WakeupSlot, ParentToWake, Types
<1> HIDE DEF q
<1>4. Types'
  BY <1>3 DEF Types, States, Busy, Forking
<1>5. Places'
  BY <1>1, <1>2, <1>3 DEF Types, Places, Busy, Forking
<1>6. Forks'
  BY <1>1, <1>2, <1>3 DEF Types, Forks, Busy, Forking, Alive
<1>7. InitAlive'
  BY <1>1, <1>2, <1>3 DEF InitAlive, Alive
<1>8. ParentAlive'
  BY <1>1, <1>2, <1>3 DEF Types, ParentAlive
<1>9. NoMissedZombie'
  <2> SUFFICES ASSUME NEW s \in Slots, state'[s] = "Zombie", state'[parents[s]] = "Sleeping"
               PROVE  FALSE
    BY <1>3 DEF NoMissedZombie
  <2>1. CASE s = p
    BY <1>2, <1>3, <2>1 DEF q
  <2>2. CASE s # p
    <3>1. state[s] = "Zombie"
      BY <1>3, <2>2
    <3>2. parents[s] \in Slots
      BY <3>1 DEF ParentAlive, InitAlive, Alive, Types
    <3> QED
      BY <1>3, <3>1, <3>2 DEF NoMissedZombie
  <2> QED
    BY <2>1, <2>2
<1> QED
  BY <1>4, <1>5, <1>6, <1>7, <1>8, <1>9

LEMMA ExitSwitchKeeps ==
  ASSUME IInv, NEW p \in Slots, ExitSwitch(p)
  PROVE  IInv'
<1> USE ProcTableAssumption DEF IInv, ExitSwitch, Goto
<1>1. Types'
  BY DEF Types, States, Busy, Forking, Slots, InitProc
<1>2. Places'
  BY DEF Types, Places, Busy, Forking, Forks, States
<1>3. Forks'
  BY DEF Types, Places, Forks, Busy, Forking, States
<1>4. InitAlive'
  BY DEF Types, Places, Forks, Busy, Forking, Alive, InitAlive, Slots, InitProc
<1>5. ParentAlive'
  BY DEF Types, Places, Forks, Busy, Forking, Alive, InitAlive, ParentAlive, Slots, InitProc
<1>6. NoMissedZombie'
  BY DEF Types, Places, Forks, Busy, Forking, ParentAlive, NoMissedZombie, Slots, InitProc
<1> QED
  BY <1>1, <1>2, <1>3, <1>4, <1>5, <1>6

LEMMA NextKeeps == IInv /\ [Next]_vars => IInv'
<1> SUFFICES ASSUME IInv, [Next]_vars PROVE IInv'
  OBVIOUS
<1>1. CASE Next
  BY <1>1, DispatchKeeps, PreemptKeeps, ForkStartKeeps, WaitLockKeeps, ExitLockKeeps,
     AllocNextKeeps, AllocTakeKeeps, AllocNoMemoryKeeps, ForkCopyKeeps, ForkCopyFailsKeeps,
     ForkParentKeeps, ForkRunKeeps, WaitReapKeeps, WaitFailsKeeps, WaitSleepKeeps, WaitWokenKeeps,
     ExitReparentKeeps, ExitFinishKeeps, ExitSwitchKeeps, Zenon
     DEF Next, KernelStep
<1>2. CASE UNCHANGED vars
  BY <1>2 DEF vars, IInv, Types, Places, Forks, InitAlive, ParentAlive, NoMissedZombie
<1> QED
  BY <1>1, <1>2

-----------------------------------------------------------------------------

\* What the steps of fork, wait and exit keep, taken together.
THEOREM ProcTableInvariant == Spec => []IInv
  BY InitIInv, NextKeeps, PTL DEF Spec

\* Parents are alive and every process but init has one, for every size of the
\* table: parents[p].unwrap() in exit does not panic.
THEOREM ProcTableParentAlive == Spec => []ParentAlive
<1>1. IInv => ParentAlive
  BY DEF IInv
<1> QED
  BY <1>1, ProcTableInvariant, PTL

\* No parent sleeps in wait while it has a zombie, although exit wakes it before
\* the state is set and passes children on to init.
THEOREM ProcTableNoMissedZombie == Spec => []NoMissedZombie
<1>1. IInv => NoMissedZombie
  BY DEF IInv
<1> QED
  BY <1>1, ProcTableInvariant, PTL

\* wait frees a slot only when its process has left its kernel stack.
THEOREM ProcTableStackLeft == Spec => []StackLeft
<1>1. IInv => StackLeft
  BY DEF IInv, Places, StackLeft
<1> QED
  BY <1>1, ProcTableInvariant, PTL
=============================================================================
