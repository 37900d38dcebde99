----------------------------- MODULE LogProofs ------------------------------
(***************************************************************************)
(* Proofs about the write-ahead log, for any number of processes and       *)
(* blocks and any log size: the invariants of LogProps, and that the log   *)
(* implements AtomicDisk.  All rest on one inductive invariant, IInv.      *)
(***************************************************************************)
EXTENDS FsSyscalls, FiniteSetTheorems, TLAPS

\* A leaf that names no prover is tried with the SMT solver, then with Zenon and
\* then, with more time, with the SMT solver again.
USE SMTT(10), Zenon, SMTT(30)

\* The header fits the log area, in memory and on disk.
HeaderFits == Len(header) <= LOGSIZE /\ Len(dhead) <= LOGSIZE

\* What each phase says of the control state.
PhaseInv ==
  /\ phase \in BootPhases => outstanding = 0 /\ ~committing
  /\ phase \in BootPhases => cache = disk /\ pin = [b \in Blocks |-> 0]
  /\ Up => (committing <=> phase \in CommitPhases)
  /\ phase = "boot" => header = <<>>
  /\ phase \in {"boot", "write_head"} => tail = 0
  /\ phase = "write_head" => header # <<>>
  /\ phase \in {"recover", "rec_clear", "install", "clear"} => dhead = header
  /\ phase \in {"run", "write_log", "write_head", "finish", "panic"} => dhead = <<>>
  /\ phase \in {"write_log", "install", "recover"} => tail < Len(header)
  /\ phase = "finish" => header = <<>>
  /\ phase = "run" /\ InOp = {} => header = <<>>

\* How far the copying loops of write_log and install_trans have got.
SlotsInv ==
  /\ phase = "write_log" => \A i \in 1..tail : dlog[i] = cache[header[i]]
  /\ phase \in {"write_head", "install"} =>
       \A i \in 1..Len(header) : dlog[i] = cache[header[i]]
  /\ phase \in {"install", "recover"} => \A i \in 1..tail : disk[header[i]] = dlog[i]
  /\ phase \in {"clear", "rec_clear"} =>
       \A i \in 1..Len(header) : disk[header[i]] = dlog[i]

IInv ==
  /\ TypeOK
  /\ HeaderFits
  /\ NoDuplicateSlots
  /\ OutstandingCounts
  /\ PhaseInv
  /\ SlotsInv
  /\ PinsBalance
  /\ DirtyIsPinned

-----------------------------------------------------------------------------
\* MAXOPBLOCKS \in Nat makes LOGSIZE a natural number.
LEMMA LogsizeType == LOGSIZE \in Nat
BY LogAssumption DEF LOGSIZE

\* What LOG.write does to the header when it adds a block.
LEMMA AppendHeader ==
  ASSUME NEW h \in Seq(Blocks), NEW b \in Blocks
  PROVE  /\ Append(h, b) \in Seq(Blocks)
         /\ Len(Append(h, b)) = Len(h) + 1
         /\ \A i \in 1..Len(h) : Append(h, b)[i] = h[i]
         /\ Append(h, b)[Len(h) + 1] = b
         /\ Logged(Append(h, b)) = Logged(h) \union {b}
<1>1. /\ Append(h, b) \in Seq(Blocks)
      /\ Len(Append(h, b)) = Len(h) + 1
      /\ \A i \in 1..Len(h) : Append(h, b)[i] = h[i]
      /\ Append(h, b)[Len(h) + 1] = b
  OBVIOUS
<1>2. Len(h) \in Nat
  OBVIOUS
<1>3. \A i \in 1..Len(Append(h, b)) : i \in 1..Len(h) \/ i = Len(h) + 1
  BY <1>1, <1>2
<1>4. Logged(Append(h, b)) \subseteq Logged(h) \union {b}
  BY <1>1, <1>2, <1>3 DEF Logged
<1>5. Logged(h) \union {b} \subseteq Logged(Append(h, b))
  <2>1. \A i \in 1..Len(h) : i \in 1..Len(Append(h, b))
    BY <1>1, <1>2
  <2>2. Len(h) + 1 \in 1..Len(Append(h, b))
    BY <1>1, <1>2
  <2> QED
    BY <1>1, <2>1, <2>2 DEF Logged
<1> QED
  BY <1>1, <1>4, <1>5

\* The calls in progress are finitely many, and none exactly when
\* Log.outstanding is zero.
LEMMA InOpFinite ==
  /\ IsFiniteSet(InOp)
  /\ Cardinality(InOp) \in Nat
  /\ Cardinality(InOp) = 0 <=> InOp = {}
<1>1. InOp \in SUBSET Procs
  BY DEF InOp
<1>2. IsFiniteSet(InOp)
  BY <1>1, FS_Subset, LogAssumption
<1> QED
  BY <1>2, FS_EmptySet, FS_CardinalityType

\* While a call is in progress the log is neither committing nor recovering.
LEMMA InOpIsRunning ==
  ASSUME IInv, NEW p \in Procs, pc[p] = "in_op"
  PROVE  /\ outstanding \in Nat \ {0}
         /\ ~committing
         /\ phase \in {"run", "panic"}
<1>1. InOp # {}
  BY DEF InOp
<1>2. outstanding \in Nat \ {0}
  BY <1>1, InOpFinite DEF IInv, OutstandingCounts
<1>3. ~committing
  BY <1>2 DEF IInv, OutstandingCounts
<1> QED
  BY <1>2, <1>3 DEF IInv, TypeOK, PhaseInv, Phases, Up, BootPhases, CommitPhases

\* The inductive invariant holds when the machine is switched on.
LEMMA InitIInv == Init => IInv
<1> SUFFICES ASSUME Init PROVE IInv
  OBVIOUS
<1> USE LogAssumption, LogsizeType
<1>1. InOp = {}
  BY DEF Init, InOp
<1>2. TypeOK
  <2>1. InitVal \in Contents /\ "boot" \in Phases
    BY DEF Contents, Phases, BootPhases
  <2>2. <<>> \in Seq(Blocks)
    OBVIOUS
  <2> QED
    BY <2>1, <2>2, Zenon DEF Init, TypeOK
<1>3. OutstandingCounts
  BY <1>1, FS_EmptySet DEF Init, OutstandingCounts
<1>4. HeaderFits /\ NoDuplicateSlots
  BY DEF Init, HeaderFits, NoDuplicateSlots
<1>5. PhaseInv /\ SlotsInv /\ PinsBalance /\ DirtyIsPinned
  BY DEF Init, PhaseInv, SlotsInv, PinsBalance, DirtyIsPinned, Up, CommitPhases, BootPhases
<1> QED
  BY <1>2, <1>3, <1>4, <1>5 DEF IInv

-----------------------------------------------------------------------------
\* A step of p between "in_op" and another place changes the calls in
\* progress, and Log.outstanding with them, by one.
LEMMA EnterOp ==
  ASSUME TypeOK, NEW p \in Procs, pc[p] # "in_op", pc' = [pc EXCEPT ![p] = "in_op"]
  PROVE  /\ InOp' = InOp \union {p}
         /\ Cardinality(InOp') = Cardinality(InOp) + 1
<1>1. InOp' = InOp \union {p} /\ p \notin InOp
  BY DEF InOp, TypeOK
<1> QED
  BY <1>1, InOpFinite, FS_AddElement

\* The step back: end_op takes one call out of those in progress.
LEMMA LeaveOp ==
  ASSUME TypeOK, NEW p \in Procs, pc[p] = "in_op",
         \A q \in Procs : pc'[q] = "in_op" <=> q # p /\ pc[q] = "in_op"
  PROVE  /\ InOp' = InOp \ {p}
         /\ Cardinality(InOp') = Cardinality(InOp) - 1
         /\ Cardinality(InOp') = 0 <=> InOp' = {}
<1>1. InOp' = InOp \ {p} /\ p \in InOp
  BY DEF InOp
<1>2. IsFiniteSet(InOp')
  BY <1>1, InOpFinite, FS_RemoveElement
<1> QED
  BY <1>1, <1>2, InOpFinite, FS_RemoveElement, FS_EmptySet

\* begin_op, whether it enters, sleeps or is woken, keeps the invariant.
LEMMA BeginOpIInv ==
  ASSUME IInv, NEW p \in Procs, BeginOp(p)
  PROVE  IInv'
<1> USE DEF IInv
<1>1. CASE MustWait
  <2>1. pc' = [pc EXCEPT ![p] = "sleeping"] /\ UNCHANGED <<outstanding, wrote>>
    BY <1>1 DEF BeginOp
  <2>2. InOp' = InOp
    BY <2>1 DEF InOp, TypeOK, BeginOp
  <2>3. TypeOK'
    BY <2>1 DEF TypeOK, BeginOp, diskVars
  <2>4. OutstandingCounts'
    BY <2>1, <2>2 DEF OutstandingCounts, BeginOp
  <2>5. UNCHANGED <<disk, dlog, dhead, cache, pin, header, outstanding, committing, phase, tail>>
    BY <2>1 DEF BeginOp, diskVars
  <2>6. PhaseInv' /\ SlotsInv' /\ HeaderFits' /\ NoDuplicateSlots'
    BY <2>2, <2>5 DEF PhaseInv, SlotsInv, HeaderFits, NoDuplicateSlots, Up
  <2>7. PinsBalance' /\ DirtyIsPinned'
    BY <2>5 DEF PinsBalance, DirtyIsPinned, Uninstalled, Logged, Up
  <2> QED
    BY <2>3, <2>4, <2>6, <2>7
<1>2. CASE ~MustWait
  <2>1. /\ pc' = [pc EXCEPT ![p] = "in_op"]
        /\ outstanding' = outstanding + 1
        /\ wrote' = [wrote EXCEPT ![p] = {}]
    BY <1>2 DEF BeginOp
  <2>2. ~committing /\ phase = "run"
    BY <1>2 DEF MustWait, BeginOp, Up, PhaseInv, TypeOK
  <2>3. InOp' # {} /\ Cardinality(InOp') = Cardinality(InOp) + 1
    BY <2>1, EnterOp, Zenon DEF BeginOp
  <2>4. TypeOK'
    BY <2>1 DEF TypeOK, BeginOp, diskVars
  <2>5. OutstandingCounts'
    BY <2>1, <2>2, <2>3 DEF OutstandingCounts, BeginOp
  <2>6. PhaseInv' /\ SlotsInv' /\ PinsBalance' /\ DirtyIsPinned' /\ HeaderFits' /\ NoDuplicateSlots'
    BY <2>2, <2>3 DEF PhaseInv, SlotsInv, PinsBalance, DirtyIsPinned, HeaderFits,
       NoDuplicateSlots, Uninstalled, Logged, Up, BootPhases, CommitPhases, BeginOp, diskVars
  <2> QED
    BY <2>4, <2>5, <2>6
<1> QED
  BY <1>1, <1>2

\* LOG.write keeps the invariant: it absorbs, adds a slot and pins, or panics.
LEMMA WriteIInv ==
  ASSUME IInv, NEW p \in Procs, NEW b \in Blocks, NEW v \in Vals, Write(p, b, v)
  PROVE  IInv'
<1> USE DEF IInv
<1>1. /\ outstanding \in Nat \ {0} /\ ~committing /\ phase = "run"
      /\ InOp # {} /\ InOp' = InOp
  BY InOpIsRunning DEF Write, Up, CommitPhases, InOp
<1>2. OutstandingCounts'
  BY <1>1 DEF OutstandingCounts, Write
<1>3. CASE WriteRefused
  <2>1. /\ phase' = "panic"
        /\ UNCHANGED <<cache, pin, header, wrote>>
    BY <1>3 DEF Write
  <2>2. TypeOK'
    BY <2>1 DEF TypeOK, Write, diskVars, Phases
  <2> QED
    BY <1>1, <1>2, <2>1, <2>2 DEF PhaseInv, SlotsInv, PinsBalance, DirtyIsPinned, HeaderFits,
       NoDuplicateSlots, Up, BootPhases, CommitPhases, Write, diskVars
<1>4. CASE ~WriteRefused /\ Absorbed(b)
  <2>1. /\ cache' = [cache EXCEPT ![b] = v]
        /\ wrote' = [wrote EXCEPT ![p] = @ \union {b}]
        /\ UNCHANGED <<header, pin, phase>>
    BY <1>4 DEF Write
  <2>2. TypeOK'
    BY <2>1 DEF TypeOK, Write, diskVars, Contents
  <2>3. Uninstalled = Logged(header) /\ Uninstalled' = Logged(header)
    BY <1>1, <2>1 DEF Uninstalled, Logged
  <2>4. PinsBalance' /\ DirtyIsPinned'
    BY <1>1, <1>4, <2>1, <2>3 DEF PinsBalance, DirtyIsPinned, Absorbed, Up, TypeOK,
       Write, diskVars
  <2> QED
    BY <1>1, <1>2, <2>1, <2>2, <2>4 DEF PhaseInv, SlotsInv, HeaderFits,
       NoDuplicateSlots, Up, BootPhases, CommitPhases, Write, diskVars
<1>5. CASE ~WriteRefused /\ ~Absorbed(b)
  <2>1. /\ cache' = [cache EXCEPT ![b] = v]
        /\ wrote' = [wrote EXCEPT ![p] = @ \union {b}]
        /\ header' = Append(header, b)
        /\ pin' = [pin EXCEPT ![b] = @ + 1]
        /\ UNCHANGED phase
    BY <1>5 DEF Write, Bpin
  <2>2. TypeOK'
    BY <2>1 DEF TypeOK, Write, diskVars, Contents
  <2>3. /\ Len(header') = Len(header) + 1
        /\ header'[Len(header) + 1] = b
        /\ \A i \in 1..Len(header) : header'[i] = header[i] /\ header[i] # b
    <3>1. header \in Seq(Blocks) /\ b \notin Logged(header)
      BY <1>5 DEF Absorbed, TypeOK
    <3>2. \A i \in 1..Len(header) : header[i] # b
      BY <3>1 DEF Logged
    <3> QED
      BY <2>1, <3>1, <3>2, AppendHeader
  <2>4. /\ Uninstalled = Logged(header) /\ b \notin Logged(header)
        /\ Uninstalled' = Logged(header) \union {b}
    <3>1. Uninstalled = Logged(header) /\ Uninstalled' = Logged(header')
      BY <1>1, <2>1 DEF Uninstalled, Logged
    <3>2. Logged(header') = Logged(header) \union {b} /\ b \notin Logged(header)
      BY <1>5, <2>1, AppendHeader DEF Absorbed, TypeOK
    <3> QED
      BY <3>1, <3>2
  <2>5. HeaderFits' /\ NoDuplicateSlots'
    <3>1. HeaderFits'
      BY <1>5, <2>3, LogsizeType DEF HeaderFits, WriteRefused, TypeOK, Write, diskVars
    <3>2. \A i, j \in 1..Len(header') : header'[i] = header'[j] => i = j
      <4>1. \A i, j \in 1..Len(header) : header[i] = header[j] => i = j
        BY DEF NoDuplicateSlots
      <4>2. Len(header) \in Nat
        BY DEF TypeOK
      <4>3. \A i \in 1..Len(header') : i \in 1..Len(header) \/ i = Len(header) + 1
        BY <2>3, <4>2
      <4> QED
        BY <2>3, <4>1, <4>3
    <3>3. NoDuplicateSlots'
      BY <3>2 DEF NoDuplicateSlots, Write, diskVars
    <3> QED
      BY <3>1, <3>3
  <2>6. PinsBalance'
    BY <1>1, <2>1, <2>4 DEF PinsBalance, Up, TypeOK
  <2>7. DirtyIsPinned'
    BY <1>1, <2>1 DEF DirtyIsPinned, Up, TypeOK, Write, diskVars
  <2> QED
    BY <1>1, <1>2, <2>1, <2>2, <2>5, <2>6, <2>7 DEF PhaseInv, SlotsInv,
       Up, BootPhases, CommitPhases, Write, diskVars
<1> QED
  BY <1>3, <1>4, <1>5

\* end_op keeps the invariant; the last call out starts the commit.
LEMMA EndOpIInv ==
  ASSUME IInv, NEW p \in Procs, EndOp(p)
  PROVE  IInv'
<1> USE DEF IInv
<1>1. outstanding \in Nat \ {0} /\ ~committing /\ phase = "run"
  BY InOpIsRunning DEF EndOp, Up, CommitPhases
<1>2. /\ outstanding' = outstanding - 1 /\ tail' = 0
      /\ UNCHANGED <<disk, dlog, dhead, cache, pin, header, wrote>>
  BY DEF EndOp, diskVars
<1>3. CASE outstanding' = 0
  <2>1. committing' = TRUE /\ phase' = CommitStart /\ pc' = [pc EXCEPT ![p] = "commit"]
    BY <1>1, <1>3 DEF EndOp
  <2>2. \A q \in Procs : pc'[q] = "in_op" <=> q # p /\ pc[q] = "in_op"
    BY <2>1 DEF TypeOK
  <2>3. TypeOK'
    BY <1>2, <1>3, <2>1 DEF TypeOK, CommitStart, Phases, CommitPhases
  <2>4. OutstandingCounts'
    <3>1. pc[p] = "in_op" /\ outstanding = Cardinality(InOp)
      BY DEF EndOp, OutstandingCounts
    <3>2. Cardinality(InOp') = Cardinality(InOp) - 1
      BY <2>2, <3>1, LeaveOp, Zenon
    <3> QED
      BY <1>1, <1>2, <1>3, <2>1, <3>1, <3>2 DEF OutstandingCounts
  <2>5. header # <<>> => Len(header) > 0
    BY DEF TypeOK
  <2>6. PhaseInv' /\ SlotsInv'
    BY <1>1, <1>2, <2>1, <2>5 DEF PhaseInv, SlotsInv, CommitStart, Up, BootPhases, CommitPhases
  <2>7. Uninstalled = Logged(header) /\ Uninstalled' = Logged(header)
    BY <1>1, <1>2, <2>1 DEF Uninstalled, Logged, CommitStart
  <2> QED
    BY <1>1, <1>2, <2>3, <2>4, <2>6, <2>7 DEF PinsBalance, DirtyIsPinned, HeaderFits,
       NoDuplicateSlots, Up
<1>4. CASE outstanding' # 0
  <2>1. /\ pc' = Wakeup(p, GuardAddr(p), [pc EXCEPT ![p] = "user"])
        /\ UNCHANGED <<committing, phase>>
    BY <1>1, <1>4 DEF EndOp
  <2>2. \A q \in Procs : pc'[q] = "in_op" <=> q # p /\ pc[q] = "in_op"
    BY <2>1 DEF TypeOK, Wakeup
  <2>3. pc' \in [Procs -> {"user", "sleeping", "woken", "in_op", "commit"}]
    BY <2>1 DEF TypeOK, Wakeup
  <2>4. TypeOK'
    <3>1. outstanding' \in Nat /\ tail' \in Nat
      BY <1>1, <1>2
    <3> QED
      BY <1>2, <2>1, <2>3, <3>1, Zenon DEF TypeOK
  <2>5. OutstandingCounts' /\ InOp' # {}
    <3>1. /\ Cardinality(InOp') = Cardinality(InOp) - 1
          /\ Cardinality(InOp') = 0 <=> InOp' = {}
      BY <2>2, LeaveOp DEF EndOp
    <3>2. outstanding' = Cardinality(InOp')
      BY <1>2, <3>1 DEF OutstandingCounts
    <3> QED
      BY <1>1, <1>4, <2>1, <3>1, <3>2 DEF OutstandingCounts
  <2>6. PhaseInv' /\ SlotsInv'
    BY <1>1, <1>2, <2>1, <2>5 DEF PhaseInv, SlotsInv, Up, BootPhases, CommitPhases
  <2>7. Uninstalled = Logged(header) /\ Uninstalled' = Logged(header)
    BY <1>1, <1>2, <2>1 DEF Uninstalled, Logged
  <2> QED
    BY <1>1, <1>2, <2>1, <2>4, <2>5, <2>6, <2>7 DEF PinsBalance, DirtyIsPinned, HeaderFits,
       NoDuplicateSlots, Up
<1> QED
  BY <1>3, <1>4

\* A round of write_log copies one more block into the log area.
LEMMA WriteLogIInv ==
  ASSUME IInv, WriteLog
  PROVE  IInv'
<1> USE DEF IInv
<1>1. /\ phase = "write_log" /\ Up
      /\ UNCHANGED <<disk, dhead, cache, pin, header, outstanding, committing, pc, wrote>>
      /\ dlog' = [dlog EXCEPT ![tail + 1] = cache[header[tail + 1]]]
  BY DEF WriteLog, Up, CommitPhases
<1>2. /\ tail \in Nat /\ Len(header) \in Nat /\ tail < Len(header)
      /\ tail + 1 \in 1..Len(header) /\ tail + 1 \in 1..LOGSIZE
      /\ header[tail + 1] \in Blocks
  BY <1>1, LogsizeType DEF TypeOK, PhaseInv, HeaderFits
<1>3. dlog' \in [1..LOGSIZE -> Contents]
  BY <1>1, <1>2 DEF TypeOK
<1>4. \A i \in 1..tail+1 : dlog'[i] = cache[header[i]]
  BY <1>1, <1>2, LogsizeType DEF SlotsInv, TypeOK, HeaderFits
<1>5. OutstandingCounts' /\ HeaderFits' /\ NoDuplicateSlots' /\ DirtyIsPinned'
  BY <1>1 DEF OutstandingCounts, HeaderFits, NoDuplicateSlots, DirtyIsPinned, InOp, Up
<1>6. CASE tail + 1 = Len(header)
  <2>1. phase' = "write_head" /\ tail' = 0
    BY <1>6 DEF WriteLog
  <2>2. TypeOK' /\ PhaseInv' /\ SlotsInv' /\ PinsBalance'
    <3>1. TypeOK'
      BY <1>1, <1>3, <2>1 DEF TypeOK, Phases, CommitPhases
    <3>2. header # <<>>
      BY <1>2
    <3>3. PhaseInv'
      BY <1>1, <2>1, <3>2 DEF PhaseInv, Up, BootPhases, CommitPhases
    <3>4. SlotsInv'
      BY <1>1, <1>4, <1>6, <2>1 DEF SlotsInv
    <3>5. PinsBalance'
      BY <1>1, <2>1 DEF PinsBalance, Uninstalled, Logged
    <3> QED
      BY <3>1, <3>3, <3>4, <3>5
  <2> QED
    BY <1>5, <2>2
<1>7. CASE tail + 1 # Len(header)
  <2>1. phase' = phase /\ tail' = tail + 1
    BY <1>7 DEF WriteLog
  <2>2. TypeOK' /\ PhaseInv' /\ SlotsInv' /\ PinsBalance'
    <3>1. TypeOK'
      BY <1>1, <1>2, <1>3, <2>1 DEF TypeOK
    <3>2. PhaseInv' /\ SlotsInv'
      BY <1>1, <1>2, <1>4, <1>7, <2>1 DEF PhaseInv, SlotsInv, Up, BootPhases, CommitPhases
    <3>3. PinsBalance'
      BY <1>1, <2>1 DEF PinsBalance, Uninstalled, Logged
    <3> QED
      BY <3>1, <3>2, <3>3
  <2> QED
    BY <1>5, <2>2
<1> QED
  BY <1>6, <1>7

\* write_head makes the header on disk that in memory.
LEMMA WriteHeadIInv ==
  ASSUME IInv, WriteHead
  PROVE  IInv'
<1> USE DEF IInv
<1>1. /\ phase = "write_head" /\ phase' = "install" /\ dhead' = header
      /\ UNCHANGED <<disk, dlog, cache, pin, header, outstanding, committing, tail, pc, wrote>>
  BY DEF WriteHead
<1>2. TypeOK' /\ OutstandingCounts' /\ HeaderFits' /\ NoDuplicateSlots'
  BY <1>1 DEF TypeOK, Phases, CommitPhases, OutstandingCounts, HeaderFits, NoDuplicateSlots, InOp
<1>3. tail = 0 /\ Len(header) \in Nat /\ header # <<>>
  BY <1>1 DEF PhaseInv, TypeOK
<1>4. PhaseInv' /\ SlotsInv'
  BY <1>1, <1>3 DEF PhaseInv, SlotsInv, TypeOK, Up, BootPhases, CommitPhases
<1>5. Uninstalled' = Uninstalled
  BY <1>1, <1>3 DEF Uninstalled, Logged
<1>6. PinsBalance' /\ DirtyIsPinned'
  BY <1>1, <1>5 DEF PinsBalance, DirtyIsPinned, Up, CommitPhases
<1> QED
  BY <1>2, <1>4, <1>6

\* One turn of the loop of install_trans: one more block is at home, in the
\* cache and on disk, and those before it stay there.
LEMMA InstallBlockStep ==
  ASSUME IInv, phase \in {"install", "recover"}, NEW next, InstallBlock(next)
  PROVE  /\ tail + 1 \in 1..Len(header) /\ tail + 1 \in 1..LOGSIZE
         /\ header[tail + 1] \in Blocks
         /\ disk' \in [Blocks -> Contents] /\ cache' \in [Blocks -> Contents]
         /\ \A i \in 1..tail+1 : disk'[header[i]] = dlog[i]
         /\ \A c \in Blocks : c # header[tail + 1] => disk'[c] = disk[c] /\ cache'[c] = cache[c]
         /\ disk'[header[tail + 1]] = dlog[tail + 1]
         /\ cache'[header[tail + 1]] = dlog[tail + 1]
<1> USE DEF IInv
<1>1. /\ tail \in Nat /\ Len(header) \in Nat /\ tail < Len(header)
      /\ tail + 1 \in 1..Len(header) /\ tail + 1 \in 1..LOGSIZE
      /\ header[tail + 1] \in Blocks
  BY LogsizeType DEF TypeOK, PhaseInv, HeaderFits
<1>2. /\ disk' = [disk EXCEPT ![header[tail + 1]] = dlog[tail + 1]]
      /\ cache' = [cache EXCEPT ![header[tail + 1]] = dlog[tail + 1]]
  BY DEF InstallBlock
<1>3. disk \in [Blocks -> Contents] /\ cache \in [Blocks -> Contents] /\ dlog[tail + 1] \in Contents
  BY <1>1 DEF TypeOK
<1>4. ASSUME NEW i \in 1..tail+1 PROVE disk'[header[i]] = dlog[i]
  <2>1. i \in 1..Len(header) /\ header[i] \in Blocks
    BY <1>1 DEF TypeOK
  <2>2. CASE i = tail + 1
    BY <1>1, <1>2, <1>3, <2>2
  <2>3. CASE i # tail + 1
    <3>1. header[i] # header[tail + 1]
      BY <1>1, <2>1, <2>3 DEF NoDuplicateSlots
    <3>2. disk[header[i]] = dlog[i]
      BY <1>1, <2>3 DEF SlotsInv
    <3> QED
      BY <1>2, <1>3, <2>1, <3>1, <3>2
  <2> QED
    BY <2>2, <2>3
<1> QED
  BY <1>1, <1>2, <1>3, <1>4

\* A round of install_trans copies one block home and unpins it.
LEMMA InstallIInv ==
  ASSUME IInv, Install
  PROVE  IInv'
<1> USE DEF IInv
<1> DEFINE b == header[tail + 1]
<1>1. /\ phase = "install" /\ InstallBlock("clear") /\ pin' = [pin EXCEPT ![b] = @ - 1]
      /\ UNCHANGED <<dlog, dhead, header, outstanding, committing, pc, wrote>>
  BY DEF Install, Bunpin
<1>2. /\ tail + 1 \in 1..Len(header) /\ b \in Blocks
      /\ disk' \in [Blocks -> Contents] /\ cache' \in [Blocks -> Contents]
      /\ \A i \in 1..tail+1 : disk'[header[i]] = dlog[i]
      /\ \A c \in Blocks : c # b => disk'[c] = disk[c] /\ cache'[c] = cache[c]
      /\ disk'[b] = dlog[tail + 1] /\ cache'[b] = dlog[tail + 1]
  BY <1>1, InstallBlockStep
<1>3. /\ tail \in Nat /\ Len(header) \in Nat /\ header \in Seq(Blocks)
      /\ tail < Len(header) /\ pin \in [Blocks -> Nat]
  BY <1>1 DEF TypeOK, PhaseInv
<1>4. cache'= cache
  <2>1. cache[b] = dlog[tail + 1] /\ cache \in [Blocks -> Contents]
    BY <1>1, <1>2 DEF SlotsInv, TypeOK
  <2> QED
    BY <1>2, <2>1
<1>5. \/ /\ tail + 1 = Len(header) /\ phase' = "clear" /\ tail' = 0
      \/ /\ tail + 1 < Len(header) /\ phase' = "install" /\ tail' = tail + 1
  BY <1>1, <1>3 DEF InstallBlock
<1>6. b \in Uninstalled /\ Uninstalled' = Uninstalled \ {b}
  <2>1. Uninstalled = {header[i] : i \in tail + 1 .. Len(header)}
    BY <1>1 DEF Uninstalled
  <2>2. Uninstalled' = {header[i] : i \in tail + 2 .. Len(header)}
    BY <1>1, <1>3, <1>5 DEF Uninstalled
  <2>3. \A i \in tail + 1 .. Len(header) :
          /\ i \in 1..Len(header)
          /\ i = tail + 1 \/ i \in tail + 2 .. Len(header)
    BY <1>3
  <2>4. \A i \in tail + 2 .. Len(header) :
          i \in tail + 1 .. Len(header) /\ i # tail + 1
    BY <1>3
  <2>5. \A i \in tail + 1 .. Len(header) : i # tail + 1 => header[i] # b
    BY <1>2, <2>3 DEF NoDuplicateSlots
  <2>6. tail + 1 \in tail + 1 .. Len(header)
    BY <1>3
  <2> QED
    BY <2>1, <2>2, <2>3, <2>4, <2>5, <2>6
<1>7. Up /\ Up'
  BY <1>1, <1>5 DEF Up, CommitPhases
<1>8. pin[b] = 1
  BY <1>2, <1>6, <1>7 DEF PinsBalance
<1>9. PinsBalance'
  BY <1>1, <1>2, <1>3, <1>6, <1>7, <1>8 DEF PinsBalance
<1>10. DirtyIsPinned'
  BY <1>1, <1>2, <1>3, <1>7, <1>8, Zenon DEF DirtyIsPinned
<1>11. TypeOK'
  <2>1. pin' \in [Blocks -> Nat]
    BY <1>1, <1>2, <1>3, <1>8
  <2>2. tail' \in Nat /\ phase' \in Phases
    BY <1>3, <1>5 DEF Phases, CommitPhases
  <2> QED
    BY <1>1, <1>2, <2>1, <2>2 DEF TypeOK
<1>12. HeaderFits' /\ NoDuplicateSlots' /\ OutstandingCounts'
  BY <1>1 DEF HeaderFits, NoDuplicateSlots, OutstandingCounts, InOp
<1>13. PhaseInv'
  BY <1>1, <1>3, <1>5 DEF PhaseInv, Up, BootPhases, CommitPhases
<1>14. SlotsInv'
  BY <1>1, <1>2, <1>3, <1>4, <1>5 DEF SlotsInv
<1> QED
  BY <1>9, <1>10, <1>11, <1>12, <1>13, <1>14

\* The same round during recovery, which unpins nothing.
LEMMA RecoverInstallIInv ==
  ASSUME IInv, RecoverInstall
  PROVE  IInv'
<1> USE DEF IInv
<1> DEFINE b == header[tail + 1]
<1>1. /\ phase = "recover" /\ InstallBlock("rec_clear")
      /\ UNCHANGED <<dlog, dhead, pin, header, outstanding, committing, pc, wrote>>
  BY DEF RecoverInstall
<1>2. /\ tail + 1 \in 1..Len(header) /\ b \in Blocks
      /\ disk' \in [Blocks -> Contents] /\ cache' \in [Blocks -> Contents]
      /\ \A i \in 1..tail+1 : disk'[header[i]] = dlog[i]
      /\ \A c \in Blocks : c # b => disk'[c] = disk[c] /\ cache'[c] = cache[c]
      /\ disk'[b] = dlog[tail + 1] /\ cache'[b] = dlog[tail + 1]
  BY <1>1, InstallBlockStep
<1>3. /\ tail \in Nat /\ Len(header) \in Nat /\ tail < Len(header)
  BY <1>1 DEF TypeOK, PhaseInv
<1>4. \/ /\ tail + 1 = Len(header) /\ phase' = "rec_clear" /\ tail' = 0
      \/ /\ tail + 1 < Len(header) /\ phase' = "recover" /\ tail' = tail + 1
  BY <1>1, <1>3 DEF InstallBlock
<1>5. cache' = disk'
  <2>1. cache = disk
    BY <1>1 DEF PhaseInv, BootPhases
  <2> QED
    BY <1>2, <2>1
<1>6. TypeOK'
  BY <1>1, <1>2, <1>3, <1>4 DEF TypeOK, Phases, BootPhases
<1>7. HeaderFits' /\ NoDuplicateSlots' /\ OutstandingCounts'
  BY <1>1 DEF HeaderFits, NoDuplicateSlots, OutstandingCounts, InOp
<1>8. PhaseInv'
  BY <1>1, <1>3, <1>4, <1>5 DEF PhaseInv, Up, BootPhases, CommitPhases
<1>9. SlotsInv'
  BY <1>1, <1>2, <1>3, <1>4 DEF SlotsInv
<1>10. PinsBalance' /\ DirtyIsPinned'
  BY <1>4 DEF PinsBalance, DirtyIsPinned, Up, CommitPhases
<1> QED
  BY <1>6, <1>7, <1>8, <1>9, <1>10

\* Erasing the header keeps the invariant: all of its blocks are at home.
LEMMA EraseHeadIInv ==
  ASSUME IInv, Clear \/ RecoverClear
  PROVE  IInv'
<1> USE DEF IInv
<1>1. /\ \/ phase = "clear" /\ phase' = "finish"
         \/ phase = "rec_clear" /\ phase' = "run"
      /\ header' = <<>> /\ dhead' = <<>>
      /\ UNCHANGED <<disk, dlog, cache, pin, outstanding, committing, tail, pc, wrote>>
  BY DEF Clear, RecoverClear, EraseHead
<1>2. Len(header') = 0 /\ Len(dhead') = 0 /\ Logged(header') = {}
  BY <1>1 DEF Logged
<1>3. TypeOK'
  <2>1. <<>> \in Seq(Blocks)
    OBVIOUS
  <2> QED
    BY <1>1, <2>1 DEF TypeOK, Phases, CommitPhases
<1>4. HeaderFits' /\ NoDuplicateSlots' /\ OutstandingCounts'
  BY <1>1, <1>2, LogsizeType DEF HeaderFits, NoDuplicateSlots, OutstandingCounts, InOp
<1>5. PhaseInv' /\ SlotsInv'
  BY <1>1 DEF PhaseInv, SlotsInv, Up, BootPhases, CommitPhases
<1>6. \A c \in Blocks : pin[c] = 0
  <2>1. CASE phase = "clear"
    BY <2>1 DEF PinsBalance, Uninstalled, Up, CommitPhases
  <2>2. CASE phase = "rec_clear"
    BY <2>2 DEF PhaseInv, BootPhases
  <2> QED
    BY <1>1, <2>1, <2>2
<1>7. \A c \in Blocks : cache[c] = disk[c]
  <2>1. CASE phase = "clear"
    BY <1>6, <2>1 DEF DirtyIsPinned, Up, CommitPhases
  <2>2. CASE phase = "rec_clear"
    BY <2>2 DEF PhaseInv, BootPhases
  <2> QED
    BY <1>1, <2>1, <2>2
<1>8. Uninstalled' = {}
  BY <1>1, <1>2 DEF Uninstalled
<1>9. PinsBalance' /\ DirtyIsPinned'
  BY <1>1, <1>6, <1>7, <1>8 DEF PinsBalance, DirtyIsPinned
<1> QED
  BY <1>3, <1>4, <1>5, <1>9

\* The end of commit, after which the log is open again.
LEMMA FinishIInv ==
  ASSUME IInv, NEW p \in Procs, Finish(p)
  PROVE  IInv'
<1> USE DEF IInv
<1>1. /\ phase = "finish" /\ phase' = "run" /\ committing' = FALSE /\ pc[p] = "commit"
      /\ pc' = Wakeup(p, GuardAddr(p), [pc EXCEPT ![p] = "user"])
      /\ UNCHANGED <<disk, dlog, dhead, cache, pin, header, outstanding, tail, wrote>>
  BY DEF Finish, diskVars
<1>2. InOp' = InOp
  <2>1. \A q \in Procs : pc'[q] = "in_op" <=> pc[q] = "in_op"
    BY <1>1 DEF Wakeup, TypeOK
  <2> QED
    BY <2>1 DEF InOp
<1>3. TypeOK'
  <2>1. pc' \in [Procs -> {"user", "sleeping", "woken", "in_op", "commit"}]
    BY <1>1 DEF TypeOK, Wakeup
  <2> QED
    BY <1>1, <2>1, Zenon DEF TypeOK, Phases
<1>4. HeaderFits' /\ NoDuplicateSlots' /\ OutstandingCounts' /\ PhaseInv' /\ SlotsInv'
  BY <1>1, <1>2 DEF HeaderFits, NoDuplicateSlots, OutstandingCounts, PhaseInv, SlotsInv, Up,
     BootPhases, CommitPhases
<1>5. Uninstalled' = Uninstalled
  BY <1>1 DEF Uninstalled, Logged
<1>6. PinsBalance' /\ DirtyIsPinned'
  BY <1>1, <1>5 DEF PinsBalance, DirtyIsPinned, Up, CommitPhases
<1> QED
  BY <1>3, <1>4, <1>6

\* Recycling a buffer changes nothing that can be seen: it is clean.
LEMMA RecycleStutters ==
  ASSUME IInv, NEW b \in Blocks, Recycle(b)
  PROVE  UNCHANGED vars
<1> USE DEF IInv
<1>1. cache[b] = disk[b] /\ cache \in [Blocks -> Contents]
  BY DEF Recycle, DirtyIsPinned, TypeOK
<1>2. cache' = [cache EXCEPT ![b] = disk[b]]
  BY DEF Recycle
<1>3. cache' = cache
  BY <1>1, <1>2
<1> QED
  BY <1>3 DEF Recycle, vars, diskVars

\* What the machine holds after a power loss satisfies the invariant, if the disk does.
LEMMA PowerLossIInv ==
  ASSUME IInv, NEW d \in [Blocks -> Contents], NEW l \in [1..LOGSIZE -> Contents],
         PowerLoss(d, l)
  PROVE  IInv'
<1> USE DEF IInv
<1>1. InOp' = {}
  BY DEF PowerLoss, InOp
<1>2. TypeOK'
  <2>1. <<>> \in Seq(Blocks)
    OBVIOUS
  <2> QED
    BY <2>1, Zenon DEF PowerLoss, TypeOK, Phases, BootPhases
<1>3. OutstandingCounts'
  BY <1>1, FS_EmptySet DEF OutstandingCounts, PowerLoss
<1>4. HeaderFits' /\ NoDuplicateSlots'
  BY LogsizeType DEF HeaderFits, NoDuplicateSlots, PowerLoss
<1>5. PhaseInv' /\ SlotsInv' /\ PinsBalance' /\ DirtyIsPinned'
  BY DEF PhaseInv, SlotsInv, PinsBalance, DirtyIsPinned, PowerLoss, Up, BootPhases, CommitPhases
<1> QED
  BY <1>2, <1>3, <1>4, <1>5

\* A power loss, with or without a torn block, keeps the invariant.
LEMMA CrashIInv ==
  ASSUME IInv, Crash \/ CrashMidWrite
  PROVE  IInv'
<1> USE DEF IInv
<1>1. CASE Crash
  BY <1>1, PowerLossIInv, Zenon DEF Crash, TypeOK
<1>2. CASE phase = "write_log" /\ PowerLoss(disk, [dlog EXCEPT ![tail + 1] = Torn])
  <2>1. [dlog EXCEPT ![tail + 1] = Torn] \in [1..LOGSIZE -> Contents]
    BY Zenon DEF TypeOK, Contents
  <2>2. disk \in [Blocks -> Contents]
    BY DEF TypeOK
  <2> QED
    BY <1>2, <2>1, <2>2, PowerLossIInv, Zenon
<1>3. CASE PowerLoss([disk EXCEPT ![header[tail + 1]] = Torn], dlog)
  <2>1. [disk EXCEPT ![header[tail + 1]] = Torn] \in [Blocks -> Contents]
    BY Zenon DEF TypeOK, Contents
  <2>2. dlog \in [1..LOGSIZE -> Contents]
    BY DEF TypeOK
  <2> QED
    BY <1>3, <2>1, <2>2, PowerLossIInv, Zenon
<1> QED
  BY <1>1, <1>2, <1>3 DEF CrashMidWrite

\* read_head starts recovery from the header found on disk.
LEMMA ReadHeadIInv ==
  ASSUME IInv, ReadHead
  PROVE  IInv'
<1> USE DEF IInv
<1>1. /\ phase = "boot" /\ header' = dhead
      /\ phase' = IF dhead = <<>> THEN "rec_clear" ELSE "recover"
      /\ UNCHANGED <<disk, dlog, dhead, cache, pin, outstanding, committing, tail, pc, wrote>>
  BY DEF ReadHead, diskVars
<1>2. TypeOK' /\ HeaderFits' /\ NoDuplicateSlots' /\ OutstandingCounts'
  BY <1>1 DEF TypeOK, HeaderFits, NoDuplicateSlots, OutstandingCounts, InOp, Phases, BootPhases
<1>3. tail = 0 /\ (dhead = <<>> => Len(dhead) = 0) /\ (dhead # <<>> => Len(dhead) > 0)
  BY <1>1 DEF PhaseInv, TypeOK
<1>4. PhaseInv'
  BY <1>1, <1>3 DEF PhaseInv, Up, BootPhases, CommitPhases
<1>5. SlotsInv' /\ PinsBalance' /\ DirtyIsPinned'
  BY <1>1, <1>3 DEF SlotsInv, PinsBalance, DirtyIsPinned, Up, CommitPhases
<1> QED
  BY <1>2, <1>4, <1>5

\* A step that changes no variable keeps the invariant.
LEMMA StutterIInv ==
  ASSUME IInv, UNCHANGED vars
  PROVE  IInv'
BY DEF IInv, vars, TypeOK, HeaderFits, NoDuplicateSlots, OutstandingCounts, InOp, PhaseInv,
   SlotsInv, PinsBalance, DirtyIsPinned, Up, Uninstalled, Logged

\* Every step of the log keeps the invariant: one case for each action.
LEMMA NextIInv == IInv /\ [Next]_vars => IInv'
<1> SUFFICES ASSUME IInv, [Next]_vars PROVE IInv'
  OBVIOUS
<1>1. ASSUME NEW p \in Procs, BeginOp(p) PROVE IInv'
  BY <1>1, BeginOpIInv
<1>2. ASSUME NEW p \in Procs, EndOp(p) PROVE IInv'
  BY <1>2, EndOpIInv
<1>3. ASSUME NEW p \in Procs, NEW b \in Blocks, NEW v \in Vals, Write(p, b, v) PROVE IInv'
  BY <1>3, WriteIInv
<1>4. CASE Commit
  BY <1>4, WriteLogIInv, WriteHeadIInv, InstallIInv, EraseHeadIInv, FinishIInv DEF Commit
<1>5. CASE Recover
  BY <1>5, ReadHeadIInv, RecoverInstallIInv, EraseHeadIInv DEF Recover
<1>6. ASSUME NEW b \in Blocks, Recycle(b) PROVE IInv'
  BY <1>6, RecycleStutters, StutterIInv
<1>7. CASE Crash \/ CrashMidWrite
  BY <1>7, CrashIInv
<1>8. CASE UNCHANGED vars
  BY <1>8, StutterIInv
<1> QED
  BY <1>1, <1>2, <1>3, <1>4, <1>5, <1>6, <1>7, <1>8 DEF Next

\* The inductive invariant holds throughout.
THEOREM IInvInvariant == Spec => []IInv
BY InitIInv, NextIInv, PTL DEF Spec

\* Type correctness of log.rs, in particular: the pin counts never go below
\* zero and every log block number stays within the log area.
THEOREM LogTypeOK == Spec => []TypeOK
<1>1. IInv => TypeOK
  BY DEF IInv
<1> QED
  BY <1>1, IInvInvariant, PTL

\* bpin (log.rs write) and bunpin (install_trans) balance for any workload.
THEOREM LogPinsBalance == Spec => []PinsBalance
<1>1. IInv => PinsBalance
  BY DEF IInv
<1> QED
  BY <1>1, IInvInvariant, PTL

\* bget never recycles a buffer that holds the only copy of an update.
THEOREM LogDirtyIsPinned == Spec => []DirtyIsPinned
<1>1. IInv => DirtyIsPinned
  BY DEF IInv
<1> QED
  BY <1>1, IInvInvariant, PTL

\* Log absorption leaves no block twice in the header.
THEOREM LogNoDuplicateSlots == Spec => []NoDuplicateSlots
<1>1. IInv => NoDuplicateSlots
  BY DEF IInv
<1> QED
  BY <1>1, IInvInvariant, PTL

\* Log.outstanding counts the calls between begin_op and end_op, and a commit
\* runs only when there are none.
THEOREM LogOutstandingCounts == Spec => []OutstandingCounts
<1>1. IInv => OutstandingCounts
  BY DEF IInv
<1> QED
  BY <1>1, IInvInvariant, PTL

-----------------------------------------------------------------------------
(***************************************************************************)
(* The reservation of begin_op.  What makes it inductive: the blocks that  *)
(* a call in progress has written are in the header, and are at most       *)
(* MAXOPBLOCKS.  With no call in progress it says that the header fits.    *)
(***************************************************************************)
WroteInv ==
  \A p \in InOp : /\ IsFiniteSet(wrote[p])
                  /\ Cardinality(wrote[p]) <= MAXOPBLOCKS
                  /\ wrote[p] \subseteq Logged(header)

RInv == WroteInv /\ ReservationHolds

\* Finitely many calls with finitely many blocks each make finitely many pairs.
LEMMA PairsFinite ==
  ASSUME NEW S, IsFiniteSet(S), NEW w, \A p \in S : IsFiniteSet(w[p])
  PROVE  /\ IsFiniteSet(Pairs(S, w))
         /\ Cardinality(Pairs(S, w)) \in Nat
<1> DEFINE T == {{p} \X w[p] : p \in S}
           f == [p \in S |-> {p} \X w[p]]
<1>1. IsFiniteSet(T)
  <2>1. f \in Surjection(S, T)
    BY Zenon DEF Surjection
  <2> HIDE DEF T, f
  <2> QED
    BY <2>1, FS_Surjection
<1>2. \A U \in T : IsFiniteSet(U)
  <2> SUFFICES ASSUME NEW p \in S PROVE IsFiniteSet({p} \X w[p])
    OBVIOUS
  <2>1. IsFiniteSet({p}) /\ IsFiniteSet(w[p])
    BY FS_Singleton, Zenon
  <2> QED
    BY <2>1, FS_Product
<1> HIDE DEF T
<1>3. IsFiniteSet(UNION T)
  BY <1>1, <1>2, FS_UNION
<1>4. Cardinality(UNION T) \in Nat
  BY <1>3, FS_CardinalityType
<1> QED
  BY <1>3, <1>4 DEF T, Pairs

\* A block written for the first time by a call adds one pair.
LEMMA PairAdded ==
  ASSUME NEW S, NEW p \in S, NEW w, NEW v, NEW b, IsFiniteSet(S),
         \A q \in S : IsFiniteSet(w[q]),
         v[p] = w[p] \union {b}, \A q \in S \ {p} : v[q] = w[q]
  PROVE  /\ b \in w[p] => Cardinality(Pairs(S, v)) = Cardinality(Pairs(S, w))
         /\ b \notin w[p] => Cardinality(Pairs(S, v)) = Cardinality(Pairs(S, w)) + 1
<1> DEFINE W == Pairs(S, w)
           V == Pairs(S, v)
<1>1. V = W \union {<<p, b>>}
  BY DEF Pairs
<1>2. <<p, b>> \in W <=> b \in w[p]
  BY DEF Pairs
<1>3. IsFiniteSet(W)
  BY PairsFinite
<1> HIDE DEF W, V
<1>4. /\ b \in w[p] => Cardinality(V) = Cardinality(W)
      /\ b \notin w[p] => Cardinality(V) = Cardinality(W) + 1
  BY <1>1, <1>2, <1>3, FS_AddElement, Zenon
<1> QED
  BY <1>4 DEF W, V

\* A call that leaves takes its pairs with it, as many as it wrote blocks.
LEMMA PairsGone ==
  ASSUME NEW S, NEW p \in S, NEW w, IsFiniteSet(S), \A q \in S : IsFiniteSet(w[q])
  PROVE  Cardinality(Pairs(S, w)) =
           Cardinality(Pairs(S \ {p}, w)) + Cardinality(w[p])
<1> DEFINE W == Pairs(S, w)
           V == Pairs(S \ {p}, w)
           P == {p} \X w[p]
<1>1. W = V \union P /\ V \intersect P = {}
  BY DEF Pairs
<1>2. IsFiniteSet(V)
  <2>1. IsFiniteSet(S \ {p})
    BY FS_RemoveElement
  <2> QED
    BY <2>1, PairsFinite
<1>3. IsFiniteSet(P) /\ Cardinality(P) = 1 * Cardinality(w[p])
  <2>1. IsFiniteSet({p}) /\ Cardinality({p}) = 1 /\ IsFiniteSet(w[p])
    BY FS_Singleton, Zenon
  <2>2. IsFiniteSet(P) /\ Cardinality(P) = Cardinality({p}) * Cardinality(w[p])
    BY <2>1, FS_Product
  <2> QED
    BY <2>1, <2>2
<1>4. Cardinality(w[p]) \in Nat
  BY FS_CardinalityType
<1> HIDE DEF W, V, P
<1>5. Cardinality(W) = Cardinality(V) + Cardinality(P) - 0
  BY <1>1, <1>2, <1>3, FS_Union, FS_EmptySet
<1>6. Cardinality(V) \in Nat
  BY <1>2, FS_CardinalityType
<1>7. Cardinality(W) = Cardinality(V) + Cardinality(w[p])
  BY <1>3, <1>4, <1>5, <1>6
<1> QED
  BY <1>7 DEF W, V

\* Calls with at most m blocks each make at most m pairs for each call.
LEMMA PairsBounded ==
  ASSUME NEW S, IsFiniteSet(S), NEW w, NEW m \in Nat,
         \A p \in S : IsFiniteSet(w[p]) /\ Cardinality(w[p]) <= m
  PROVE  Cardinality(Pairs(S, w)) <= m * Cardinality(S)
<1> DEFINE W == Pairs(S, w)
           B == S \X (1..m)
           g(p) == CHOOSE h \in [w[p] -> 1..m] : \A x, y \in w[p] : h[x] = h[y] => x = y
           f == [e \in W |-> <<e[1], g(e[1])[e[2]]>>]
<1>1. ASSUME NEW p \in S
      PROVE  g(p) \in [w[p] -> 1..m] /\ \A x, y \in w[p] : g(p)[x] = g(p)[y] => x = y
  <2>1. IsFiniteSet(w[p]) /\ Cardinality(w[p]) <= m /\ Cardinality(w[p]) \in Nat
    BY <1>1, FS_CardinalityType
  <2>2. PICK k \in Bijection(1..Cardinality(w[p]), w[p]) : TRUE
    BY <2>1, FS_CardinalityType DEF ExistsBijection
  <2>3. /\ k \in [1..Cardinality(w[p]) -> w[p]]
        /\ \A x \in w[p] : \E i \in 1..Cardinality(w[p]) : k[i] = x
    BY <2>2 DEF Bijection, Surjection, Injection
  <2> DEFINE h == [x \in w[p] |-> CHOOSE i \in 1..Cardinality(w[p]) : k[i] = x]
  <2>4. \A x \in w[p] : h[x] \in 1..Cardinality(w[p]) /\ k[h[x]] = x
    BY <2>3
  <2>5. \A x \in w[p] : h[x] \in 1..m
    BY <2>1, <2>4
  <2>6. h \in [w[p] -> 1..m] /\ \A x, y \in w[p] : h[x] = h[y] => x = y
    BY <2>4, <2>5, Zenon
  <2>7. \E k1 \in [w[p] -> 1..m] : \A x, y \in w[p] : k1[x] = k1[y] => x = y
    <3> HIDE DEF h
    <3> QED
      BY <2>6
  <2> QED
    BY <2>7, ZenonT(30)
<1>2. \A e \in W : e[1] \in S /\ e[2] \in w[e[1]] /\ e = <<e[1], e[2]>>
  BY DEF Pairs
<1>3. f \in Injection(W, B)
  <2> HIDE DEF W, g
  <2>1. \A e \in W : f[e] \in B
    BY <1>1, <1>2
  <2>2. \A d, e \in W : f[d] = f[e] => d = e
    <3> SUFFICES ASSUME NEW d \in W, NEW e \in W, f[d] = f[e] PROVE d = e
      OBVIOUS
    <3>1. d[1] = e[1] /\ g(d[1])[d[2]] = g(e[1])[e[2]]
      OBVIOUS
    <3>2. d[2] = e[2]
      BY <1>1, <1>2, <3>1
    <3> QED
      BY <1>2, <3>1, <3>2
  <2> QED
    BY <2>1, <2>2 DEF Injection, IsInjective
<1>4. IsFiniteSet(B) /\ Cardinality(B) = Cardinality(S) * m
  <2>1. IsFiniteSet(1..m) /\ Cardinality(1..m) = m
    BY FS_Interval
  <2> QED
    BY <2>1, FS_Product, Zenon
<1> HIDE DEF W, B, f
<1>5. Cardinality(W) <= Cardinality(B)
  BY <1>3, <1>4, FS_Injection
<1>6. Cardinality(S) \in Nat
  BY FS_CardinalityType
<1>7. Cardinality(W) <= m * Cardinality(S)
  BY <1>4, <1>5, <1>6
<1> QED
  BY <1>7 DEF W

\* With no call in progress nothing is reserved.
LEMMA NoneReserved ==
  ASSUME InOp' = {}, Len(header') \in Nat, Len(header') <= LOGSIZE
  PROVE  RInv'
<1>1. Written' = {}
  BY DEF Written, Pairs
<1>2. Cardinality(Written') = 0 /\ Cardinality(InOp') = 0
  BY <1>1, FS_EmptySet
<1> QED
  BY <1>2, LogAssumption, LogsizeType DEF RInv, WroteInv, ReservationHolds

\* A step that leaves the calls, the header and what was written alone keeps
\* the reservation.
LEMMA SameReserved ==
  ASSUME RInv, InOp' = InOp, UNCHANGED <<header, wrote>>
  PROVE  RInv'
<1>1. Written' = Written
  BY DEF Written
<1>2. Logged(header') = Logged(header)
  BY DEF Logged
<1> QED
  BY <1>1, <1>2 DEF RInv, WroteInv, ReservationHolds

\* begin_op enters only when a whole MAXOPBLOCKS is free for the new call.
LEMMA BeginOpReserves ==
  ASSUME IInv, RInv, NEW p \in Procs, BeginOp(p)
  PROVE  RInv'
<1>1. CASE MustWait
  <2>1. InOp' = InOp /\ UNCHANGED <<header, wrote>>
    BY <1>1 DEF BeginOp, InOp, IInv, TypeOK
  <2> QED
    BY <2>1, SameReserved
<1>2. CASE ~MustWait
  <2>1. /\ pc' = [pc EXCEPT ![p] = "in_op"] /\ wrote' = [wrote EXCEPT ![p] = {}]
        /\ header' = header /\ pc[p] # "in_op"
    BY <1>2 DEF BeginOp
  <2>2. InOp' = InOp \union {p} /\ Cardinality(InOp') = Cardinality(InOp) + 1
    BY <2>1, EnterOp, Zenon DEF IInv
  <2>3. Logged(header') = Logged(header)
    BY <2>1 DEF Logged
  <2>4. WroteInv'
    <3>1. ASSUME NEW q \in InOp'
          PROVE  wrote'[q] = {} \/ (q \in InOp /\ wrote'[q] = wrote[q])
      <4>1. wrote \in [Procs -> SUBSET Blocks] /\ q \in Procs
        BY DEF IInv, TypeOK, InOp
      <4>2. CASE q = p
        BY <2>1, <4>1, <4>2
      <4>3. CASE q # p
        BY <2>1, <2>2, <4>1, <4>3
      <4> QED
        BY <4>2, <4>3
    <3>2. WroteInv /\ IsFiniteSet({}) /\ Cardinality({}) = 0 /\ 0 <= MAXOPBLOCKS
      BY FS_EmptySet, LogAssumption DEF RInv
    <3>3. ASSUME NEW q \in InOp'
          PROVE  /\ IsFiniteSet(wrote'[q]) /\ Cardinality(wrote'[q]) <= MAXOPBLOCKS
                 /\ wrote'[q] \subseteq Logged(header)
      <4>1. CASE wrote'[q] = {}
        BY <3>2, <4>1
      <4>2. CASE q \in InOp /\ wrote'[q] = wrote[q]
        BY <3>2, <4>2, Zenon DEF WroteInv
      <4> QED
        BY <3>1, <4>1, <4>2, Zenon
    <3> QED
      BY <2>3, <3>3, Zenon DEF WroteInv
  <2>5. Cardinality(Written') \in Nat
    <3>1. IsFiniteSet(InOp') /\ \A q \in InOp' : IsFiniteSet(wrote'[q])
      BY <2>2, <2>4, InOpFinite, FS_AddElement DEF WroteInv
    <3> QED
      BY <3>1, PairsFinite DEF Written
  <2>6. Len(header) + (Cardinality(InOp) + 1) * MAXOPBLOCKS <= LOGSIZE
    BY <1>2, LogAssumption, LogsizeType, InOpFinite DEF MustWait, IInv, OutstandingCounts, TypeOK
  <2>7. ReservationHolds'
    <3>1. Len(header) \in Nat
      BY DEF IInv, TypeOK
    <3> QED
      BY <2>1, <2>2, <2>5, <2>6, <3>1, InOpFinite, LogAssumption, LogsizeType
         DEF ReservationHolds
  <2> QED
    BY <2>4, <2>7 DEF RInv
<1> QED
  BY <1>1, <1>2

\* LOG.write takes a slot only for a block that uses up one of the caller's.
LEMMA WriteReserves ==
  ASSUME IInv, RInv, NEW p \in Procs, NEW b \in Blocks, NEW v \in Vals, Write(p, b, v)
  PROVE  RInv'
<1>1. InOp' = InOp /\ p \in InOp
  BY DEF Write, InOp
<1>2. CASE WriteRefused
  BY <1>1, <1>2, SameReserved DEF Write
<1>3. CASE ~WriteRefused
  <2>1. /\ wrote' = [wrote EXCEPT ![p] = @ \union {b}]
        /\ header' = IF Absorbed(b) THEN header ELSE Append(header, b)
        /\ Cardinality(wrote[p] \union {b}) <= MAXOPBLOCKS
    BY <1>3 DEF Write
  <2>2. \A q \in InOp : wrote'[q] = IF q = p THEN wrote[p] \union {b} ELSE wrote[q]
    BY <2>1 DEF IInv, TypeOK, InOp
  <2>3. /\ Len(header) \in Nat
        /\ Len(header') = IF Absorbed(b) THEN Len(header) ELSE Len(header) + 1
        /\ Logged(header') = Logged(header) \union {b}
    BY <2>1, AppendHeader DEF IInv, TypeOK, Absorbed
  <2>4. IsFiniteSet(wrote[p] \union {b})
    BY <1>1, FS_AddElement, Zenon DEF RInv, WroteInv
  <2>5. WroteInv'
    BY <1>1, <2>1, <2>2, <2>3, <2>4 DEF RInv, WroteInv
  <2>6. b \in wrote[p] => Absorbed(b)
    BY <1>1 DEF RInv, WroteInv, Absorbed
  <2>7. /\ Cardinality(Written) \in Nat
        /\ Cardinality(Written') =
             IF b \in wrote[p] THEN Cardinality(Written) ELSE Cardinality(Written) + 1
    <3>1. IsFiniteSet(InOp) /\ \A q \in InOp : IsFiniteSet(wrote[q])
      BY InOpFinite DEF RInv, WroteInv
    <3>2. Cardinality(Written) \in Nat
      BY <3>1, PairsFinite DEF Written
    <3>3. Written' = Pairs(InOp, wrote')
      BY <1>1 DEF Written
    <3>4. Cardinality(Written') =
            IF b \in wrote[p] THEN Cardinality(Written) ELSE Cardinality(Written) + 1
      <4> DEFINE S == InOp
                 w == wrote
                 v2 == wrote'
      <4>1. /\ IsFiniteSet(S) /\ p \in S /\ \A q \in S : IsFiniteSet(w[q])
            /\ v2[p] = w[p] \union {b} /\ \A q \in S \ {p} : v2[q] = w[q]
        BY <1>1, <2>2, <3>1, Zenon
      <4> HIDE DEF S, w, v2
      <4>2. /\ b \in w[p] => Cardinality(Pairs(S, v2)) = Cardinality(Pairs(S, w))
            /\ b \notin w[p] => Cardinality(Pairs(S, v2)) = Cardinality(Pairs(S, w)) + 1
        BY <4>1, PairAdded
      <4> QED
        BY <3>3, <4>2, Zenon DEF Written, S, w, v2
    <3> QED
      BY <3>2, <3>4
  <2>8. ReservationHolds'
    <3>1. /\ Len(header') \in {Len(header), Len(header) + 1}
          /\ b \in wrote[p] => Len(header') = Len(header)
      BY <2>3, <2>6, Zenon
    <3>2. MAXOPBLOCKS * Cardinality(InOp) \in Nat /\ LOGSIZE \in Nat
      BY InOpFinite, LogAssumption, LogsizeType
    <3>3. Len(header) + MAXOPBLOCKS * Cardinality(InOp) <= LOGSIZE + Cardinality(Written)
      BY Zenon DEF RInv, ReservationHolds
    <3>4. Len(header') + MAXOPBLOCKS * Cardinality(InOp) <= LOGSIZE + Cardinality(Written')
      BY <2>3, <2>7, <3>1, <3>2, <3>3
    <3> QED
      BY <1>1, <3>4, Zenon DEF ReservationHolds
  <2> QED
    BY <2>5, <2>8 DEF RInv
<1> QED
  BY <1>2, <1>3

\* end_op gives back what its call has not used.
LEMMA EndOpReserves ==
  ASSUME IInv, RInv, NEW p \in Procs, EndOp(p)
  PROVE  RInv'
<1>1. ~committing /\ UNCHANGED <<header, wrote>> /\ pc[p] = "in_op"
  BY InOpIsRunning DEF EndOp
<1>2. \A q \in Procs : pc'[q] = "in_op" <=> q # p /\ pc[q] = "in_op"
  BY <1>1 DEF EndOp, Wakeup, IInv, TypeOK
<1>3. InOp' = InOp \ {p} /\ Cardinality(InOp') = Cardinality(InOp) - 1 /\ p \in InOp
  BY <1>1, <1>2, LeaveOp DEF IInv, InOp
<1>4. Logged(header') = Logged(header)
  BY <1>1 DEF Logged
<1>5. WroteInv'
  BY <1>1, <1>3, <1>4 DEF RInv, WroteInv
<1>6. /\ Cardinality(Written) \in Nat
      /\ Cardinality(Written') \in Nat
      /\ Cardinality(Written) = Cardinality(Written') + Cardinality(wrote[p])
  <2>1. IsFiniteSet(InOp) /\ \A q \in InOp : IsFiniteSet(wrote[q])
    BY InOpFinite DEF RInv, WroteInv
  <2>2. IsFiniteSet(InOp \ {p}) /\ \A q \in InOp \ {p} : IsFiniteSet(wrote[q])
    BY <2>1, FS_RemoveElement
  <2>3. Written' = Pairs(InOp \ {p}, wrote)
    BY <1>1, <1>3 DEF Written
  <2>4. Cardinality(Written') \in Nat
    BY <2>2, <2>3, PairsFinite
  <2>5. Cardinality(Written) \in Nat
    BY <2>1, PairsFinite DEF Written
  <2>6. Cardinality(Written) = Cardinality(Written') + Cardinality(wrote[p])
    BY <1>3, <2>1, <2>3, PairsGone DEF Written
  <2> QED
    BY <2>4, <2>5, <2>6
<1>7. Cardinality(wrote[p]) <= MAXOPBLOCKS /\ Cardinality(wrote[p]) \in Nat
  BY <1>3, FS_CardinalityType DEF RInv, WroteInv
<1>8. Len(header) \in Nat
  BY DEF IInv, TypeOK
<1>9. ReservationHolds'
  BY <1>1, <1>3, <1>6, <1>7, <1>8, InOpFinite, LogAssumption, LogsizeType
     DEF RInv, ReservationHolds
<1> QED
  BY <1>5, <1>9 DEF RInv

\* A commit, a recovery and a power loss run with no call in progress, so the
\* reservation only says that the header fits.
LEMMA IdleReserves ==
  ASSUME IInv, IInv', InOp' = {}
  PROVE  RInv'
<1>1. Len(header') \in Nat /\ Len(header') <= LOGSIZE
  BY DEF IInv, TypeOK, HeaderFits
<1> QED
  BY <1>1, NoneReserved

\* In the phases of commit and recovery no call is in progress.
LEMMA PhaseIsIdle ==
  ASSUME IInv, phase \in CommitPhases \union BootPhases
  PROVE  InOp = {}
<1>1. outstanding = 0
  BY DEF IInv, PhaseInv, OutstandingCounts, Up
<1> QED
  BY <1>1, InOpFinite DEF IInv, OutstandingCounts

\* Every step of the log keeps the reservation.
LEMMA NextReserves == IInv /\ IInv' /\ RInv /\ [Next]_vars => RInv'
<1> SUFFICES ASSUME IInv, IInv', RInv, [Next]_vars PROVE RInv'
  OBVIOUS
<1>1. ASSUME NEW p \in Procs, BeginOp(p) PROVE RInv'
  BY <1>1, BeginOpReserves
<1>2. ASSUME NEW p \in Procs, EndOp(p) PROVE RInv'
  BY <1>2, EndOpReserves
<1>3. ASSUME NEW p \in Procs, NEW b \in Blocks, NEW v \in Vals, Write(p, b, v) PROVE RInv'
  BY <1>3, WriteReserves
<1>4. ASSUME phase \in CommitPhases \union BootPhases,
             \A p \in Procs : pc'[p] = "in_op" => pc[p] = "in_op"
      PROVE  RInv'
  <2>1. InOp' = {}
    BY <1>4, PhaseIsIdle DEF InOp
  <2> QED
    BY <2>1, IdleReserves
<1>5. CASE Commit
  <2>1. CASE WriteLog \/ WriteHead \/ Install \/ Clear
    BY <1>4, <2>1 DEF WriteLog, WriteHead, Install, Clear, EraseHead, CommitPhases
  <2>2. ASSUME NEW p \in Procs, Finish(p) PROVE RInv'
    BY <1>4, <2>2 DEF Finish, Wakeup, CommitPhases, IInv, TypeOK
  <2> QED
    BY <1>5, <2>1, <2>2 DEF Commit
<1>6. CASE Recover
  BY <1>4, <1>6 DEF Recover, ReadHead, RecoverInstall, RecoverClear, EraseHead, BootPhases
<1>7. ASSUME NEW b \in Blocks, Recycle(b) PROVE RInv'
  BY <1>7, SameReserved DEF Recycle, InOp
<1>8. CASE Crash \/ CrashMidWrite
  <2>1. InOp' = {}
    BY <1>8 DEF Crash, CrashMidWrite, PowerLoss, InOp
  <2> QED
    BY <2>1, IdleReserves
<1>9. CASE UNCHANGED vars
  BY <1>9, SameReserved DEF vars, InOp
<1> QED
  BY <1>1, <1>2, <1>3, <1>5, <1>6, <1>7, <1>8, <1>9 DEF Next

\* The reservation holds when the machine is switched on.
LEMMA InitReserves == Init => RInv
<1> SUFFICES ASSUME Init PROVE RInv
  OBVIOUS
<1>1. InOp = {} /\ header = <<>>
  BY DEF Init, InOp
<1>2. Written = {}
  BY <1>1 DEF Written, Pairs
<1> QED
  BY <1>1, <1>2, FS_EmptySet, LogAssumption, LogsizeType DEF RInv, WroteInv, ReservationHolds

LEMMA RInvInvariant == Spec => []RInv
BY InitReserves, NextReserves, IInvInvariant, PTL DEF Spec

\* begin_op's test `n + (outstanding + 1) * MAXOPBLOCKS > LOGSIZE` (log.rs:63)
\* is enough, for any number of calls in progress: what is in the header and
\* what they may still add fit in the log.
THEOREM LogReservationHolds == Spec => []ReservationHolds
<1>1. RInv => ReservationHolds
  BY DEF RInv
<1> QED
  BY <1>1, RInvInvariant, PTL

\* With the log area that mkfs makes, LOGSIZE blocks and the header one of them
\* (mkfs main.rs:26), LOG.write does not meet any of its panics (log.rs:87-92)
\* in a call that has written at most MAXOPBLOCKS - 2 blocks so far.  A call
\* that has written MAXOPBLOCKS - 1 may: the area has one slot less than
\* LOGSIZE, and a block that is written again counts like a new one.
WriteFits ==
  \A p \in Procs, b \in Blocks, v \in Vals :
    /\ Write(p, b, v)
    /\ NLOG >= LOGSIZE
    /\ Cardinality(wrote[p]) + 2 <= MAXOPBLOCKS
    => ~WriteRefused

\* begin_op's reservation spares every write of a call its panics, but those
\* after its last block but one: for any number of calls in progress.
THEOREM LogWriteFits == Spec => [][WriteFits]_vars
<1>1. IInv /\ RInv => WriteFits
  <2> SUFFICES ASSUME IInv, RInv, NEW p \in Procs, NEW b \in Blocks, NEW v \in Vals,
                      Write(p, b, v), NLOG >= LOGSIZE,
                      Cardinality(wrote[p]) + 2 <= MAXOPBLOCKS
               PROVE  ~WriteRefused
    BY DEF WriteFits
  <2>1. p \in InOp /\ IsFiniteSet(wrote[p]) /\ IsFiniteSet(InOp)
    BY InOpFinite DEF Write, InOp, RInv, WroteInv
  <2>2. Cardinality(Written) + 2 <= MAXOPBLOCKS * Cardinality(InOp)
    <3> DEFINE V == Pairs(InOp \ {p}, wrote)
    <3>1. IsFiniteSet(InOp \ {p}) /\ Cardinality(InOp \ {p}) = Cardinality(InOp) - 1
      BY <2>1, FS_RemoveElement, Zenon
    <3>2. \A q \in InOp : IsFiniteSet(wrote[q]) /\ Cardinality(wrote[q]) <= MAXOPBLOCKS
      BY DEF RInv, WroteInv
    <3>3. Cardinality(V) <= MAXOPBLOCKS * Cardinality(InOp \ {p}) /\ Cardinality(V) \in Nat
      BY <3>1, <3>2, PairsBounded, PairsFinite, LogAssumption
    <3>4. Cardinality(Written) = Cardinality(V) + Cardinality(wrote[p])
      BY <2>1, <3>2, PairsGone DEF Written
    <3>5. Cardinality(wrote[p]) \in Nat
      BY <2>1, FS_CardinalityType
    <3> HIDE DEF V
    <3> QED
      BY <3>1, <3>3, <3>4, <3>5, InOpFinite, LogAssumption
  <2>3. Cardinality(Written) \in Nat
    BY <2>1, PairsFinite DEF RInv, WroteInv, Written
  <2>4. Len(header) \in Nat
    BY DEF IInv, TypeOK
  <2>5. Len(header) + 2 <= LOGSIZE
    BY <2>2, <2>3, <2>4, InOpFinite, LogAssumption, LogsizeType DEF RInv, ReservationHolds
  <2>6. Cardinality(InOp) >= 1
    <3>1. Cardinality(InOp) # 0
      BY <2>1, FS_EmptySet
    <3> QED
      BY <2>1, <3>1, FS_CardinalityType
  <2>7. outstanding >= 1
    BY <2>6 DEF IInv, OutstandingCounts
  <2> QED
    BY <2>4, <2>5, <2>7, LogAssumption, LogsizeType DEF WriteRefused, IInv, TypeOK
<1> QED
  BY <1>1, IInvInvariant, RInvInvariant, PTL

-----------------------------------------------------------------------------
(***************************************************************************)
(* The log implements AtomicDisk.                                          *)
(***************************************************************************)

\* An empty header leaves the disk as it is.
LEMMA RecoverNothing ==
  ASSUME NEW d \in [Blocks -> Contents], NEW l
  PROVE  RecoverFrom(d, l, <<>>) = d
<1>1. Logged(<<>>) = {}
  BY DEF Logged
<1> QED
  BY <1>1 DEF RecoverFrom

\* Recovery looks at the slots the header names and at the home of no block
\* it names.
LEMMA RecoverSame ==
  ASSUME NEW h \in Seq(Blocks), NEW d, NEW l, NEW d2, NEW l2,
         \A i \in 1..Len(h) : l2[i] = l[i],
         \A b \in Blocks : b \notin Logged(h) => d2[b] = d[b]
  PROVE  RecoverFrom(d2, l2, h) = RecoverFrom(d, l, h)
<1>1. ASSUME NEW b \in Logged(h) PROVE SlotOf(h, b) \in 1..Len(h)
  BY <1>1 DEF Logged, SlotOf
<1> QED
  BY <1>1 DEF RecoverFrom

\* Recovery yields the image c when the log holds c's copy of the blocks the
\* header names, and the disk holds c's copy of the others.
LEMMA RecoverImage ==
  ASSUME NEW h \in Seq(Blocks), NEW d, NEW l, NEW c \in [Blocks -> Contents],
         \A i \in 1..Len(h) : l[i] = c[h[i]],
         \A b \in Blocks : b \notin Logged(h) => d[b] = c[b]
  PROVE  RecoverFrom(d, l, h) = c
<1>1. ASSUME NEW b \in Logged(h)
      PROVE  SlotOf(h, b) \in 1..Len(h) /\ h[SlotOf(h, b)] = b
  BY <1>1 DEF Logged, SlotOf
<1>2. ASSUME NEW b \in Logged(h) PROVE l[SlotOf(h, b)] = c[b]
  BY <1>1, <1>2
<1> QED
  BY <1>2 DEF RecoverFrom

\* The initial state is one of AtomicDisk.
LEMMA InitRefines == Init => AD!Init
<1> SUFFICES ASSUME Init PROVE AD!Init
  OBVIOUS
<1>1. disk \in [Blocks -> Contents]
  BY LogAssumption DEF Init, Contents
<1>2. Recovered = disk
  BY <1>1, RecoverNothing DEF Init, Recovered
<1>3. InOp = {}
  BY DEF Init, InOp
<1> QED
  BY <1>2, <1>3 DEF Init, AD!Init, BootPhases

\* While the log is not committing, recovery would bring back the disk.
LEMMA RecoveredIsDisk ==
  ASSUME IInv, dhead = <<>>
  PROVE  Recovered = disk
BY RecoverNothing, Zenon DEF IInv, TypeOK, Recovered

\* The abstract state changes only as its parts do.
LEMMA AbstractStutter ==
  ASSUME Recovered' = Recovered, InOp' = InOp, cache' = cache,
         phase \in BootPhases <=> phase' \in BootPhases
  PROVE  UNCHANGED AD!vars
BY DEF AD!vars

\* begin_op is a Begin of AtomicDisk, or nothing that it sees.
LEMMA BeginOpRefines ==
  ASSUME IInv, NEW p \in Procs, BeginOp(p)
  PROVE  AD!Begin(p) \/ UNCHANGED AD!vars
<1>1. UNCHANGED <<disk, dlog, dhead, cache, phase>>
  BY DEF BeginOp, diskVars
<1>2. Recovered' = Recovered
  BY <1>1 DEF Recovered
<1>3. CASE MustWait
  <2>1. InOp' = InOp
    BY <1>3 DEF BeginOp, InOp, IInv, TypeOK
  <2> QED
    BY <1>1, <1>2, <2>1, AbstractStutter
<1>4. CASE ~MustWait
  <2>1. InOp' = InOp \union {p} /\ p \notin InOp
    BY <1>4, EnterOp, Zenon DEF BeginOp, InOp, IInv
  <2>2. phase = "run" /\ phase \notin BootPhases
    BY <1>4 DEF MustWait, BeginOp, Up, IInv, PhaseInv, TypeOK, BootPhases
  <2>3. ASSUME InOp = {} PROVE cache = Recovered
    <3>1. header = <<>> /\ dhead = <<>>
      BY <2>2, <2>3 DEF IInv, PhaseInv
    <3>2. Uninstalled = {} /\ Up
      BY <2>2, <3>1 DEF Uninstalled, Logged, Up
    <3>3. \A b \in Blocks : pin[b] = 0
      BY <3>2 DEF IInv, PinsBalance
    <3>4. \A b \in Blocks : cache[b] = disk[b]
      BY <3>2, <3>3 DEF IInv, DirtyIsPinned
    <3>5. cache = disk
      BY <3>4 DEF IInv, TypeOK
    <3> QED
      BY <3>1, <3>5, RecoveredIsDisk
  <2> QED
    BY <1>1, <1>2, <2>1, <2>2, <2>3 DEF AD!Begin
<1> QED
  BY <1>3, <1>4

\* LOG.write is a Write of AtomicDisk.
LEMMA WriteRefines ==
  ASSUME IInv, NEW p \in Procs, NEW b \in Blocks, NEW v \in Vals, Write(p, b, v)
  PROVE  AD!Write(p, b, v) \/ UNCHANGED AD!vars
<1>1. UNCHANGED <<disk, dlog, dhead, pc>>
  BY DEF Write, diskVars
<1>2. Recovered' = Recovered /\ InOp' = InOp /\ p \in InOp
  BY <1>1 DEF Recovered, InOp, Write
<1>3. phase \notin BootPhases /\ phase' \notin BootPhases
  BY DEF Write, Up, BootPhases, CommitPhases
<1>4. \/ UNCHANGED cache
      \/ cache' = [cache EXCEPT ![b] = v]
  BY DEF Write
<1> QED
  BY <1>2, <1>3, <1>4, AbstractStutter DEF AD!Write

\* end_op is an End of AtomicDisk.
LEMMA EndOpRefines ==
  ASSUME IInv, NEW p \in Procs, EndOp(p)
  PROVE  AD!End(p)
<1>1. ~committing /\ phase = "run" /\ UNCHANGED <<disk, dlog, dhead, cache>>
  BY InOpIsRunning DEF EndOp, Up, CommitPhases, diskVars
<1>2. \A q \in Procs : pc'[q] = "in_op" <=> q # p /\ pc[q] = "in_op"
  BY <1>1 DEF EndOp, Wakeup, IInv, TypeOK
<1>3. InOp' = InOp \ {p} /\ p \in InOp
  BY <1>2 DEF InOp, EndOp
<1>4. Recovered' = Recovered
  BY <1>1 DEF Recovered
<1>5. phase \notin BootPhases /\ phase' \notin BootPhases
  BY <1>1 DEF EndOp, CommitStart, BootPhases
<1> QED
  BY <1>1, <1>3, <1>4, <1>5 DEF AD!End

\* write_head is the commit point: the log and the disk together hold the
\* cached image, and nobody is in the middle of a system call.
LEMMA WriteHeadRefines ==
  ASSUME IInv, WriteHead
  PROVE  AD!Commit
<1> USE DEF IInv
<1>1. /\ phase = "write_head" /\ phase' = "install" /\ dhead' = header
      /\ UNCHANGED <<disk, dlog, cache, header, pc>>
  BY DEF WriteHead
<1>2. InOp = {} /\ InOp' = {}
  BY <1>1, InOpFinite DEF OutstandingCounts, PhaseInv, Up, CommitPhases, InOp
<1>3. \A b \in Blocks : b \notin Logged(header) => disk[b] = cache[b]
  BY <1>1 DEF PinsBalance, DirtyIsPinned, Uninstalled, Up, CommitPhases
<1>4. Recovered' = cache
  <2>1. /\ header \in Seq(Blocks) /\ cache \in [Blocks -> Contents]
        /\ \A i \in 1..Len(header) : dlog[i] = cache[header[i]]
    BY <1>1 DEF TypeOK, SlotsInv
  <2> QED
    BY <1>1, <1>3, <2>1, RecoverImage DEF Recovered
<1> QED
  BY <1>1, <1>2, <1>4 DEF AD!Commit, BootPhases

\* The other steps of commit() change nothing a reader or a crash could see.
LEMMA WriteLogRefines ==
  ASSUME IInv, WriteLog
  PROVE  UNCHANGED AD!vars
<1>1. /\ phase = "write_log" /\ phase' \in {"write_log", "write_head"}
      /\ UNCHANGED <<disk, dhead, cache, pc>>
  BY DEF WriteLog
<1>2. dhead = <<>>
  BY <1>1 DEF IInv, PhaseInv
<1>3. Recovered' = Recovered
  BY <1>1, <1>2, RecoverNothing, Zenon DEF Recovered, IInv, TypeOK
<1> QED
  BY <1>1, <1>3, AbstractStutter DEF InOp, BootPhases

\* A step of install_trans, in commit or in recovery: the block it overwrites
\* is one the header on disk still names.
LEMMA InstallBlockRecovered ==
  ASSUME IInv, phase \in {"install", "recover"}, NEW next, InstallBlock(next),
         UNCHANGED <<dlog, dhead>>
  PROVE  Recovered' = Recovered
<1>1. dhead = header /\ dhead \in Seq(Blocks)
  BY DEF IInv, PhaseInv, TypeOK
<1>2. header[tail + 1] \in Logged(header)
  BY InstallBlockStep DEF Logged
<1>3. \A b \in Blocks : b \notin Logged(dhead) => disk'[b] = disk[b]
  BY <1>1, <1>2, InstallBlockStep
<1> QED
  BY <1>1, <1>3, RecoverSame DEF Recovered

\* install_trans changes nothing that AtomicDisk sees.
LEMMA InstallRefines ==
  ASSUME IInv, Install
  PROVE  UNCHANGED AD!vars
<1>1. /\ phase = "install" /\ InstallBlock("clear") /\ UNCHANGED <<dlog, dhead, pc>>
      /\ phase' \in {"install", "clear"}
  BY DEF Install, InstallBlock
<1>2. cache' = cache
  <2>1. /\ cache \in [Blocks -> Contents] /\ cache' \in [Blocks -> Contents]
        /\ cache[header[tail + 1]] = dlog[tail + 1]
    BY <1>1, InstallBlockStep DEF IInv, TypeOK, SlotsInv
  <2> QED
    BY <1>1, <2>1, InstallBlockStep
<1>3. Recovered' = Recovered
  BY <1>1, InstallBlockRecovered
<1> QED
  BY <1>1, <1>2, <1>3, AbstractStutter DEF InOp, BootPhases

\* Nor does its round during recovery.
LEMMA RecoverInstallRefines ==
  ASSUME IInv, RecoverInstall
  PROVE  UNCHANGED AD!vars
<1>1. /\ phase = "recover" /\ InstallBlock("rec_clear") /\ UNCHANGED <<dlog, dhead, pc>>
      /\ phase' \in {"recover", "rec_clear"}
  BY DEF RecoverInstall, InstallBlock
<1>2. Recovered' = Recovered
  BY <1>1, InstallBlockRecovered
<1> QED
  BY <1>1, <1>2 DEF AD!vars, InOp, BootPhases

\* Erasing the header loses nothing: every block it names is at home.
LEMMA EraseHeadRefines ==
  ASSUME IInv, Clear \/ RecoverClear
  PROVE  UNCHANGED AD!vars
<1> USE DEF IInv
<1>1. /\ \/ phase = "clear" /\ phase' = "finish"
         \/ phase = "rec_clear" /\ phase' = "run"
      /\ dhead' = <<>> /\ UNCHANGED <<disk, dlog, cache, pc>>
  BY DEF Clear, RecoverClear, EraseHead
<1>2. Recovered = disk
  <2>1. /\ dhead = header /\ dhead \in Seq(Blocks) /\ disk \in [Blocks -> Contents]
        /\ \A i \in 1..Len(dhead) : dlog[i] = disk[dhead[i]]
    BY <1>1 DEF PhaseInv, TypeOK, SlotsInv
  <2> QED
    BY <2>1, RecoverImage DEF Recovered
<1>3. Recovered' = disk
  BY <1>1, RecoverNothing, Zenon DEF Recovered, TypeOK
<1>4. phase = "rec_clear" => cache = disk
  BY DEF PhaseInv, BootPhases
<1> QED
  BY <1>1, <1>2, <1>3, <1>4 DEF AD!vars, InOp, BootPhases

\* A power loss, even one that tears a block, leaves recovery what it had.
LEMMA CrashRefines ==
  ASSUME IInv, Crash \/ CrashMidWrite
  PROVE  AD!Crash
<1> USE DEF IInv
<1>1. UNCHANGED dhead /\ phase' = "boot" /\ InOp' = {}
  BY DEF Crash, CrashMidWrite, PowerLoss, InOp
<1>2. CASE Crash
  BY <1>1, <1>2 DEF Crash, PowerLoss, Recovered, AD!Crash, BootPhases
<1>3. CASE phase = "write_log" /\ PowerLoss(disk, [dlog EXCEPT ![tail + 1] = Torn])
  <2>1. dhead = <<>> /\ disk \in [Blocks -> Contents] /\ disk' = disk
    BY <1>3 DEF PhaseInv, TypeOK, PowerLoss
  <2>2. Recovered' = Recovered
    BY <1>1, <2>1, RecoverNothing DEF Recovered
  <2> QED
    BY <1>1, <2>2 DEF AD!Crash, BootPhases
<1>4. CASE /\ phase \in {"install", "recover"}
           /\ PowerLoss([disk EXCEPT ![header[tail + 1]] = Torn], dlog)
  <2>1. dhead = header /\ dhead \in Seq(Blocks) /\ tail + 1 \in 1..Len(header)
    BY <1>4 DEF PhaseInv, TypeOK
  <2>2. header[tail + 1] \in Logged(dhead)
    BY <2>1 DEF Logged
  <2>3. dlog' = dlog /\ disk' = [disk EXCEPT ![header[tail + 1]] = Torn]
    BY <1>4 DEF PowerLoss
  <2>4. \A b \in Blocks : b \notin Logged(dhead) => disk'[b] = disk[b]
    BY <2>2, <2>3 DEF TypeOK
  <2>5. Recovered' = Recovered
    <3>1. \A i \in 1..Len(dhead) : dlog'[i] = dlog[i]
      BY <2>3
    <3>2. RecoverFrom(disk', dlog', dhead) = RecoverFrom(disk, dlog, dhead)
      BY <2>1, <2>4, <3>1, RecoverSame
    <3> QED
      BY <1>1, <3>2 DEF Recovered
  <2> QED
    BY <1>1, <2>5 DEF AD!Crash, BootPhases
<1> QED
  BY <1>2, <1>3, <1>4 DEF CrashMidWrite

\* Every step of the log is a step of AtomicDisk or a stutter.
LEMMA StepRefines ==
  ASSUME IInv, [Next]_vars
  PROVE  [AD!Next]_(AD!vars)
<1>1. ASSUME NEW p \in Procs, BeginOp(p) PROVE [AD!Next]_(AD!vars)
  BY <1>1, BeginOpRefines DEF AD!Next
<1>2. ASSUME NEW p \in Procs, EndOp(p) PROVE [AD!Next]_(AD!vars)
  BY <1>2, EndOpRefines DEF AD!Next
<1>3. ASSUME NEW p \in Procs, NEW b \in Blocks, NEW v \in Vals, Write(p, b, v)
      PROVE  [AD!Next]_(AD!vars)
  BY <1>3, WriteRefines DEF AD!Next
<1>4. ASSUME NEW p \in Procs, Finish(p) PROVE UNCHANGED AD!vars
  <2>1. phase = "finish" /\ phase' = "run" /\ UNCHANGED <<disk, dlog, dhead, cache>>
    BY <1>4 DEF Finish, diskVars
  <2>2. \A q \in Procs : pc'[q] = "in_op" <=> pc[q] = "in_op"
    <3>1. pc[p] = "commit" /\ pc' = Wakeup(p, GuardAddr(p), [pc EXCEPT ![p] = "user"])
      BY <1>4 DEF Finish
    <3> QED
      BY <3>1 DEF Wakeup, IInv, TypeOK
  <2>3. InOp' = InOp /\ Recovered' = Recovered
    BY <2>1, <2>2 DEF InOp, Recovered
  <2> QED
    BY <2>1, <2>3, AbstractStutter DEF BootPhases
<1>5. CASE Commit
  BY <1>4, <1>5, WriteLogRefines, WriteHeadRefines, InstallRefines, EraseHeadRefines
     DEF Commit, AD!Next
<1>6. CASE ReadHead
  <2>1. /\ phase = "boot" /\ phase' \in {"rec_clear", "recover"}
        /\ UNCHANGED <<disk, dlog, dhead, cache, pc>>
    BY <1>6 DEF ReadHead, diskVars
  <2> QED
    BY <2>1, AbstractStutter DEF Recovered, InOp, BootPhases
<1>7. CASE Recover
  BY <1>6, <1>7, RecoverInstallRefines, EraseHeadRefines DEF Recover
<1>8. CASE UNCHANGED vars
  BY <1>8, AbstractStutter DEF vars, Recovered, InOp
<1>9. ASSUME NEW b \in Blocks, Recycle(b) PROVE [AD!Next]_(AD!vars)
  BY <1>8, <1>9, RecycleStutters
<1>10. CASE Crash \/ CrashMidWrite
  BY <1>10, CrashRefines DEF AD!Next
<1> QED
  BY <1>1, <1>2, <1>3, <1>5, <1>7, <1>8, <1>9, <1>10 DEF Next

\* The write-ahead log of log.rs implements the atomic disk: what recovery
\* would bring back changes only when a whole group of system calls commits.
THEOREM LogImplementsAtomicDisk == Spec => CrashAtomicity
<1>1. Init => AD!Init
  BY InitRefines
<1>2. IInv /\ [Next]_vars => [AD!Next]_(AD!vars)
  BY StepRefines
<1> QED
  BY <1>1, <1>2, IInvInvariant, PTL DEF Spec, CrashAtomicity, AD!Spec

-----------------------------------------------------------------------------
(***************************************************************************)
(* What the log guarantees to the system calls that keep its protocol:     *)
(* when every call ends its operation on every way out, their composition  *)
(* with the log has only steps of the log, and inherits what is shown      *)
(* above.                                                                  *)
(***************************************************************************)
\* Every call that processes make reaches end_op, with success and with an
\* error.
BalancedCalls == \A c \in Calls, ok \in BOOLEAN : EndsOp(c, ok)

\* With balanced calls a step of a system call is a step of the log.
LEMMA BalancedStep ==
  ASSUME BalancedCalls, [FsNext]_vars
  PROVE  [Next]_vars
<1>1. ASSUME NEW p \in Procs, NEW c \in Calls, NEW ok \in BOOLEAN, Return(p, c, ok)
      PROVE  EndOp(p)
  BY <1>1 DEF BalancedCalls, Return
<1> QED
  BY <1>1 DEF FsNext, Next

\* So the behaviours of the calls are behaviours of the log.
LEMMA BalancedIsLog ==
  ASSUME BalancedCalls
  PROVE  FsSpec => Spec
<1>1. [FsNext]_vars => [Next]_vars
  BY BalancedStep
<1> QED
  BY <1>1, PTL DEF FsSpec, Spec

\* Balanced system calls are atomic across power loss: what recovery brings
\* back has all the writes of a group of calls or none of them.
THEOREM BalancedCallsAreAtomic ==
  ASSUME BalancedCalls
  PROVE  FsSpec => CrashAtomicity
BY BalancedIsLog, LogImplementsAtomicDisk, PTL

\* The invariant of the log leaves nothing behind once the last call has ended.
LEMMA QuietFromIInv == IInv => QuietIsCommitted
<1> SUFFICES ASSUME IInv, phase = "run", InOp = {}
             PROVE  header = <<>> /\ disk = cache
  BY DEF QuietIsCommitted
<1>1. header = <<>>
  BY DEF IInv, PhaseInv
<1>2. \A b \in Blocks : pin[b] = 0
  BY <1>1 DEF IInv, PinsBalance, Uninstalled, Logged, Up
<1>3. \A b \in Blocks : cache[b] = disk[b]
  BY <1>2 DEF IInv, DirtyIsPinned, Up
<1> QED
  BY <1>1, <1>3 DEF IInv, TypeOK

\* After the last of a group of balanced calls, all that they wrote is on the
\* disk and the log is empty: end_op "commits if this was the last outstanding
\* operation" (log.rs:116).
THEOREM BalancedCallsCommit ==
  ASSUME BalancedCalls
  PROVE  FsSpec => []QuietIsCommitted
BY BalancedIsLog, IInvInvariant, QuietFromIInv, PTL

\* Balanced calls keep the log's reservation, however they overlap.
THEOREM BalancedCallsReserve ==
  ASSUME BalancedCalls
  PROVE  FsSpec => []ReservationHolds
BY BalancedIsLog, LogReservationHolds, PTL
=============================================================================
