------------------------------- MODULE Virtio -------------------------------
(***************************************************************************)
(* The disk driver (virtio.rs) and the device it talks to: three           *)
(* descriptors per request, the avail ring the driver fills, the used ring *)
(* the device fills, the interrupt, and processes that sleep for           *)
(* descriptors or for the end of their request.                            *)
(*                                                                         *)
(* A process has at most one request, for its own buffer.  Steps of the    *)
(* driver run under the spinlock DISK, so each is atomic for the others;   *)
(* the interrupt handler's loop is one step per used entry, and the device *)
(* may act at any time.                                                    *)
(***************************************************************************)
EXTENDS Naturals, FiniteSets, FiniteSetsExt, Sequences

CONSTANTS
  Procs,
  NUM,       \* descriptors
  U16,       \* the range of the rings' 16 bit indexes, 65536 in the code
  U32,       \* the range of used_idx, 2^32 in the code
  None,
  MaxReqs    \* bound: requests of all processes

ASSUME VirtioAssumption ==
  /\ NUM \in Nat /\ NUM >= 3
  /\ U16 \in Nat /\ U16 >= NUM /\ U16 % NUM = 0
  /\ U32 \in Nat /\ U32 > U16 /\ U32 % U16 = 0
  /\ MaxReqs \in Nat
  /\ None \notin Procs \union (0..NUM)

Descs == 0..NUM - 1

VARIABLES
  free,      \* Disk.free
  desc,      \* Disk.desc: the buffer's owner, or None, and the link
  info,      \* Disk.info: `disk`, `buf_chan`, and whether `status` is 0
  avail,     \* Disk.avail: idx and ring
  used,      \* Disk.used: idx and ring
  used_idx,  \* Disk.used_idx, 32 bits
  irq,       \* the device's interrupt is pending
  intr,      \* the handler runs, with DISK locked
  taken,     \* the device's own place in the avail ring
  work,      \* chains the device works on
  served,    \* processes whose buffer the device has transferred
  pc,        \* where a process is
  idx,       \* the three descriptors of its request
  reqs,      \* requests so far
  short,     \* history: alloc3_desc has failed with one or two descriptors in hand
  panic      \* an assertion of the driver has failed

deviceVars == <<taken, work, served>>
vars == <<free, desc, info, avail, used, used_idx, irq, intr, taken, work, served, pc,
          idx, reqs, short, panic>>

NoDesc == [addr |-> None, next |-> 0, more |-> FALSE]

Init ==
  /\ free = [i \in Descs |-> TRUE]
  /\ desc = [i \in Descs |-> NoDesc]
  /\ info = [i \in Descs |-> [disk |-> FALSE, chan |-> None, ok |-> TRUE]]
  /\ avail = [idx |-> 0, ring |-> [i \in Descs |-> 0]]
  /\ used = [idx |-> 0, ring |-> [i \in Descs |-> 0]]
  /\ used_idx = 0
  /\ irq = FALSE /\ intr = FALSE
  /\ taken = 0
  /\ work = {}
  /\ served = {}
  /\ pc = [p \in Procs |-> "idle"]
  /\ idx = [p \in Procs |-> <<>>]
  /\ reqs = 0
  /\ short = FALSE /\ panic = FALSE

-----------------------------------------------------------------------------
(***************************************************************************)
(* Descriptors.                                                            *)
(***************************************************************************)

\* The descriptors alloc3_desc gets, lowest first, at most three.
Got ==
  LET F == {i \in Descs : free[i]}
      a == Min(F)
      b == Min(F \ {a})
  IN IF Cardinality(F) = 0 THEN <<>>
     ELSE IF Cardinality(F) = 1 THEN <<a>>
     ELSE IF Cardinality(F) = 2 THEN <<a, b>>
     ELSE <<a, b, Min(F \ {a, b})>>

\* After alloc3_desc has failed with k descriptors: they stay allocated, and
\* the descriptors 0..k-1 are freed, whoever has them.
GiveBack(k) == 0..k - 1

\* free_desc on each of the set D; the second free of a descriptor panics.
FreeDescs(f, D) == [i \in Descs |-> f[i] \/ i \in D]

\* The descriptors free_chain frees, in the order of the links.
Chain(i) ==
  IF ~desc[i].more THEN <<i>>
  ELSE LET j == desc[i].next
       IN IF ~desc[j].more THEN <<i, j>> ELSE <<i, j, desc[j].next>>

\* free_desc wakes everyone who waits for descriptors.
WakeDesc(w) == [p \in Procs |-> IF w[p] = "nodesc" THEN "alloc" ELSE w[p]]

-----------------------------------------------------------------------------
(***************************************************************************)
(* rw.                                                                     *)
(***************************************************************************)
RwStart(p) ==
  /\ pc[p] = "idle" /\ reqs < MaxReqs
  /\ reqs' = reqs + 1
  /\ served' = served \ {p}
  /\ pc' = [pc EXCEPT ![p] = "alloc"]
  /\ UNCHANGED <<free, desc, info, avail, used, used_idx, irq, intr, taken, work, idx, short, panic>>

\* The chain's head goes into the ring, and then the index goes up.
Publish(i) ==
  [idx  |-> (avail.idx + 1) % U16,
   ring |-> [avail.ring EXCEPT ![avail.idx % NUM] = i]]

\* Mutant: the request's head is linked to its status.
FormatSkips(p, g) ==
  [desc EXCEPT
    ![g[1]] = [addr |-> None, next |-> g[3], more |-> TRUE],
    ![g[2]] = [addr |-> p, next |-> g[3], more |-> TRUE],
    ![g[3]] = NoDesc]

\* The request, the buffer and the status, in that order.
Format(p, g) ==
  [desc EXCEPT
    ![g[1]] = [addr |-> None, next |-> g[2], more |-> TRUE],
    ![g[2]] = [addr |-> p, next |-> g[3], more |-> TRUE],
    ![g[3]] = NoDesc]

Record(p) == [disk |-> TRUE, chan |-> p, ok |-> FALSE]

\* Three descriptors are there: format them, hand them to the device, sleep.
RwSubmit(p) ==
  LET g == Got
  IN /\ pc[p] = "alloc" /\ ~intr /\ ~panic
     /\ Len(g) = 3
     /\ free' = [i \in Descs |-> free[i] /\ i \notin {g[1], g[2], g[3]}]
     /\ desc' = Format(p, g)
     /\ info' = [info EXCEPT ![g[1]] = Record(p)]
     /\ avail' = Publish(g[1])
     /\ idx' = [idx EXCEPT ![p] = g]
     /\ pc' = [pc EXCEPT ![p] = "sleep"]
     /\ UNCHANGED <<used, used_idx, irq, intr, deviceVars, reqs, short, panic>>

\* There are not: clean up, wake the others, sleep until some are freed.
RwNoDesc(p) ==
  LET k == Len(Got)
  IN /\ pc[p] = "alloc" /\ ~intr /\ ~panic
     /\ k < 3
     /\ free' = FreeDescs([i \in Descs |-> FALSE], GiveBack(k))
     /\ desc' = [i \in Descs |-> IF i \in GiveBack(k) THEN NoDesc ELSE desc[i]]
     /\ pc' = [(IF k = 0 THEN pc ELSE WakeDesc(pc)) EXCEPT ![p] = "nodesc"]
     /\ short' = (short \/ k > 0)
     /\ UNCHANGED <<info, avail, used, used_idx, irq, intr, deviceVars, idx, reqs, panic>>

\* Mutant: the descriptors are not freed.
RwDoneLeaks(p) ==
  LET h == idx[p][1]
  IN /\ pc[p] = "woken" /\ ~intr /\ ~panic
     /\ ~info[h].disk
     /\ info' = [info EXCEPT ![h].chan = None]
     /\ pc' = [pc EXCEPT ![p] = "idle"]
     /\ idx' = [idx EXCEPT ![p] = <<>>]
     /\ UNCHANGED <<free, desc, avail, used, used_idx, irq, intr, deviceVars, reqs, short, panic>>

\* Woken, but `disk` is set: sleep again.
RwAgain(p) ==
  /\ pc[p] = "woken" /\ ~intr /\ ~panic
  /\ info[idx[p][1]].disk
  /\ pc' = [pc EXCEPT ![p] = "sleep"]
  /\ UNCHANGED <<free, desc, info, avail, used, used_idx, irq, intr, deviceVars, idx, reqs,
                 short, panic>>

\* Woken, and the request is done: take buf_chan, free the chain, return.
RwDone(p) ==
  LET h == idx[p][1]
      c == Chain(h)
  IN /\ pc[p] = "woken" /\ ~intr /\ ~panic
     /\ ~info[h].disk
     /\ panic' = (panic \/ info[h].chan # p \/ \E j \in 1..Len(c) : free[c[j]])
     /\ info' = [info EXCEPT ![h].chan = None]
     /\ free' = FreeDescs(free, {c[j] : j \in 1..Len(c)})
     /\ desc' = [i \in Descs |-> IF \E j \in 1..Len(c) : i = c[j] THEN NoDesc ELSE desc[i]]
     /\ pc' = [WakeDesc(pc) EXCEPT ![p] = "idle"]
     /\ idx' = [idx EXCEPT ![p] = <<>>]
     /\ UNCHANGED <<avail, used, used_idx, irq, intr, deviceVars, reqs, short>>

-----------------------------------------------------------------------------
(***************************************************************************)
(* The device takes chains in the order of the avail ring and completes    *)
(* them in any order.                                                      *)
(***************************************************************************)
DeviceTake ==
  /\ taken # avail.idx
  /\ work' = work \union {avail.ring[taken % NUM]}
  /\ taken' = (taken + 1) % U16
  /\ UNCHANGED <<free, desc, info, avail, used, used_idx, irq, intr, served, pc, idx, reqs, short, panic>>

DeviceDone(i) ==
  /\ i \in work
  /\ work' = work \ {i}
  /\ served' = served \union ({desc[desc[i].next].addr} \ {None})
  /\ used' = [idx  |-> (used.idx + 1) % U16,
              ring |-> [used.ring EXCEPT ![used.idx % NUM] = i]]
  /\ info' = [info EXCEPT ![i].ok = TRUE]
  /\ irq' = TRUE
  /\ UNCHANGED <<free, desc, avail, used_idx, intr, taken, pc, idx, reqs, short, panic>>

-----------------------------------------------------------------------------
(***************************************************************************)
(* intr.                                                                   *)
(***************************************************************************)
IntrStart ==
  /\ irq /\ ~intr /\ ~panic
  /\ irq' = FALSE
  /\ intr' = TRUE
  /\ UNCHANGED <<free, desc, info, avail, used, used_idx, deviceVars, pc, idx, reqs, short, panic>>

\* Mutant: the sleeper is not woken.
WakeNobody(chan) == pc
WakeSleeper(chan) == [p \in Procs |-> IF pc[p] = "sleep" /\ p = chan THEN "woken" ELSE pc[p]]

\* A turn of the loop: the request is done, wake who waits for its buffer.
IntrEntry ==
  LET id == used.ring[used_idx % NUM]
  IN /\ intr /\ ~panic /\ used_idx # used.idx
     /\ info' = [info EXCEPT ![id].disk = FALSE]
     /\ IF ~info[id].ok \/ info[id].chan = None
          THEN panic' = TRUE /\ UNCHANGED <<pc, used_idx, intr>>
          ELSE /\ pc' = WakeSleeper(info[id].chan)
               /\ used_idx' = (used_idx + 1) % U32
               /\ UNCHANGED <<panic, intr>>
     /\ UNCHANGED <<free, desc, avail, used, irq, deviceVars, idx, reqs, short>>

IntrEnd ==
  /\ intr /\ ~panic /\ used_idx = used.idx
  /\ intr' = FALSE
  /\ UNCHANGED <<free, desc, info, avail, used, used_idx, irq, deviceVars, pc, idx, reqs, short, panic>>

-----------------------------------------------------------------------------
RwStep(p) == RwSubmit(p) \/ RwNoDesc(p) \/ RwAgain(p) \/ RwDone(p)
Intr == IntrStart \/ IntrEntry \/ IntrEnd

Next ==
  \/ \E p \in Procs : RwStart(p) \/ RwStep(p)
  \/ DeviceTake \/ \E i \in Descs : DeviceDone(i)
  \/ Intr

Spec == Init /\ [][Next]_vars

\* Processes that can go on do, the device answers, interrupts are taken.
Fairness ==
  /\ \A p \in Procs : SF_vars(RwStep(p))
  /\ WF_vars(DeviceTake) /\ \A i \in Descs : WF_vars(DeviceDone(i))
  /\ WF_vars(Intr)
LiveSpec == Spec /\ Fairness

-----------------------------------------------------------------------------
(***************************************************************************)
(* Properties.                                                             *)
(***************************************************************************)

\* Types of Disk and of the processes in rw.
TypeOK ==
  /\ free \in [Descs -> BOOLEAN]
  /\ desc \in [Descs -> [addr : Procs \union {None}, next : Descs, more : BOOLEAN]]
  /\ info \in [Descs -> [disk : BOOLEAN, chan : Procs \union {None}, ok : BOOLEAN]]
  /\ avail \in [idx : 0..U16 - 1, ring : [Descs -> Descs]]
  /\ used \in [idx : 0..U16 - 1, ring : [Descs -> Descs]]
  /\ used_idx \in 0..U32 - 1
  /\ {irq, intr, short, panic} \subseteq BOOLEAN
  /\ taken \in 0..U16 - 1
  /\ work \subseteq Descs
  /\ served \subseteq Procs
  /\ pc \in [Procs -> {"idle", "alloc", "nodesc", "sleep", "woken"}]
  /\ idx \in [Procs -> {<<>>} \union (Descs \X Descs \X Descs)]
  /\ reqs \in 0..MaxReqs

Owns(p) == {idx[p][j] : j \in 1..Len(idx[p])}

\* Every descriptor is free or in exactly one request, none is shared and none
\* leaks, until the first time alloc3_desc fails with one or two in hand: it
\* then frees 0 and 1 in their place (virtio.rs:283).
DescsPartition ==
  short \/
    /\ \A p, q \in Procs : p # q => Owns(p) \intersect Owns(q) = {}
    /\ \A i \in Descs : free[i] <=> \A p \in Procs : i \notin Owns(p)

\* The ring entries the device has still to take and the chains it works on
\* are the requests that have not been answered.
InFlight ==
  {avail.ring[n % NUM] : n \in {m \in 0..U16 - 1 : (m + U16 - taken) % U16
                                                 < (avail.idx + U16 - taken) % U16}}
    \union work
Answered ==
  {used.ring[n % NUM] : n \in {m \in 0..U16 - 1 : (m + U16 - used_idx) % U16
                                                 < (used.idx + U16 - used_idx) % U16}}
RequestsTracked ==
  short \/ \A i \in Descs : info[i].disk <=> i \in InFlight \union Answered

\* A process leaves rw only after the device has done its transfer, again
\* until alloc3_desc has failed with descriptors in hand.
ServedWhenWoken ==
  short \/ \A p \in Procs : pc[p] = "woken" /\ ~info[idx[p][1]].disk => p \in served

\* No sleeper is forgotten: who sleeps for its request has it in the device's
\* hands, or answered with an interrupt that is pending or being handled, again
\* until such a failure.
SleeperHasRequest ==
  short \/ \A p \in Procs : pc[p] = "sleep" =>
    \/ idx[p][1] \in InFlight
    \/ idx[p][1] \in Answered /\ (irq \/ intr)

\* No process waits for descriptors while all are free.
NobodyWaitsForFree ==
  \A p \in Procs : pc[p] = "nodesc" => \E i \in Descs : ~free[i]

\* Every request comes to its end, or meets with such a failure.
RwReturns == \A p \in Procs : pc[p] # "idle" ~> (pc[p] = "idle" \/ short)

\* The driver's assertions hold: free_desc's panic "free_desc: already free"
\* (virtio.rs:261) and intr's expect "virtio: intr not found buffer channel"
\* (virtio.rs:237) are not reached.
NoPanic == ~panic
=============================================================================
