---------------------------- MODULE BCacheProofs ----------------------------
(***************************************************************************)
(* Proofs about the buffer cache: its list, one buffer for each block,     *)
(* and, as long as no unlocked update of a count was lost, exact counts,   *)
(* guards that show the latest contents and a buffer for every caller.     *)
(***************************************************************************)
EXTENDS BCache, TLAPS

\* A leaf that names no prover is tried with the SMT solver, then with Zenon and
\* then, with more time, with the SMT solver again.
USE SMTT(10), Zenon, SMTT(30)

-----------------------------------------------------------------------------
(***************************************************************************)
(* The inductive invariant.                                                *)
(***************************************************************************)

\* TypeOK without the sign of the counts, which the counts have to justify.
Types ==
  /\ blk \in [Bufs -> Blocks \union {None}] /\ refcnt \in [Bufs -> Int]
  /\ next \in [Bufs -> Bufs \union {None}] /\ prev \in [Bufs -> Bufs \union {None}]
  /\ head \in Bufs /\ tail \in Bufs
  /\ valid \in [Bufs -> BOOLEAN]
  /\ dlock \in [Bufs -> Procs \union {None}]
  /\ data \in [Bufs -> Values]
  /\ disk \in [Blocks -> Values] /\ latest \in [Blocks -> Values]
  /\ pc \in [Procs -> {"idle", "lock", "read", "use", "dirty", "bpin", "bunpin",
                       "brelse", "panic"}]
  /\ cur \in [Procs -> Bufs \union {None}]
  /\ want \in [Procs -> Blocks \union {None}]
  /\ tmp \in [Procs -> Int] /\ lost \in Nat
  /\ pinned \subseteq Blocks

\* s is the list from head to tail, and r[b] is where b is in it.
Linked(s, r) ==
  /\ s \in [1..NBUF -> Bufs] /\ r \in [Bufs -> 1..NBUF]
  /\ \A b \in Bufs : s[r[b]] = b
  /\ \A i \in 1..NBUF : r[s[i]] = i
  /\ head = s[1] /\ tail = s[NBUF]
  /\ \A i \in 1..NBUF : next[s[i]] = IF i < NBUF THEN s[i + 1] ELSE None
  /\ \A i \in 1..NBUF : prev[s[i]] = IF i > 1 THEN s[i - 1] ELSE None

List == \E s \in [1..NBUF -> Bufs], r \in [Bufs -> 1..NBUF] : Linked(s, r)

\* A process has a buffer from bget to brelse, and is in the buffer's
\* sleep-lock from bread to the drop of the data.
Holding == {"read", "use", "dirty", "bpin", "bunpin"}

Guards ==
  /\ \A p \in Procs : IF pc[p] \in {"idle", "panic"}
                      THEN cur[p] = None
                      ELSE cur[p] \in Bufs /\ want[p] \in Blocks
  /\ \A p \in Procs, b \in Bufs : dlock[b] = p <=> cur[p] = b /\ pc[p] \in Holding

\* The guards on b.
GuardsOn(b) == {p \in Procs : cur[p] = b}

\* What the counts protect: a buffer with a guard keeps its block, a pinned
\* block keeps its buffer.
Counts ==
  /\ \A b \in Bufs : refcnt[b] = Cardinality(GuardsOn(b)) + (IF blk[b] \in Counted THEN 1 ELSE 0)
  /\ \A p \in Procs : cur[p] # None => blk[cur[p]] = want[p]
  /\ \A k \in pinned : \E b \in Bufs : blk[b] = k
  /\ \A p \in Procs : /\ pc[p] = "bpin" => want[p] \in pinned
                      /\ pc[p] = "bunpin" => want[p] \notin pinned

\* A valid buffer has the latest contents of its block, one that is not valid
\* will get them from the disk; what is newer than the disk is pinned, or
\* about to be written or pinned.
Contents ==
  /\ \A p \in Procs : /\ pc[p] \in {"use", "dirty", "bpin", "bunpin"} => valid[cur[p]]
                      /\ pc[p] = "read" => ~valid[cur[p]]
  /\ \A b \in Bufs : blk[b] # None =>
       IF valid[b] THEN data[b] = latest[blk[b]] ELSE disk[blk[b]] = latest[blk[b]]
  /\ \A k \in Blocks : \/ disk[k] = latest[k]
                       \/ k \in pinned
                       \/ \E p \in Procs : pc[p] = "dirty" /\ want[p] = k

IInv ==
  /\ Types /\ List /\ OneBuffer /\ Guards
  /\ lost = 0 => Counts /\ Contents

\* What find and recycle find, in a list that is one.
Finds ==
  /\ \A k \in Blocks : IF Find(k) = None THEN \A b \in Bufs : blk[b] # k
                                        ELSE Find(k) \in Bufs /\ blk[Find(k)] = k
  /\ IF Recyclable = None THEN \A b \in Bufs : refcnt[b] # 0
                          ELSE Recyclable \in Bufs /\ refcnt[Recyclable] = 0

\* What a count of 0 tells, once the counts are right.
CountsTell == \A b \in Bufs : refcnt[b] = 0 => \A p \in Procs : cur[p] # b

-----------------------------------------------------------------------------
(***************************************************************************)
(* What the lemmas use of the theory of numbers and finite sets.  It is    *)
(* proved from the library, in FactsHold, where they are put together.     *)
(***************************************************************************)
LeastFact == \A S \in SUBSET Nat : S # {} => \E x \in S : \A y \in S : x <= y

FiniteFact ==
  /\ \A S : IsFiniteSet(S) => Cardinality(S) \in Nat /\ (Cardinality(S) = 0 <=> S = {})
  /\ \A S : \A T \in SUBSET S : IsFiniteSet(S) => IsFiniteSet(T)
  /\ \A x : Cardinality({x}) = 1
  /\ Cardinality({}) = 0

AddFact ==
  \A S, x : IsFiniteSet(S) =>
    /\ IsFiniteSet(S \union {x})
    /\ Cardinality(S \union {x}) = IF x \in S THEN Cardinality(S) ELSE Cardinality(S) + 1

RemoveFact ==
  \A S, x : IsFiniteSet(S) =>
    /\ IsFiniteSet(S \ {x})
    /\ Cardinality(S \ {x}) = IF x \in S THEN Cardinality(S) - 1 ELSE Cardinality(S)

Facts == LeastFact /\ FiniteFact /\ AddFact /\ RemoveFact

-----------------------------------------------------------------------------
(***************************************************************************)
(* The contents.                                                           *)
(***************************************************************************)

\* The buffer of a process that may use it has the latest contents.
LEMMA GuardShowsLatest ==
  ASSUME Types, Guards, Counts, Contents, NEW p \in Procs,
         pc[p] \in {"use", "dirty", "bpin", "bunpin"}
  PROVE  /\ cur[p] \in Bufs /\ want[p] \in Blocks /\ blk[cur[p]] = want[p]
         /\ valid[cur[p]] /\ data[cur[p]] = latest[want[p]]
<1>1. cur[p] \in Bufs /\ want[p] \in Blocks /\ None \notin Bufs /\ None \notin Blocks
  BY BCacheAssumption DEF Guards, Bufs
<1>2. blk[cur[p]] = want[p]
  BY <1>1 DEF Counts
<1>3. valid[cur[p]]
  BY DEF Contents
<1> QED
  BY <1>1, <1>2, <1>3 DEF Contents

\* A block that no buffer has is on the disk as it was last stored.
LEMMA UncachedOnDisk ==
  ASSUME Types, Guards, Counts, Contents, NEW k \in Blocks, \A b \in Bufs : blk[b] # k
  PROVE  disk[k] = latest[k]
<1>1. k \notin pinned
  BY DEF Counts
<1>2. ASSUME NEW p \in Procs, pc[p] = "dirty", want[p] = k
      PROVE  FALSE
  BY <1>2, GuardShowsLatest
<1> QED
  BY <1>1, <1>2 DEF Contents

LEMMA NextKeepsContents ==
  ASSUME Types, Finds, OneBuffer, Guards, Counts, CountsTell, Contents, Next \/ UNCHANGED vars
  PROVE  Contents'
<1> USE DEF At, Goto, ghostVars
<1>n. None \notin Bufs /\ None \notin Blocks
  BY BCacheAssumption DEF Bufs
<1>0. SUFFICES ASSUME Next
               PROVE  Contents'
  BY DEF Contents, vars
<1>1. PICK p \in Procs : GuardStep(p) \/ \E k \in Blocks :
                           BgetFound(p, k) \/ BgetRecycled(p, k) \/ BgetPanics(p, k)
  BY <1>0 DEF Next
<1>q. \A q \in Procs \ {p} : pc'[q] = pc[q] /\ cur'[q] = cur[q] /\ want'[q] = want[q]
  <2>1. ASSUME NEW k \in Blocks, BgetFound(p, k) \/ BgetRecycled(p, k) \/ BgetPanics(p, k),
               NEW q \in Procs \ {p}
        PROVE  pc'[q] = pc[q] /\ cur'[q] = cur[q] /\ want'[q] = want[q]
    BY <2>1 DEF BgetFound, BgetRecycled, BgetPanics, Types
  <2>2. ASSUME GuardStep(p), NEW q \in Procs \ {p}
        PROVE  pc'[q] = pc[q] /\ cur'[q] = cur[q] /\ want'[q] = want[q]
    <3>1. CASE Bread(p) \/ ReadDisk(p) \/ Bwrite(p) \/ Absorb(p)
      BY <3>1 DEF Bread, ReadDisk, Bwrite, Absorb, Types
    <3>2. CASE Bpin(p) \/ Bunpin(p) \/ PinStore(p)
      BY <3>2 DEF Bpin, Bunpin, LoadCount, PinStore, StoreCount, Types
    <3>3. CASE DropData(p) \/ Brelse(p) \/ \E v \in Values : Modify(p, v)
      BY <3>3 DEF DropData, Brelse, Modify, StoreCount, Types
    <3> QED
      BY <2>2, <3>1, <3>2, <3>3, Zenon DEF GuardStep
  <2> QED
    BY <1>1, <2>1, <2>2
<1> USE <1>q
<1>2. ASSUME NEW k \in Blocks, BgetFound(p, k) \/ BgetPanics(p, k)
      PROVE  Contents'
  <2>1. /\ pc[p] = "idle" /\ pc'[p] \in {"lock", "panic"}
        /\ UNCHANGED <<blk, valid, data, disk, latest, pinned>>
    BY <1>2 DEF BgetFound, BgetPanics, Types
  <2> QED
    BY <2>1 DEF Contents
<1>3. ASSUME NEW k \in Blocks, BgetRecycled(p, k)
      PROVE  Contents'
  <2>1. PICK b \in Bufs :
          /\ refcnt[b] = 0 /\ pc[p] = "idle" /\ pc'[p] = "lock"
          /\ blk' = [blk EXCEPT ![b] = k] /\ valid' = [valid EXCEPT ![b] = FALSE]
          /\ UNCHANGED <<data, disk, latest, pinned>>
    BY <1>3, Zenon DEF Finds, BgetRecycled, Invalidate, Types
  <2> USE <2>1
  <2>2. disk[k] = latest[k]
    BY <1>3, UncachedOnDisk DEF BgetRecycled, Finds
  <2>3. \A q \in Procs : cur[q] # b
    BY DEF CountsTell
  <2>4. /\ blk'[b] = k /\ ~valid'[b]
        /\ \A c \in Bufs \ {b} : blk'[c] = blk[c] /\ valid'[c] = valid[c]
    BY DEF Types
  <2>5. ASSUME NEW q \in Procs, pc'[q] \in {"use", "dirty", "bpin", "bunpin"}
        PROVE  valid'[cur'[q]]
    <3>1. q # p /\ pc[q] \in {"use", "dirty", "bpin", "bunpin"} /\ cur'[q] = cur[q]
      BY <2>5
    <3>2. cur[q] \in Bufs /\ valid[cur[q]]
      BY <3>1, GuardShowsLatest
    <3> QED
      BY <2>3, <2>4, <3>1, <3>2
  <2>r. ASSUME NEW q \in Procs, pc'[q] = "read"
        PROVE  ~valid'[cur'[q]]
    <3>1. q # p /\ pc[q] = "read" /\ cur'[q] = cur[q]
      BY <2>r
    <3>2. cur[q] \in Bufs /\ ~valid[cur[q]]
      BY <3>1 DEF Contents, Guards
    <3> QED
      BY <2>4, <3>1, <3>2
  <2>6. \A c \in Bufs : blk'[c] # None =>
          IF valid'[c] THEN data'[c] = latest'[blk'[c]] ELSE disk'[blk'[c]] = latest'[blk'[c]]
    BY <2>2, <2>4 DEF Contents
  <2>7. \A j \in Blocks : \/ disk'[j] = latest'[j] \/ j \in pinned'
                          \/ \E q \in Procs : pc'[q] = "dirty" /\ want'[q] = j
    BY DEF Contents
  <2> QED
    BY <2>5, <2>r, <2>6, <2>7 DEF Contents
<1>4. CASE Bread(p)
  <2>1. /\ pc[p] = "lock" /\ pc'[p] = IF valid[cur[p]] THEN "use" ELSE "read"
        /\ UNCHANGED <<blk, valid, data, disk, latest, pinned, cur, want>>
    BY <1>4 DEF Bread, Types
  <2> QED
    BY <2>1 DEF Contents
<1>5. CASE ReadDisk(p)
  <2>1. /\ pc[p] = "read" /\ pc'[p] = "use" /\ cur[p] \in Bufs /\ want[p] \in Blocks
        /\ UNCHANGED <<blk, disk, latest, pinned, cur, want>>
    BY <1>5 DEF ReadDisk, Guards, Types
  <2> USE <2>1
  <2>2. PICK b \in Bufs :
          /\ b = cur[p] /\ data' = [data EXCEPT ![b] = disk[want[p]]]
          /\ valid' = [valid EXCEPT ![b] = TRUE]
    BY <1>5, Zenon DEF ReadDisk
  <2>3. /\ data'[b] = disk[want[p]] /\ valid'[b]
        /\ \A c \in Bufs \ {b} : data'[c] = data[c] /\ valid'[c] = valid[c]
    BY <2>2 DEF Types
  <2>4. blk[b] = want[p] /\ disk[want[p]] = latest[want[p]]
    <3>1. blk[b] = want[p] /\ ~valid[b]
      BY <1>n, <2>2 DEF Counts, Contents
    <3> QED
      BY <1>n, <3>1 DEF Contents
  <2>5. \A q \in Procs \ {p} : pc[q] = "read" => cur[q] # b
    BY <2>2 DEF Guards, Holding
  <2>6. \A q \in Procs \ {p} :
          pc[q] \in {"read", "use", "dirty", "bpin", "bunpin"} => cur[q] \in Bufs
    BY DEF Guards
  <2>7. \A q \in Procs : /\ pc'[q] \in {"use", "dirty", "bpin", "bunpin"} => valid'[cur'[q]]
                         /\ pc'[q] = "read" => ~valid'[cur'[q]]
    BY <2>2, <2>3, <2>5, <2>6 DEF Contents
  <2>8. \A c \in Bufs : blk'[c] # None =>
          IF valid'[c] THEN data'[c] = latest'[blk'[c]] ELSE disk'[blk'[c]] = latest'[blk'[c]]
    BY <2>3, <2>4 DEF Contents
  <2>9. \A j \in Blocks : \/ disk'[j] = latest'[j] \/ j \in pinned'
                          \/ \E q \in Procs : pc'[q] = "dirty" /\ want'[q] = j
    BY DEF Contents
  <2> QED
    BY <2>7, <2>8, <2>9 DEF Contents
<1>6. ASSUME NEW v \in Values, Modify(p, v)
      PROVE  Contents'
  <2>1. PICK b \in Bufs, k \in Blocks :
          /\ b = cur[p] /\ k = want[p] /\ blk[b] = k /\ valid[b]
          /\ data' = [data EXCEPT ![b] = v] /\ latest' = [latest EXCEPT ![k] = v]
    BY <1>6, GuardShowsLatest, Zenon DEF Modify
  <2>2. /\ pc[p] = "use" /\ pc'[p] = "dirty"
        /\ UNCHANGED <<blk, valid, disk, pinned, cur, want>>
    BY <1>6 DEF Modify, Types
  <2>3. \A c \in Bufs \ {b} : blk[c] # k
    BY <1>n, <2>1 DEF OneBuffer
  <2>4. /\ data'[b] = v /\ latest'[k] = v /\ \A c \in Bufs \ {b} : data'[c] = data[c]
        /\ \A j \in Blocks \ {k} : latest'[j] = latest[j]
    BY <2>1 DEF Types
  <2>5. \A q \in Procs : /\ pc'[q] \in {"use", "dirty", "bpin", "bunpin"} => valid'[cur'[q]]
                         /\ pc'[q] = "read" => ~valid'[cur'[q]]
    BY <2>1, <2>2 DEF Contents
  <2>6. ASSUME NEW c \in Bufs, blk[c] # None
        PROVE  IF valid[c] THEN data'[c] = latest'[blk[c]] ELSE disk[blk[c]] = latest'[blk[c]]
    <3>1. CASE c = b
      BY <2>1, <2>4, <3>1
    <3>2. CASE c # b
      <4>1. blk[c] \in Blocks \ {k}
        BY <2>3, <2>6, <3>2 DEF Types
      <4> QED
        BY <2>4, <2>6, <3>2, <4>1 DEF Contents
    <3> QED
      BY <3>1, <3>2
  <2>7. \A j \in Blocks : \/ disk'[j] = latest'[j] \/ j \in pinned'
                          \/ \E q \in Procs : pc'[q] = "dirty" /\ want'[q] = j
    BY <2>1, <2>2, <2>4 DEF Contents
  <2> QED
    BY <2>2, <2>5, <2>6, <2>7 DEF Contents
<1>7. CASE Bwrite(p) \/ Bunpin(p)
  <2>0. pc[p] \in {"use", "dirty"} /\ disk' = [disk EXCEPT ![want[p]] = data[cur[p]]]
    BY <1>7 DEF Bwrite, Bunpin, At
  <2>1. PICK k \in Blocks : k = want[p] /\ disk' = [disk EXCEPT ![k] = latest[k]]
    BY <2>0, GuardShowsLatest, Zenon
  <2>2. /\ pc[p] \in {"use", "dirty"} /\ pc'[p] \in {"use", "bunpin"}
        /\ UNCHANGED <<blk, valid, data, latest, cur, want>>
        /\ \A j \in pinned \ {k} : j \in pinned'
    BY <1>7, <2>1 DEF Bwrite, Bunpin, LoadCount, Types
  <2>3. disk'[k] = latest[k] /\ \A j \in Blocks \ {k} : disk'[j] = disk[j]
    BY <2>1 DEF Types
  <2>4. \A q \in Procs : /\ pc'[q] \in {"use", "dirty", "bpin", "bunpin"} => valid'[cur'[q]]
                         /\ pc'[q] = "read" => ~valid'[cur'[q]]
    BY <2>1, <2>2 DEF Contents
  <2>5. \A c \in Bufs : blk'[c] # None =>
          IF valid'[c] THEN data'[c] = latest'[blk'[c]] ELSE disk'[blk'[c]] = latest'[blk'[c]]
    BY <2>2, <2>3 DEF Contents, Types
  <2>6. \A j \in Blocks : \/ disk'[j] = latest'[j] \/ j \in pinned'
                          \/ \E q \in Procs : pc'[q] = "dirty" /\ want'[q] = j
    BY <2>1, <2>2, <2>3 DEF Contents
  <2> QED
    BY <2>4, <2>5, <2>6 DEF Contents
<1>8. CASE Absorb(p) \/ Bpin(p)
  <2>1. /\ pc[p] = "dirty" /\ pc'[p] \in {"use", "bpin"} /\ want[p] \in pinned'
        /\ pinned \subseteq pinned'
        /\ UNCHANGED <<blk, valid, data, disk, latest, cur, want>>
    BY <1>8 DEF Absorb, Bpin, LoadCount, Types
  <2> QED
    BY <2>1 DEF Contents
<1>9. CASE PinStore(p)
  <2>1. /\ pc[p] \in {"bpin", "bunpin"} /\ pc'[p] = "use"
        /\ UNCHANGED <<blk, valid, data, disk, latest, cur, want, pinned>>
    BY <1>9 DEF PinStore, StoreCount, Types
  <2> QED
    BY <2>1 DEF Contents
<1>10. CASE DropData(p) \/ Brelse(p)
  <2>1. /\ pc[p] \in {"use", "brelse"} /\ pc'[p] \in {"brelse", "idle"}
        /\ UNCHANGED <<blk, valid, data, disk, latest, pinned>>
    BY <1>10 DEF DropData, Brelse, Types
  <2> QED
    BY <2>1 DEF Contents
<1> QED
  BY <1>1, <1>2, <1>3, <1>4, <1>5, <1>6, <1>7, <1>8, <1>9, <1>10 DEF GuardStep

-----------------------------------------------------------------------------
(***************************************************************************)
(* The list stays a list.                                                  *)
(***************************************************************************)

\* brelse moves a buffer of the list to its front.
LEMMA ToFrontKeepsList ==
  ASSUME Types, NEW s, NEW r, Linked(s, r), NEW b \in Bufs, b # head, ToFront(b)
  PROVE  List'
<1> DEFINE j == r[b]
           t == [i \in 1..NBUF |-> IF i = 1 THEN b ELSE IF i <= j THEN s[i - 1] ELSE s[i]]
           q == [c \in Bufs |-> IF c = b THEN 1 ELSE IF r[c] < j THEN r[c] + 1 ELSE r[c]]
<1>0. NBUF \in Nat /\ NBUF >= 2 /\ None \notin Bufs
  BY BCacheAssumption DEF Bufs
<1> USE <1>0
<1>1. /\ s \in [1..NBUF -> Bufs] /\ r \in [Bufs -> 1..NBUF]
      /\ \A c \in Bufs : s[r[c]] = c
      /\ \A i \in 1..NBUF : r[s[i]] = i
      /\ head = s[1] /\ tail = s[NBUF]
  BY DEF Linked
<1>2. /\ \A i \in 1..NBUF : next[s[i]] = IF i < NBUF THEN s[i + 1] ELSE None
      /\ \A i \in 1..NBUF : prev[s[i]] = IF i > 1 THEN s[i - 1] ELSE None
  BY DEF Linked
<1>i. \A k, l \in 1..NBUF : s[k] = s[l] => k = l
  BY <1>1, Zenon
<1>3. j \in 1..NBUF /\ j > 1 /\ s[j] = b /\ j - 1 \in 1..NBUF
  <2>1. j \in 1..NBUF /\ s[j] = b /\ j # 1
    BY <1>1, Zenon
  <2> HIDE DEF j
  <2> QED
    BY <2>1
<1> USE <1>3
<1>4. /\ prev[b] = s[j - 1] /\ prev[b] \in Bufs
      /\ next[b] = IF j < NBUF THEN s[j + 1] ELSE None
  <2> HIDE DEF j, t, q
  <2>1. prev[s[j]] = s[j - 1]
    BY <1>2
  <2>2. next[s[j]] = IF j < NBUF THEN s[j + 1] ELSE None
    BY <1>2, Zenon
  <2>3. s[j - 1] \in Bufs
    BY <1>1, Zenon
  <2> QED
    BY <2>1, <2>2, <2>3, Zenon
<1>5. /\ next' \in [Bufs -> Bufs \union {None}]
      /\ \A c \in Bufs : next'[c] = IF c = b THEN head ELSE IF c = prev[b] THEN next[b] ELSE next[c]
  BY <1>4 DEF ToFront, SetLink, Types
<1>6. /\ prev' \in [Bufs -> Bufs \union {None}]
      /\ \A c \in Bufs : prev'[c] = IF c = head THEN b ELSE IF c = b THEN None
                                    ELSE IF c = next[b] THEN prev[b] ELSE prev[c]
  BY <1>4 DEF ToFront, SetLink, Types
<1> HIDE DEF j
<1>7. head' = b /\ tail' = IF j = NBUF THEN s[j - 1] ELSE s[NBUF]
  <2>1. tail = b <=> j = NBUF
    BY <1>1, <1>i
  <2> QED
    BY <1>1, <1>4, <2>1 DEF ToFront, NewTail
<1>8. t \in [1..NBUF -> Bufs] /\ q \in [Bufs -> 1..NBUF]
  <2>1. t \in [1..NBUF -> Bufs]
    BY <1>1
  <2>2. ASSUME NEW c \in Bufs
        PROVE  q[c] \in 1..NBUF
    <3>1. r[c] \in 1..NBUF
      BY <1>1
    <3> QED
      BY <3>1
  <2> QED
    BY <2>1, <2>2
<1>9. ASSUME NEW c \in Bufs
      PROVE  t[q[c]] = c
  <2>1. CASE c = b
    BY <2>1
  <2>2. CASE c # b
    <3>1. r[c] \in 1..NBUF /\ r[c] # j /\ s[r[c]] = c
      BY <1>1, <2>2
    <3>2. CASE r[c] < j
      BY <2>2, <3>1, <3>2
    <3>3. CASE r[c] > j
      BY <2>2, <3>1, <3>3
    <3> QED
      BY <3>1, <3>2, <3>3
  <2> QED
    BY <2>1, <2>2
<1>10. ASSUME NEW i \in 1..NBUF
       PROVE  q[t[i]] = i
  <2>1. CASE i = 1
    BY <2>1
  <2>2. CASE i > 1 /\ i <= j
    <3>1. t[i] = s[i - 1] /\ i - 1 \in 1..NBUF /\ r[s[i - 1]] = i - 1 /\ i - 1 < j
      BY <1>1, <2>2
    <3>2. s[i - 1] \in Bufs /\ s[i - 1] # b
      BY <1>1, <3>1
    <3> QED
      BY <3>1, <3>2
  <2>3. CASE i > j
    <3>1. t[i] = s[i] /\ r[s[i]] = i /\ s[i] \in Bufs /\ s[i] # b
      BY <1>1, <2>3
    <3> QED
      BY <2>3, <3>1
  <2> QED
    BY <2>1, <2>2, <2>3
<1>11. head' = t[1] /\ tail' = t[NBUF]
  BY <1>7
<1>12. ASSUME NEW i \in 1..NBUF
       PROVE  next'[t[i]] = IF i < NBUF THEN t[i + 1] ELSE None
  <2>1. CASE i = 1
    <3>1. t[1] = b /\ t[2] = s[1]
      OBVIOUS
    <3> QED
      BY <1>1, <1>5, <2>1, <3>1
  <2>2. CASE i > 1 /\ i < j
    <3>1. t[i] = s[i - 1] /\ t[i + 1] = s[i] /\ i - 1 \in 1..NBUF /\ i < NBUF
      BY <2>2
    <3>2. s[i - 1] \in Bufs /\ s[i - 1] # b /\ s[i - 1] # prev[b]
      BY <1>1, <1>4, <2>2, <3>1
    <3>3. next[s[i - 1]] = s[i]
      BY <1>2, <3>1
    <3> QED
      BY <1>5, <3>1, <3>2, <3>3, Zenon
  <2>3. CASE i = j
    <3>1. t[i] = s[j - 1] /\ s[j - 1] \in Bufs /\ s[j - 1] # b
      BY <1>1, <2>3
    <3>2. i < NBUF => t[i + 1] = s[j + 1]
      BY <2>3
    <3> QED
      BY <1>4, <1>5, <2>3, <3>1, <3>2
  <2>4. CASE i > j
    <3>1. t[i] = s[i] /\ s[i] \in Bufs /\ s[i] # b /\ s[i] # prev[b]
      BY <1>1, <1>4, <2>4
    <3>2. i < NBUF => t[i + 1] = s[i + 1]
      BY <2>4
    <3> QED
      BY <1>2, <1>5, <3>1, <3>2
  <2> QED
    BY <2>1, <2>2, <2>3, <2>4
<1>13. ASSUME NEW i \in 1..NBUF
       PROVE  prev'[t[i]] = IF i > 1 THEN t[i - 1] ELSE None
  <2>1. CASE i = 1
    BY <1>6, <2>1
  <2>2. CASE i = 2
    <3>1. t[2] = head /\ t[1] = b /\ head \in Bufs
      BY <1>1
    <3> QED
      BY <1>6, <2>2, <3>1
  <2>3. CASE i > 2 /\ i <= j
    <3>1. /\ t[i] = s[i - 1] /\ t[i - 1] = s[i - 2]
          /\ i - 1 \in 1..NBUF /\ (i - 1) - 1 = i - 2
      BY <2>3
    <3>2. prev[s[i - 1]] = s[i - 2]
      BY <1>2, <2>3, <3>1
    <3>3. s[i - 1] \in Bufs /\ s[i - 1] # s[j] /\ s[i - 1] # s[1]
      BY <1>1, <1>i, <2>3, <3>1
    <3>4. j < NBUF => s[i - 1] # s[j + 1]
      BY <1>i, <2>3, <3>1
    <3>5. s[i - 1] # b /\ s[i - 1] # head /\ s[i - 1] # next[b]
      BY <1>1, <1>4, <3>3, <3>4
    <3> QED
      BY <1>6, <2>3, <3>1, <3>2, <3>3, <3>5
  <2>4. CASE i = j + 1
    <3>1. t[i] = s[j + 1] /\ t[i - 1] = s[j - 1] /\ next[b] = s[j + 1]
      BY <1>4, <2>4
    <3>2. s[j + 1] \in Bufs /\ s[j + 1] # s[j] /\ s[j + 1] # s[1]
      BY <1>1, <1>i, <2>4
    <3> QED
      BY <1>1, <1>4, <1>6, <2>4, <3>1, <3>2
  <2>5. CASE i > j + 1
    <3>1. /\ t[i] = s[i] /\ t[i - 1] = s[i - 1] /\ prev[s[i]] = s[i - 1]
      BY <1>2, <2>5
    <3>2. s[i] \in Bufs /\ s[i] # s[j] /\ s[i] # s[1]
      BY <1>1, <1>i, <2>5
    <3>3. j < NBUF /\ s[i] # s[j + 1]
      BY <1>i, <2>5
    <3> QED
      BY <1>1, <1>4, <1>6, <2>5, <3>1, <3>2, <3>3
  <2>6. i = 1 \/ i = 2 \/ (i > 2 /\ i <= j) \/ i = j + 1 \/ i > j + 1
    OBVIOUS
  <2> QED
    BY <2>1, <2>2, <2>3, <2>4, <2>5, <2>6
<1> HIDE DEF t, q
<1>14. Linked(t, q)'
  BY <1>8, <1>9, <1>10, <1>11, <1>12, <1>13, Zenon DEF Linked
<1> QED
  BY <1>8, <1>14 DEF List

LEMMA NextKeepsList ==
  ASSUME Types, List, Guards, Next \/ UNCHANGED vars
  PROVE  List'
<1>0. SUFFICES ASSUME ~UNCHANGED listVars
               PROVE  List'
  <2> SUFFICES ASSUME UNCHANGED listVars
               PROVE  List'
    OBVIOUS
  <2>1. PICK s \in [1..NBUF -> Bufs], r \in [Bufs -> 1..NBUF] : Linked(s, r)
    BY DEF List
  <2>2. Linked(s, r)'
    BY <2>1 DEF Linked, listVars
  <2> QED
    BY <2>2, Zenon DEF List
<1>1. PICK p \in Procs : Brelse(p)
  <2>1. Next
    BY <1>0 DEF vars, listVars
  <2> QED
    BY <1>0, <2>1, Zenon DEF Next, GuardStep, BgetFound, BgetRecycled, BgetPanics, Bread, ReadDisk,
       Modify, Bwrite, Absorb, Bpin, Bunpin, PinStore, DropData
<1>2. cur[p] \in Bufs /\ head # cur[p] /\ ToFront(cur[p])
  BY <1>0, <1>1 DEF Brelse, Guards, At
<1> QED
  BY <1>2, ToFrontKeepsList, Zenon DEF List

LEMMA NextKeepsTypes ==
  ASSUME Types, Finds, Guards, Next \/ UNCHANGED vars
  PROVE  Types'
<1> USE DEF Types, At, Goto, listVars, ghostVars
<1>0. SUFFICES ASSUME Next
               PROVE  Types'
  BY DEF vars
<1>1. PICK p \in Procs : GuardStep(p) \/ \E k \in Blocks :
                           BgetFound(p, k) \/ BgetRecycled(p, k) \/ BgetPanics(p, k)
  BY <1>0 DEF Next
<1>2. ASSUME NEW k \in Blocks, BgetFound(p, k)
      PROVE  Types'
  <2>1. Find(k) \in Bufs
    BY <1>2 DEF Finds, BgetFound
  <2> QED
    BY <1>2, <2>1 DEF BgetFound
<1>3. ASSUME NEW k \in Blocks, BgetRecycled(p, k)
      PROVE  Types'
  <2>1. Recyclable \in Bufs
    BY <1>3 DEF Finds, BgetRecycled
  <2> QED
    BY <1>3, <2>1 DEF BgetRecycled, Invalidate
<1>4. ASSUME NEW k \in Blocks, BgetPanics(p, k)
      PROVE  Types'
  BY <1>4 DEF BgetPanics
<1>5. CASE Bread(p) \/ Absorb(p) \/ DropData(p)
  BY <1>5 DEF Bread, Absorb, DropData
<1>6. CASE ReadDisk(p)
  BY <1>6 DEF ReadDisk, Guards
<1>7. ASSUME NEW v \in Values, Modify(p, v)
      PROVE  Types'
  BY <1>7, Zenon DEF Modify
<1>8. CASE Bwrite(p)
  BY <1>8 DEF Bwrite, Guards
<1>9. CASE Bpin(p)
  BY <1>9 DEF Bpin, LoadCount, Guards
<1>10. CASE Bunpin(p)
  BY <1>10 DEF Bunpin, LoadCount, Guards
<1>11. CASE PinStore(p)
  BY <1>11 DEF PinStore, StoreCount
<1>12. CASE Brelse(p)
  <2>0. /\ cur[p] \in Bufs /\ refcnt' = [refcnt EXCEPT ![cur[p]] = @ - 1]
        /\ cur' = [cur EXCEPT ![p] = None] /\ want' = [want EXCEPT ![p] = None]
        /\ pc' = [pc EXCEPT ![p] = "idle"]
        /\ UNCHANGED <<blk, valid, dlock, data, disk, tmp, lost, pinned, latest>>
    BY <1>12 DEF Brelse, Guards
  <2>1. refcnt' \in [Bufs -> Int]
    BY <2>0
  <2>2. CASE UNCHANGED listVars
    BY <2>0, <2>1, <2>2
  <2>3. CASE ~UNCHANGED listVars
    <3>1. cur[p] \in Bufs /\ ToFront(cur[p])
      BY <1>12, <2>3 DEF Brelse, Guards
    <3>2. /\ next' \in [Bufs -> Bufs \union {None}] /\ prev' \in [Bufs -> Bufs \union {None}]
          /\ head' \in Bufs /\ tail' \in Bufs
      BY <3>1 DEF ToFront, SetLink, NewTail
    <3> QED
      BY <2>0, <2>1, <3>2
  <2> QED
    BY <2>2, <2>3
<1> QED
  BY <1>1, <1>2, <1>3, <1>4, <1>5, <1>6, <1>7, <1>8, <1>9, <1>10, <1>11, <1>12, Zenon DEF GuardStep

-----------------------------------------------------------------------------
(***************************************************************************)
(* One buffer for each block, and one holder for each buffer.              *)
(***************************************************************************)

\* A buffer gets a block only if find has found it in none.
LEMMA NextKeepsOneBuffer ==
  ASSUME Types, Finds, OneBuffer, Next \/ UNCHANGED vars
  PROVE  OneBuffer'
<1>0. SUFFICES ASSUME blk' # blk
               PROVE  OneBuffer'
  BY Zenon DEF OneBuffer
<1>1. PICK p \in Procs, k \in Blocks : BgetRecycled(p, k)
  <2>1. Next
    BY <1>0 DEF vars
  <2> QED
    BY <1>0, <2>1, Zenon DEF Next, GuardStep, BgetFound, BgetPanics, Bread, ReadDisk,
       Modify, Bwrite, Absorb, Bpin, Bunpin, PinStore, DropData, Brelse
<1>2. /\ Recyclable \in Bufs /\ \A b \in Bufs : blk[b] # k
      /\ blk' = [blk EXCEPT ![Recyclable] = k]
  BY <1>1 DEF Finds, BgetRecycled
<1> QED
  BY <1>2 DEF OneBuffer, Types

LEMMA NextKeepsGuards ==
  ASSUME Types, Finds, Guards, Next \/ UNCHANGED vars
  PROVE  Guards'
<1> USE DEF Types, At, Goto, Holding
<1>n. None \notin Procs /\ None \notin Bufs /\ None \notin Blocks
  BY BCacheAssumption DEF Bufs
<1>0. SUFFICES ASSUME Next
               PROVE  Guards'
  BY DEF vars, Guards
<1>1. PICK p \in Procs : GuardStep(p) \/ \E k \in Blocks :
                           BgetFound(p, k) \/ BgetRecycled(p, k) \/ BgetPanics(p, k)
  BY <1>0 DEF Next
<1>2. ASSUME NEW k \in Blocks, BgetFound(p, k) \/ BgetRecycled(p, k)
      PROVE  Guards'
  <2>1. PICK b \in Bufs : /\ pc[p] = "idle" /\ pc' = [pc EXCEPT ![p] = "lock"]
                          /\ cur' = [cur EXCEPT ![p] = b] /\ want' = [want EXCEPT ![p] = k]
                          /\ dlock' = dlock
    BY <1>2 DEF Finds, BgetFound, BgetRecycled
  <2> QED
    BY <1>n, <2>1 DEF Guards
<1>3. ASSUME NEW k \in Blocks, BgetPanics(p, k)
      PROVE  Guards'
  BY <1>3 DEF BgetPanics, Guards
<1>4. CASE Bread(p)
  <2>1. /\ pc[p] = "lock" /\ cur[p] \in Bufs /\ dlock[cur[p]] = None
        /\ \E loc \in {"use", "read"} : pc' = [pc EXCEPT ![p] = loc]
        /\ dlock' = [dlock EXCEPT ![cur[p]] = p] /\ cur' = cur /\ want' = want
    BY <1>4, Zenon DEF Bread, Guards
  <2> QED
    BY <1>n, <2>1 DEF Guards
<1>5. CASE DropData(p)
  <2>1. /\ pc[p] = "use" /\ cur[p] \in Bufs /\ pc' = [pc EXCEPT ![p] = "brelse"]
        /\ dlock' = [dlock EXCEPT ![cur[p]] = None] /\ cur' = cur /\ want' = want
    BY <1>5 DEF DropData, Guards
  <2> QED
    BY <1>n, <2>1 DEF Guards
<1>6. CASE Brelse(p)
  <2>1. /\ pc[p] = "brelse" /\ pc' = [pc EXCEPT ![p] = "idle"]
        /\ dlock' = dlock /\ cur' = [cur EXCEPT ![p] = None] /\ want' = [want EXCEPT ![p] = None]
    BY <1>6 DEF Brelse
  <2> QED
    BY <1>n, <2>1 DEF Guards
<1>7. ASSUME pc[p] \in Holding, \E loc \in Holding : pc' = [pc EXCEPT ![p] = loc],
             UNCHANGED <<dlock, cur, want>>
      PROVE  Guards'
  BY <1>7 DEF Guards
<1>8. ASSUME NEW v \in Values, Modify(p, v)
      PROVE  Guards'
  BY <1>7, <1>8 DEF Modify
<1>9. CASE ReadDisk(p) \/ Bwrite(p) \/ Absorb(p)
  BY <1>7, <1>9 DEF ReadDisk, Bwrite, Absorb
<1>10. CASE Bpin(p) \/ Bunpin(p) \/ PinStore(p)
  BY <1>7, <1>10 DEF Bpin, Bunpin, LoadCount, PinStore, StoreCount
<1> QED
  BY <1>1, <1>2, <1>3, <1>4, <1>5, <1>6, <1>8, <1>9, <1>10 DEF GuardStep

-----------------------------------------------------------------------------
(***************************************************************************)
(* The counts, where the guards stay the same.                             *)
(***************************************************************************)

\* One process at a time holds a block.
LEMMA Exclusive ==
  ASSUME Types, OneBuffer, Guards, Counts, NEW p \in Procs, NEW q \in Procs,
         pc[p] \in Holding, pc[q] \in Holding, want[p] = want[q]
  PROVE  p = q
<1>1. /\ cur[p] \in Bufs /\ cur[q] \in Bufs /\ want[p] \in Blocks
      /\ dlock[cur[p]] = p /\ dlock[cur[q]] = q
  BY DEF Guards, Holding
<1>2. None \notin Bufs /\ None \notin Blocks
  BY BCacheAssumption DEF Bufs
<1>3. blk[cur[p]] = want[p] /\ blk[cur[q]] = want[p]
  BY <1>1, <1>2 DEF Counts
<1>4. cur[p] = cur[q]
  BY <1>1, <1>2, <1>3 DEF OneBuffer
<1> QED
  BY <1>1, <1>4

\* A pinned block that is in no count has a process in bpin: its buffer has a
\* count or a guard.
LEMMA PinnedProtected ==
  ASSUME Types, OneBuffer, Guards, Counts, NEW b \in Bufs, blk[b] \in pinned
  PROVE  blk[b] \in Counted \/ \E p \in Procs : cur[p] = b
<1>1. SUFFICES ASSUME NEW p \in Procs, pc[p] = "bpin", want[p] = blk[b]
               PROVE  cur[p] = b
  BY DEF Counted, Storing, At
<1>2. cur[p] \in Bufs /\ None \notin Bufs /\ None \notin Blocks /\ blk[b] \in Blocks
  BY <1>1, BCacheAssumption, Zenon DEF Guards, Bufs, Types
<1>3. blk[cur[p]] = want[p]
  BY <1>2 DEF Counts
<1> QED
  BY <1>1, <1>2, <1>3 DEF OneBuffer

\* A step that is not bpin's or bunpin's leaves the pins in the counts alone.
LEMMA SameCounted ==
  ASSUME Types, NEW p \in Procs, NEW loc, pc' = [pc EXCEPT ![p] = loc], pinned' = pinned,
         pc[p] \notin {"bpin", "bunpin"}, loc \notin {"bpin", "bunpin"},
         \A q \in Procs \ {p} : want'[q] = want[q]
  PROVE  Counted' = Counted
<1>1. pc'[p] = loc /\ \A q \in Procs \ {p} : pc'[q] = pc[q]
  BY DEF Types
<1>2. Storing("bpin")' = Storing("bpin")
  BY <1>1 DEF Storing, At
<1>3. Storing("bunpin")' = Storing("bunpin")
  BY <1>1 DEF Storing, At
<1> QED
  BY <1>2, <1>3 DEF Counted

LEMMA QuietKeepsCounts ==
  ASSUME Types, Counts, NEW p \in Procs, NEW loc, pc' = [pc EXCEPT ![p] = loc],
         pc[p] \notin {"bpin", "bunpin"}, loc \notin {"bpin", "bunpin"},
         UNCHANGED <<blk, refcnt, cur, want, pinned>>
  PROVE  Counts'
<1>1. Counted' = Counted
  BY SameCounted, Zenon
<1>2. \A b \in Bufs : GuardsOn(b)' = GuardsOn(b)
  BY DEF GuardsOn
<1>3. \A b \in Bufs :
        refcnt'[b] = Cardinality(GuardsOn(b)') + (IF blk'[b] \in Counted' THEN 1 ELSE 0)
  BY <1>1, <1>2 DEF Counts
<1>4. \A q \in Procs \ {p} : pc'[q] = pc[q]
  BY DEF Types
<1>5. pc'[p] = loc
  BY DEF Types
<1> QED
  BY <1>3, <1>4, <1>5 DEF Counts

\* A block enters the log, and leaves it, before its pin is counted.
LEMMA PinKeepsCounts ==
  ASSUME Types, OneBuffer, Guards, Counts, NEW p \in Procs, Bpin(p) \/ Bunpin(p)
  PROVE  Counts'
<1> DEFINE w == want[p]
<1>0. /\ pc[p] \in Holding /\ cur[p] \in Bufs /\ w \in Blocks /\ blk[cur[p]] = w
      /\ UNCHANGED <<blk, refcnt, cur, want>>
  <2>1. pc[p] \in {"use", "dirty"} /\ UNCHANGED <<blk, refcnt, cur, want>>
    BY DEF Bpin, Bunpin, LoadCount, At
  <2>2. cur[p] \in Bufs /\ w \in Blocks /\ None \notin Bufs
    BY <2>1, BCacheAssumption DEF Guards, Bufs
  <2> QED
    BY <2>1, <2>2 DEF Counts, Holding
<1> USE <1>0
<1>1. \A q \in Procs \ {p} : pc[q] \in {"bpin", "bunpin"} => want[q] # w
  BY Exclusive DEF Holding
<1>2. \A q \in Procs \ {p} : pc'[q] = pc[q]
  BY DEF Bpin, Bunpin, LoadCount, Goto, Types
<1> USE <1>2
<1>3. CASE Bpin(p)
  <2>1. w \notin pinned /\ pinned' = pinned \union {w} /\ pc'[p] = "bpin" /\ pc[p] = "dirty"
    BY <1>3 DEF Bpin, LoadCount, Goto, At, Types
  <2>2. Storing("bpin")' = Storing("bpin") \union {w}
    BY <2>1 DEF Storing, At
  <2>3. Storing("bunpin")' = Storing("bunpin")
    BY <2>1 DEF Storing, At
  <2>4. Counted' = Counted
    BY <2>1, <2>2, <2>3 DEF Counted
  <2>5. \A b \in Bufs : GuardsOn(b)' = GuardsOn(b)
    BY DEF GuardsOn
  <2>6. \A b \in Bufs :
          refcnt'[b] = Cardinality(GuardsOn(b)') + (IF blk'[b] \in Counted' THEN 1 ELSE 0)
    BY <2>4, <2>5 DEF Counts
  <2>7. \A q \in Procs : /\ pc'[q] = "bpin" => want'[q] \in pinned'
                         /\ pc'[q] = "bunpin" => want'[q] \notin pinned'
    BY <1>1, <2>1 DEF Counts
  <2>8. \A j \in pinned' : \E c \in Bufs : blk'[c] = j
    BY <2>1 DEF Counts
  <2> QED
    BY <2>6, <2>7, <2>8 DEF Counts
<1>4. CASE Bunpin(p)
  <2>1. w \in pinned /\ pinned' = pinned \ {w} /\ pc'[p] = "bunpin" /\ pc[p] = "use"
    BY <1>4 DEF Bunpin, LoadCount, Goto, At, Types
  <2>2. Storing("bpin")' = Storing("bpin") /\ w \notin Storing("bpin")
    BY <1>1, <2>1 DEF Storing, At
  <2>3. Storing("bunpin")' = Storing("bunpin") \union {w}
    BY <2>1 DEF Storing, At
  <2>4. Counted' = Counted
    BY <2>1, <2>2, <2>3 DEF Counted
  <2>5. \A b \in Bufs : GuardsOn(b)' = GuardsOn(b)
    BY DEF GuardsOn
  <2>6. \A b \in Bufs :
          refcnt'[b] = Cardinality(GuardsOn(b)') + (IF blk'[b] \in Counted' THEN 1 ELSE 0)
    BY <2>4, <2>5 DEF Counts
  <2>7. \A q \in Procs : /\ pc'[q] = "bpin" => want'[q] \in pinned'
                         /\ pc'[q] = "bunpin" => want'[q] \notin pinned'
    BY <1>1, <2>1 DEF Counts
  <2>8. \A j \in pinned' : \E c \in Bufs : blk'[c] = j
    BY <2>1 DEF Counts
  <2> QED
    BY <2>6, <2>7, <2>8 DEF Counts
<1> QED
  BY <1>3, <1>4

-----------------------------------------------------------------------------
(***************************************************************************)
(* Following the list.                                                     *)
(***************************************************************************)

\* A link that runs through all buffers in the order s is followed along s.
LEMMA ChainIs ==
  ASSUME Facts, NEW f, NEW s \in [1..NBUF -> Bufs],
         \A i \in 1..NBUF : f[s[i]] = IF i < NBUF THEN s[i + 1] ELSE None
  PROVE  Chain(f, s[1]) = s
<1> USE BCacheAssumption
<1> DEFINE C == UNION {[1..n -> Bufs] : n \in 1..NBUF}
<1>1. s \in C /\ IsChain(s, f, s[1])
  BY DEF IsChain
<1>2. ASSUME NEW c \in C, IsChain(c, f, s[1])
      PROVE  c = s
  <2>1. PICK n \in 1..NBUF : c \in [1..n -> Bufs]
    OBVIOUS
  <2> USE <2>1
  <2>2. c[1] = s[1] /\ \A i \in 1..n : f[c[i]] = IF i < n THEN c[i + 1] ELSE None
    BY <1>2 DEF IsChain
  <2> DEFINE D == {i \in 1..n : c[i] # s[i]}
  <2>3. D = {}
    <3> SUFFICES ASSUME D # {} PROVE FALSE
      OBVIOUS
    <3>1. D \subseteq Nat
      OBVIOUS
    <3>2. PICK m \in D : \A y \in D : m <= y
      BY <3>1, Zenon DEF Facts, LeastFact
    <3>3. m \in 1..n /\ c[m] # s[m] /\ \A y \in D : m <= y
      BY <3>2
    <3>4. m # 1 /\ m - 1 \in 1..n /\ m - 1 < n /\ ~(m <= m - 1)
      BY <2>2, <3>3
    <3>5. c[m - 1] = s[m - 1]
      BY <3>3, <3>4
    <3>6. f[c[m - 1]] = c[m]
      BY <2>2, <3>3, <3>4
    <3>7. f[s[m - 1]] = s[m]
      BY <3>3, <3>4
    <3> QED
      BY <3>3, <3>5, <3>6, <3>7
  <2>4. \A i \in 1..n : c[i] = s[i]
    BY <2>3
  <2>5. n = NBUF
    <3> SUFFICES ASSUME n < NBUF PROVE FALSE
      OBVIOUS
    <3>1. f[c[n]] = None
      BY <2>2
    <3>2. f[s[n]] = s[n + 1] /\ s[n + 1] \in Bufs
      OBVIOUS
    <3>3. c[n] = s[n] /\ None \notin Bufs
      BY <2>4 DEF Bufs
    <3> QED
      BY <3>1, <3>2, <3>3
  <2> QED
    BY <2>4, <2>5
<1>3. Chain(f, s[1]) \in C /\ IsChain(Chain(f, s[1]), f, s[1])
  BY <1>1, Zenon DEF Chain
<1> QED
  BY <1>2, <1>3

\* What the walks of find and recycle stop at.
LEMMA FirstIs ==
  ASSUME Facts, NEW s \in [1..NBUF -> Bufs], NEW S \in SUBSET Bufs,
         \A b \in Bufs : \E i \in 1..NBUF : s[i] = b
  PROVE  IF First(s, S) = None THEN S = {} ELSE First(s, S) \in S
<1> USE BCacheAssumption
<1> DEFINE hits == {i \in DOMAIN s : s[i] \in S}
<1>1. CASE hits = {}
  BY <1>1 DEF First
<1>2. CASE hits # {}
  <2>1. hits \subseteq Nat
    OBVIOUS
  <2> DEFINE m == CHOOSE i \in hits : \A j \in hits : i <= j
  <2>2. m \in hits
    <3>1. \E i \in hits : \A j \in hits : i <= j
      BY <1>2, <2>1, Zenon DEF Facts, LeastFact
    <3> HIDE DEF hits
    <3> QED
      BY <3>1, Zenon
  <2>3. First(s, S) = s[m]
    BY <1>2, Zenon DEF First
  <2> HIDE DEF m
  <2>4. First(s, S) \in S
    BY <2>2, <2>3
  <2> QED
    BY <2>4, Zenon DEF Bufs
<1> QED
  BY <1>1, <1>2

\* The list from the head and from the tail.
LEMMA Chains ==
  ASSUME Facts, NEW s, NEW r, Linked(s, r)
  PROVE  /\ Chain(next, head) = s
         /\ Chain(prev, tail) = [i \in 1..NBUF |-> s[NBUF + 1 - i]]
<1> USE BCacheAssumption
<1>1. Chain(next, head) = s
  <2>1. /\ s \in [1..NBUF -> Bufs] /\ head = s[1]
        /\ \A i \in 1..NBUF : next[s[i]] = IF i < NBUF THEN s[i + 1] ELSE None
    BY DEF Linked
  <2> QED
    BY <2>1, ChainIs
<1> DEFINE t == [i \in 1..NBUF |-> s[NBUF + 1 - i]]
<1>2. t \in [1..NBUF -> Bufs] /\ t[1] = tail
  BY DEF Linked
<1>3. ASSUME NEW i \in 1..NBUF
      PROVE  prev[t[i]] = IF i < NBUF THEN t[i + 1] ELSE None
  <2>1. NBUF + 1 - i \in 1..NBUF /\ t[i] = s[NBUF + 1 - i]
    OBVIOUS
  <2>2. i < NBUF => NBUF + 1 - i > 1 /\ t[i + 1] = s[(NBUF + 1 - i) - 1]
    OBVIOUS
  <2>3. i >= NBUF => ~(NBUF + 1 - i > 1)
    OBVIOUS
  <2> QED
    BY <2>1, <2>2, <2>3 DEF Linked
<1>4. Chain(prev, t[1]) = t
  BY <1>2, <1>3, ChainIs, Zenon
<1> QED
  BY <1>1, <1>2, <1>4

\* BufMetaLru::find finds the block if a buffer has it.
LEMMA FindIs ==
  ASSUME Facts, Types, List, NEW k
  PROVE  IF Find(k) = None THEN \A b \in Bufs : blk[b] # k
                           ELSE Find(k) \in Bufs /\ blk[Find(k)] = k
<1>1. PICK s, r : Linked(s, r)
  BY DEF List
<1> DEFINE S == {b \in Bufs : blk[b] = k}
<1>2. Find(k) = First(s, S)
  BY <1>1, Chains DEF Find
<1>3. s \in [1..NBUF -> Bufs] /\ \A b \in Bufs : \E i \in 1..NBUF : s[i] = b
  BY <1>1 DEF Linked
<1>4. IF First(s, S) = None THEN S = {} ELSE First(s, S) \in S
  BY <1>3, FirstIs, Zenon
<1> QED
  BY <1>2, <1>4

\* BufMetaLru::recycle finds a buffer if there is one without a reference.
LEMMA RecyclableIs ==
  ASSUME Facts, Types, List
  PROVE  IF Recyclable = None THEN \A b \in Bufs : refcnt[b] # 0
                              ELSE Recyclable \in Bufs /\ refcnt[Recyclable] = 0
<1> USE BCacheAssumption
<1>1. PICK s, r : Linked(s, r)
  BY DEF List
<1> DEFINE S == {b \in Bufs : refcnt[b] = 0}
           t == [i \in 1..NBUF |-> s[NBUF + 1 - i]]
<1>2. Recyclable = First(t, S)
  BY <1>1, Chains DEF Recyclable
<1>3. t \in [1..NBUF -> Bufs]
  BY <1>1 DEF Linked
<1>4. ASSUME NEW b \in Bufs
      PROVE  \E i \in 1..NBUF : t[i] = b
  <2>1. r[b] \in 1..NBUF /\ s[r[b]] = b
    BY <1>1 DEF Linked
  <2>2. NBUF + 1 - r[b] \in 1..NBUF /\ t[NBUF + 1 - r[b]] = s[r[b]]
    BY <2>1
  <2> QED
    BY <2>1, <2>2
<1> HIDE DEF t
<1>5. IF First(t, S) = None THEN S = {} ELSE First(t, S) \in S
  BY <1>3, <1>4, FirstIs
<1> QED
  BY <1>2, <1>5

LEMMA FindsDoes ==
  ASSUME Facts, Types, List
  PROVE  Finds
BY FindIs, RecyclableIs DEF Finds

-----------------------------------------------------------------------------
(***************************************************************************)
(* The counts, where the guards change.                                    *)
(***************************************************************************)

LEMMA GuardsFinite ==
  ASSUME Facts, NEW b
  PROVE  /\ IsFiniteSet(GuardsOn(b)) /\ Cardinality(GuardsOn(b)) \in Nat
         /\ GuardsOn(b) # {} => Cardinality(GuardsOn(b)) >= 1
<1>1. IsFiniteSet(Procs) /\ GuardsOn(b) \subseteq Procs
  BY BCacheAssumption DEF GuardsOn
<1>2. IsFiniteSet(GuardsOn(b))
  BY <1>1 DEF Facts, FiniteFact
<1>3. Cardinality(GuardsOn(b)) \in Nat /\ (Cardinality(GuardsOn(b)) = 0 <=> GuardsOn(b) = {})
  BY <1>2 DEF Facts, FiniteFact
<1> QED
  BY <1>2, <1>3

\* A count that is 0 says that there is no guard and no pin.
LEMMA Protected ==
  ASSUME Facts, Types, Counts, NEW b \in Bufs
  PROVE  /\ refcnt[b] >= 0
         /\ refcnt[b] = 0 => blk[b] \notin Counted /\ \A p \in Procs : cur[p] # b
<1>1. refcnt[b] = Cardinality(GuardsOn(b)) + (IF blk[b] \in Counted THEN 1 ELSE 0)
  BY DEF Counts
<1>2. Cardinality(GuardsOn(b)) \in Nat /\ (GuardsOn(b) # {} => Cardinality(GuardsOn(b)) >= 1)
  BY GuardsFinite
<1>3. refcnt[b] >= 0 /\ (refcnt[b] = 0 => blk[b] \notin Counted /\ GuardsOn(b) = {})
  BY <1>1, <1>2
<1> QED
  BY <1>3 DEF GuardsOn

LEMMA CountsDoTell ==
  ASSUME Facts, Types, Counts
  PROVE  CountsTell
BY Protected DEF CountsTell

\* find gives one more guard.
LEMMA BgetFoundKeepsCounts ==
  ASSUME Facts, Types, List, Guards, Counts, NEW p \in Procs, NEW k \in Blocks, BgetFound(p, k)
  PROVE  Counts'
<1>1. PICK b \in Bufs :
        /\ blk[b] = k /\ pc[p] = "idle" /\ pc' = [pc EXCEPT ![p] = "lock"]
        /\ refcnt' = [refcnt EXCEPT ![b] = @ + 1]
        /\ cur' = [cur EXCEPT ![p] = b] /\ want' = [want EXCEPT ![p] = k]
        /\ blk' = blk /\ pinned' = pinned
  BY FindIs, Zenon DEF BgetFound, At, Goto, ghostVars
<1> USE <1>1
<1>2. cur[p] = None /\ None \notin Bufs
  BY BCacheAssumption DEF Guards, Bufs
<1>3. Counted' = Counted
  <2>1. \A q \in Procs \ {p} : want'[q] = want[q]
    BY DEF Types
  <2>2. pc[p] \notin {"bpin", "bunpin"} /\ "lock" \notin {"bpin", "bunpin"}
    OBVIOUS
  <2> QED
    BY <2>1, <2>2, SameCounted, Zenon
<1>4. GuardsOn(b)' = GuardsOn(b) \union {p} /\ p \notin GuardsOn(b)
  <2>1. cur'[p] = b /\ \A q \in Procs \ {p} : cur'[q] = cur[q]
    BY DEF Types
  <2> QED
    BY <1>2, <2>1 DEF GuardsOn
<1>5. \A c \in Bufs \ {b} : GuardsOn(c)' = GuardsOn(c)
  BY <1>2 DEF GuardsOn, Types
<1>6. Cardinality(GuardsOn(b)') = Cardinality(GuardsOn(b)) + 1
  BY <1>4, GuardsFinite, Zenon DEF Facts, AddFact
<1>7. ASSUME NEW c \in Bufs
      PROVE  refcnt'[c] = Cardinality(GuardsOn(c)') + (IF blk'[c] \in Counted' THEN 1 ELSE 0)
  <2>1. refcnt[c] = Cardinality(GuardsOn(c)) + (IF blk[c] \in Counted THEN 1 ELSE 0)
    BY DEF Counts
  <2>2. Cardinality(GuardsOn(c)) \in Nat
    BY GuardsFinite
  <2>3. CASE c = b
    <3>1. refcnt'[b] = refcnt[b] + 1 /\ blk' = blk
      BY DEF Types
    <3> HIDE <1>1
    <3> QED
      BY <1>3, <1>6, <2>1, <2>2, <2>3, <3>1
  <2>4. CASE c # b
    BY <1>3, <1>5, <2>1, <2>2, <2>4, Zenon DEF Types
  <2> QED
    BY <2>3, <2>4
<1>8. \A q \in Procs : cur'[q] # None => blk'[cur'[q]] = want'[q]
  BY DEF Counts, Types
<1>9. \A q \in Procs : /\ pc'[q] = "bpin" => want'[q] \in pinned'
                       /\ pc'[q] = "bunpin" => want'[q] \notin pinned'
  BY DEF Counts, Types
<1>10. \A j \in pinned' : \E c \in Bufs : blk'[c] = j
  BY DEF Counts
<1> QED
  BY <1>7, <1>8, <1>9, <1>10 DEF Counts

\* recycle takes a buffer without a guard and without a pin.
LEMMA BgetRecycledKeepsCounts ==
  ASSUME Facts, Types, List, OneBuffer, Guards, Counts, NEW p \in Procs, NEW k \in Blocks,
         BgetRecycled(p, k)
  PROVE  Counts'
<1>1. PICK b \in Bufs :
        /\ refcnt[b] = 0 /\ pc[p] = "idle" /\ pc' = [pc EXCEPT ![p] = "lock"]
        /\ refcnt' = [refcnt EXCEPT ![b] = @ + 1] /\ blk' = [blk EXCEPT ![b] = k]
        /\ cur' = [cur EXCEPT ![p] = b] /\ want' = [want EXCEPT ![p] = k]
        /\ pinned' = pinned
  BY RecyclableIs, Zenon DEF BgetRecycled, At, Goto, ghostVars
<1> USE <1>1
<1>2. /\ \A c \in Bufs : blk[c] # k
      /\ None \notin Bufs /\ None \notin Blocks
  BY FindIs, BCacheAssumption DEF BgetRecycled, Bufs
<1>3. blk[b] \notin Counted /\ \A q \in Procs : cur[q] # b
  BY Protected
<1>4. Counted' = Counted
  <2>1. \A q \in Procs \ {p} : want'[q] = want[q]
    BY DEF Types
  <2>2. pc[p] \notin {"bpin", "bunpin"} /\ "lock" \notin {"bpin", "bunpin"}
    OBVIOUS
  <2> QED
    BY <2>1, <2>2, SameCounted, Zenon
<1>5. k \notin Counted
  <2>1. k \notin pinned
    BY <1>2 DEF Counts
  <2>2. ASSUME NEW q \in Procs, pc[q] = "bunpin", want[q] = k
        PROVE  FALSE
    <3>1. cur[q] \in Bufs
      BY <2>2 DEF Guards
    <3> QED
      BY <1>2, <2>2, <3>1 DEF Counts
  <2> QED
    BY <2>1, <2>2 DEF Counted, Storing, At
<1>6. /\ cur'[p] = b /\ want'[p] = k
      /\ \A q \in Procs \ {p} : cur'[q] = cur[q] /\ want'[q] = want[q]
      /\ blk'[b] = k /\ \A c \in Bufs \ {b} : blk'[c] = blk[c]
  BY DEF Types
<1>7. cur[p] = None
  BY DEF Guards
<1>8. GuardsOn(b)' = {p} /\ \A c \in Bufs \ {b} : GuardsOn(c)' = GuardsOn(c)
  BY <1>2, <1>3, <1>6, <1>7 DEF GuardsOn
<1>9. ASSUME NEW c \in Bufs
      PROVE  refcnt'[c] = Cardinality(GuardsOn(c)') + (IF blk'[c] \in Counted' THEN 1 ELSE 0)
  <2>1. CASE c = b
    <3>1. Cardinality(GuardsOn(b)') = 1
      BY <1>8, Zenon DEF Facts, FiniteFact
    <3>2. refcnt'[b] = 1
      BY DEF Types
    <3> HIDE <1>1
    <3>3. blk'[b] \notin Counted'
      BY <1>4, <1>5, <1>6
    <3> QED
      BY <2>1, <3>1, <3>2, <3>3
  <2>2. CASE c # b
    <3>1. refcnt'[c] = refcnt[c]
      BY <2>2 DEF Types
    <3> QED
      BY <1>4, <1>6, <1>8, <2>2, <3>1 DEF Counts
  <2> QED
    BY <2>1, <2>2
<1>10. ASSUME NEW q \in Procs, cur'[q] # None
       PROVE  blk'[cur'[q]] = want'[q]
  <2> HIDE <1>1
  <2>1. CASE q = p
    BY <1>6, <2>1, Zenon
  <2>2. CASE q # p
    <3>1. cur[q] # None /\ cur[q] # b /\ cur'[q] = cur[q] /\ want'[q] = want[q]
      BY <1>3, <1>6, <1>10, <2>2
    <3>2. cur[q] \in Bufs /\ blk[cur[q]] = want[q]
      BY <3>1 DEF Counts, Types
    <3> QED
      BY <1>6, <3>1, <3>2
  <2> QED
    BY <2>1, <2>2
<1>11. ASSUME NEW j \in pinned
       PROVE  \E c \in Bufs : blk'[c] = j
  <2>1. PICK c \in Bufs : blk[c] = j
    BY DEF Counts
  <2>2. c # b
    BY <1>3, <2>1, PinnedProtected
  <2> QED
    BY <1>6, <2>1, <2>2
<1>12. \A q \in Procs : /\ pc'[q] = "bpin" => want'[q] \in pinned'
                        /\ pc'[q] = "bunpin" => want'[q] \notin pinned'
  BY DEF Counts, Types
<1> QED
  BY <1>9, <1>10, <1>11, <1>12 DEF Counts

\* brelse takes one guard.
LEMMA BrelseKeepsCounts ==
  ASSUME Facts, Types, Guards, Counts, NEW p \in Procs, Brelse(p)
  PROVE  Counts'
<1>1. PICK b \in Bufs :
        /\ b = cur[p] /\ pc[p] = "brelse" /\ pc' = [pc EXCEPT ![p] = "idle"]
        /\ refcnt' = [refcnt EXCEPT ![b] = @ - 1] /\ blk' = blk
        /\ cur' = [cur EXCEPT ![p] = None] /\ want' = [want EXCEPT ![p] = None]
        /\ pinned' = pinned
  BY Zenon DEF Brelse, Guards, At, Goto, ghostVars
<1> USE <1>1
<1>2. None \notin Bufs
  BY BCacheAssumption DEF Bufs
<1>3. /\ cur'[p] = None /\ \A q \in Procs \ {p} : cur'[q] = cur[q] /\ want'[q] = want[q]
  BY DEF Types
<1>4. Counted' = Counted
  <2>1. pc[p] \notin {"bpin", "bunpin"} /\ "idle" \notin {"bpin", "bunpin"}
    OBVIOUS
  <2> QED
    BY <1>3, <2>1, SameCounted, Zenon
<1>5. /\ GuardsOn(b)' = GuardsOn(b) \ {p} /\ p \in GuardsOn(b)
      /\ \A c \in Bufs \ {b} : GuardsOn(c)' = GuardsOn(c)
  BY <1>2, <1>3 DEF GuardsOn
<1>6. Cardinality(GuardsOn(b)') = Cardinality(GuardsOn(b)) - 1
  BY <1>5, GuardsFinite, Zenon DEF Facts, RemoveFact
<1>7. ASSUME NEW c \in Bufs
      PROVE  refcnt'[c] = Cardinality(GuardsOn(c)') + (IF blk'[c] \in Counted' THEN 1 ELSE 0)
  <2>1. refcnt[c] = Cardinality(GuardsOn(c)) + (IF blk[c] \in Counted THEN 1 ELSE 0)
    BY DEF Counts
  <2>2. Cardinality(GuardsOn(c)) \in Nat
    BY GuardsFinite
  <2>3. CASE c = b
    BY <1>4, <1>6, <2>1, <2>2, <2>3 DEF Types
  <2>4. CASE c # b
    BY <1>4, <1>5, <2>1, <2>2, <2>4 DEF Types
  <2> QED
    BY <2>3, <2>4
<1>8. \A q \in Procs : cur'[q] # None => blk'[cur'[q]] = want'[q]
  BY <1>3 DEF Counts, Types
<1>9. \A q \in Procs : /\ pc'[q] = "bpin" => want'[q] \in pinned'
                       /\ pc'[q] = "bunpin" => want'[q] \notin pinned'
  BY DEF Counts, Types
<1>10. \A j \in pinned' : \E c \in Bufs : blk'[c] = j
  BY DEF Counts
<1> QED
  BY <1>7, <1>8, <1>9, <1>10 DEF Counts

\* bpin and bunpin, if no other CPU has changed the count since the load.
LEMMA PinStoreKeepsCounts ==
  ASSUME Facts, Types, OneBuffer, Guards, Counts, lost = 0, lost' = 0, NEW p \in Procs, PinStore(p)
  PROVE  Counts'
<1>1. PICK b \in Bufs, w \in Blocks, d \in {1, -1} :
        /\ b = cur[p] /\ w = want[p] /\ blk[b] = w /\ refcnt[b] = tmp[p]
        /\ refcnt' = [refcnt EXCEPT ![b] = @ + d]
        /\ pc[p] = IF d = 1 THEN "bpin" ELSE "bunpin"
        /\ pc' = [pc EXCEPT ![p] = "use"]
        /\ UNCHANGED <<blk, cur, want, pinned>>
  <2>1. pc[p] \in {"bpin", "bunpin"} /\ cur[p] \in Bufs /\ want[p] \in Blocks /\ None \notin Bufs
    BY BCacheAssumption DEF PinStore, At, Guards, Bufs
  <2>2. blk[cur[p]] = want[p] /\ refcnt[cur[p]] = tmp[p]
    BY <2>1 DEF PinStore, StoreCount, Counts
  <2>3. CASE pc[p] = "bpin"
    BY <2>1, <2>2, <2>3 DEF PinStore, StoreCount, At, Goto, Types
  <2>4. CASE pc[p] = "bunpin"
    BY <2>1, <2>2, <2>4 DEF PinStore, StoreCount, At, Goto, Types
  <2> QED
    BY <2>1, <2>3, <2>4
<1> USE <1>1
<1>2. pc'[p] = "use" /\ \A q \in Procs \ {p} : pc'[q] = pc[q]
  BY DEF Types
<1>3. \A q \in Procs \ {p} : pc[q] \in {"bpin", "bunpin"} => want[q] # w
  BY Exclusive DEF Holding
<1>4. /\ d = 1 => Counted' = Counted \union {w} /\ w \notin Counted
      /\ d = -1 => Counted' = Counted \ {w} /\ w \in Counted
  <2>1. Storing("bpin")' = Storing("bpin") \ {w} /\ (w \in Storing("bpin") <=> d = 1)
    BY <1>2, <1>3 DEF Storing, At
  <2>2. Storing("bunpin")' = Storing("bunpin") \ {w} /\ (w \in Storing("bunpin") <=> d = -1)
    BY <1>2, <1>3 DEF Storing, At
  <2>3. (d = 1 => w \in pinned) /\ (d = -1 => w \notin pinned)
    BY DEF Counts
  <2>4. d = 1 \/ d = -1
    OBVIOUS
  <2> QED
    BY <2>1, <2>2, <2>3, <2>4 DEF Counted
<1>5. \A c \in Bufs \ {b} : blk[c] # w
  BY BCacheAssumption DEF OneBuffer
<1>6. ASSUME NEW c \in Bufs
      PROVE  refcnt'[c] = Cardinality(GuardsOn(c)') + (IF blk'[c] \in Counted' THEN 1 ELSE 0)
  <2>1. refcnt[c] = Cardinality(GuardsOn(c)) + (IF blk[c] \in Counted THEN 1 ELSE 0)
    BY DEF Counts
  <2>2. Cardinality(GuardsOn(c)) \in Nat /\ GuardsOn(c)' = GuardsOn(c) /\ blk' = blk
    BY GuardsFinite, Zenon DEF GuardsOn
  <2>3. CASE c = b
    <3>1. refcnt'[c] = refcnt[c] + d /\ blk[c] = w /\ (d = 1 \/ d = -1)
      BY <2>3 DEF Types
    <3> HIDE <1>1
    <3>2. CASE d = 1
      BY <1>4, <2>1, <2>2, <3>1, <3>2
    <3>3. CASE d = -1
      BY <1>4, <2>1, <2>2, <3>1, <3>3
    <3> QED
      BY <3>1, <3>2, <3>3
  <2>4. CASE c # b
    <3>1. refcnt'[c] = refcnt[c] /\ (blk[c] \in Counted' <=> blk[c] \in Counted)
      BY <1>4, <1>5, <2>4 DEF Types
    <3> QED
      BY <2>1, <2>2, <3>1
  <2> QED
    BY <2>3, <2>4
<1>7. \A q \in Procs : /\ pc'[q] = "bpin" => want'[q] \in pinned'
                       /\ pc'[q] = "bunpin" => want'[q] \notin pinned'
  BY <1>2 DEF Counts
<1> QED
  BY <1>6, <1>7 DEF Counts

LEMMA NextKeepsCounts ==
  ASSUME Facts, Types, List, OneBuffer, Guards, Counts, lost = 0, lost' = 0, Next \/ UNCHANGED vars
  PROVE  Counts'
<1>0. SUFFICES ASSUME Next
               PROVE  Counts'
  <2>1. ASSUME UNCHANGED vars
        PROVE  Counts'
    <3>1. UNCHANGED <<refcnt, blk, cur, want, pc, pinned>>
      BY <2>1, Zenon DEF vars
    <3>2. Counted' = Counted /\ \A b \in Bufs : GuardsOn(b)' = GuardsOn(b)
      BY <3>1 DEF GuardsOn, Counted, Storing, At
    <3> QED
      BY <3>1, <3>2 DEF Counts
  <2> QED
    BY <2>1
<1>1. PICK p \in Procs : GuardStep(p) \/ \E k \in Blocks :
                           BgetFound(p, k) \/ BgetRecycled(p, k) \/ BgetPanics(p, k)
  BY <1>0 DEF Next
<1>2. ASSUME NEW k \in Blocks, BgetPanics(p, k)
      PROVE  Counts'
  BY <1>2, QuietKeepsCounts, Zenon DEF BgetPanics, At, Goto, ghostVars
<1>3. CASE Bread(p)
  <2>1. PICK loc \in {"use", "read"} : pc' = [pc EXCEPT ![p] = loc]
    BY <1>3, Zenon DEF Bread, Goto
  <2>2. pc[p] = "lock" /\ UNCHANGED <<blk, refcnt, cur, want, pinned>>
    BY <1>3 DEF Bread, At, ghostVars
  <2>3. pc[p] \notin {"bpin", "bunpin"} /\ loc \notin {"bpin", "bunpin"}
    BY <2>2
  <2> QED
    BY <2>1, <2>2, <2>3, QuietKeepsCounts, Zenon
<1>4. CASE ReadDisk(p)
  BY <1>4, QuietKeepsCounts, Zenon DEF ReadDisk, At, Goto, ghostVars
<1>5. ASSUME NEW v \in Values, Modify(p, v)
      PROVE  Counts'
  BY <1>5, QuietKeepsCounts, Zenon DEF Modify, At, Goto
<1>6. CASE Bwrite(p)
  BY <1>6, QuietKeepsCounts, Zenon DEF Bwrite, At, Goto, ghostVars
<1>7. CASE Absorb(p)
  BY <1>7, QuietKeepsCounts, Zenon DEF Absorb, At, Goto, ghostVars
<1>8. CASE DropData(p)
  BY <1>8, QuietKeepsCounts, Zenon DEF DropData, At, Goto, ghostVars
<1> QED
  BY <1>1, <1>2, <1>3, <1>4, <1>5, <1>6, <1>7, <1>8, BgetFoundKeepsCounts,
     BgetRecycledKeepsCounts, BrelseKeepsCounts, PinKeepsCounts, PinStoreKeepsCounts DEF GuardStep

-----------------------------------------------------------------------------
(***************************************************************************)
(* Who has the buffers, and what a lost update leaves.                     *)
(***************************************************************************)

\* A buffer whose count is not 0 has a guard or a pinned block.
LEMMA TakenBuffer ==
  ASSUME Facts, Types, OneBuffer, Guards, Counts, NEW b \in Bufs, refcnt[b] # 0
  PROVE  blk[b] \in pinned \/ \E q \in Procs : cur[q] = b
<1> SUFFICES ASSUME \A q \in Procs : cur[q] # b PROVE blk[b] \in pinned
  OBVIOUS
<1>1. GuardsOn(b) = {}
  BY DEF GuardsOn
<1>2. Cardinality(GuardsOn(b)) = 0
  BY <1>1 DEF Facts, FiniteFact
<1>3. refcnt[b] = Cardinality(GuardsOn(b)) + (IF blk[b] \in Counted THEN 1 ELSE 0)
  BY DEF Counts
<1>4. blk[b] \in Counted
  BY <1>2, <1>3
<1>5. ASSUME NEW q \in Procs, pc[q] = "bunpin", blk[b] = want[q]
      PROVE  FALSE
  <2>1. cur[q] \in Bufs /\ want[q] \in Blocks /\ None \notin Bufs /\ None \notin Blocks
    BY <1>5, BCacheAssumption DEF Guards, Bufs
  <2>2. blk[cur[q]] = want[q]
    BY <2>1 DEF Counts
  <2> QED
    BY <1>5, <2>1, <2>2 DEF OneBuffer
<1> QED
  BY <1>4, <1>5 DEF Counted, Storing, At

\* An update that was lost is not forgotten.
LEMMA NextKeepsLost ==
  ASSUME Types, Next \/ UNCHANGED vars, lost' = 0
  PROVE  lost = 0
<1> SUFFICES lost' \in {lost, lost + 1}
  BY DEF Types
<1>1. CASE UNCHANGED vars
  BY <1>1, Zenon DEF vars
<1>2. ASSUME NEW p \in Procs, NEW k \in Blocks,
             BgetFound(p, k) \/ BgetRecycled(p, k) \/ BgetPanics(p, k)
      PROVE  lost' = lost
  BY <1>2, Zenon DEF BgetFound, BgetRecycled, BgetPanics, ghostVars
<1>3. ASSUME NEW p \in Procs, PinStore(p)
      PROVE  lost' \in {lost, lost + 1}
  BY <1>3, Zenon DEF PinStore, StoreCount
<1>4. ASSUME NEW p \in Procs, GuardStep(p), ~PinStore(p)
      PROVE  lost' = lost
  BY <1>4, Zenon DEF GuardStep, Bread, ReadDisk, Bwrite, Absorb, Bpin, Bunpin, DropData,
                     Brelse, Modify, ghostVars
<1> QED
  BY <1>1, <1>2, <1>3, <1>4, Zenon DEF Next

\* A linked list reads the same from either end.
LEMMA ListIsOK ==
  ASSUME List
  PROVE  ListOK
<1> USE BCacheAssumption
<1>1. PICK s \in [1..NBUF -> Bufs], r \in [Bufs -> 1..NBUF] : Linked(s, r)
  BY DEF List
<1> DEFINE t == [i \in 1..NBUF |-> s[NBUF + 1 - i]]
<1>2. \A b \in Bufs : \E i \in 1..NBUF : s[i] = b
  BY <1>1 DEF Linked
<1>3. IsChain(s, next, head)
  BY <1>1 DEF Linked, IsChain
<1>4. IsChain(t, prev, tail)
  <2>1. DOMAIN t = 1..NBUF /\ t[1] = tail
    BY <1>1 DEF Linked
  <2>2. ASSUME NEW i \in 1..NBUF
        PROVE  prev[t[i]] = IF i + 1 \in 1..NBUF THEN t[i + 1] ELSE None
    <3>1. NBUF + 1 - i \in 1..NBUF /\ t[i] = s[NBUF + 1 - i]
      OBVIOUS
    <3>2. prev[t[i]] = IF NBUF + 1 - i > 1 THEN s[(NBUF + 1 - i) - 1] ELSE None
      BY <1>1, <3>1 DEF Linked
    <3>3. i + 1 \in 1..NBUF => t[i + 1] = s[(NBUF + 1 - i) - 1] /\ NBUF + 1 - i > 1
      <4>1. (NBUF + 1) - (i + 1) = (NBUF + 1 - i) - 1
        OBVIOUS
      <4> QED
        BY <4>1
    <3>4. i + 1 \notin 1..NBUF => ~(NBUF + 1 - i > 1)
      OBVIOUS
    <3> HIDE DEF t
    <3> QED
      BY <3>2, <3>3, <3>4
  <2> HIDE DEF t
  <2> QED
    BY <2>1, <2>2 DEF IsChain
<1> QED
  BY <1>2, <1>3, <1>4, Zenon DEF ListOK

\* A new cache: all buffers empty, in the order of their numbers.
LEMMA InitIInv == Facts /\ Init => IInv
<1> SUFFICES ASSUME Facts, Init PROVE IInv
  OBVIOUS
<1> USE BCacheAssumption
<1>1. Types
  BY DEF Types, Init, Bufs
<1>2. List
  <2> DEFINE s == [i \in 1..NBUF |-> i]
  <2>1. Linked(s, s)
    BY DEF Linked, Init, Bufs
  <2>2. s \in [1..NBUF -> Bufs] /\ s \in [Bufs -> 1..NBUF]
    BY DEF Bufs
  <2> HIDE DEF s
  <2> QED
    BY <2>1, <2>2 DEF List
<1>3. OneBuffer /\ Guards
  BY DEF OneBuffer, Guards, Holding, Init, Bufs
<1>4. Counts
  <2>1. Counted = {}
    BY DEF Counted, Storing, At, Init
  <2>2. ASSUME NEW b \in Bufs PROVE Cardinality(GuardsOn(b)) = 0
    <3>1. GuardsOn(b) = {}
      BY DEF GuardsOn, Init, Bufs
    <3> QED
      BY <3>1 DEF Facts, FiniteFact
  <2>3. \A b \in Bufs : refcnt[b] = Cardinality(GuardsOn(b)) + (IF blk[b] \in Counted THEN 1 ELSE 0)
    BY <2>1, <2>2 DEF Init
  <2> QED
    BY <2>3 DEF Counts, Init
<1>5. Contents
  BY DEF Contents, Init
<1> QED
  BY <1>1, <1>2, <1>3, <1>4, <1>5 DEF IInv

LEMMA NextIInv == Facts /\ IInv /\ [Next]_vars => IInv'
<1> SUFFICES ASSUME Facts, IInv, Next \/ UNCHANGED vars PROVE IInv'
  OBVIOUS
<1>0. Types /\ List /\ OneBuffer /\ Guards /\ (lost = 0 => Counts /\ Contents)
  BY DEF IInv
<1> USE <1>0
<1>1. Types' /\ List' /\ OneBuffer' /\ Guards'
  <2>1. Finds
    BY FindsDoes
  <2> QED
    BY <2>1, NextKeepsTypes, NextKeepsList, NextKeepsOneBuffer, NextKeepsGuards
<1>2. lost' = 0 => lost = 0
  BY NextKeepsLost
<1>3. ASSUME lost' = 0
      PROVE  Counts' /\ Contents'
  <2>1. lost = 0 /\ Counts /\ Contents
    BY <1>2, <1>3
  <2>2. Finds /\ CountsTell
    BY <2>1, FindsDoes, CountsDoTell
  <2> QED
    BY <1>3, <2>1, <2>2, NextKeepsCounts, NextKeepsContents
<1> QED
  BY <1>1, <1>2, <1>3 DEF IInv

-----------------------------------------------------------------------------
(***************************************************************************)
(* The theorems.                                                           *)
(***************************************************************************)
INSTANCE FiniteSetTheorems
INSTANCE WellFoundedInduction

\* A set of numbers that is not empty has a least element.
LEMMA LeastOfNat ==
  ASSUME NEW S, S \subseteq Nat, S # {}
  PROVE  \E x \in S : \A y \in S : x <= y
<1> DEFINE R == {ss \in Nat \X Nat : ss[1] < ss[2]}
<1>1. IsWellFoundedOn(R, Nat)
  BY NatLessThanWellFounded DEF OpToRel
<1>2. PICK x \in S : \A y \in S : ~(<<y, x>> \in R)
  BY <1>1, WFMin, Zenon
<1>3. ASSUME NEW y \in S
      PROVE  x <= y
  <2>1. x \in Nat /\ y \in Nat /\ ~(<<y, x>> \in R)
    BY <1>2
  <2>2. ~(y < x)
    BY <2>1
  <2> QED
    BY <2>1, <2>2
<1> QED
  BY <1>3

LEMMA FactsHold == Facts
<1>1. LeastFact
  BY LeastOfNat, Zenon DEF LeastFact
<1>2. FiniteFact
  BY FS_CardinalityType, FS_EmptySet, FS_Subset, FS_Singleton, Zenon DEF FiniteFact
<1>3. AddFact
  BY FS_AddElement, Zenon DEF AddFact
<1>4. RemoveFact
  BY FS_RemoveElement, Zenon DEF RemoveFact
<1> QED
  BY <1>1, <1>2, <1>3, <1>4 DEF Facts

LEMMA IInvInvariant == Spec => []IInv
<1>1. Init => IInv
  BY FactsHold, InitIInv
<1>2. IInv /\ [Next]_vars => IInv'
  BY FactsHold, NextIInv
<1> QED
  BY <1>1, <1>2, PTL DEF Spec

\* The list that brelse rewires has every buffer exactly once and reads the
\* same from either end, so that find misses no cached block and recycle no
\* free buffer; a lost update of a count does not harm it.
THEOREM BCacheListOK == Spec => []ListOK
<1>1. IInv => ListOK
  BY ListIsOK DEF IInv
<1> QED
  BY <1>1, IInvInvariant, PTL

\* A block is cached in one buffer at most, "a synchronization point for disk
\* blocks used by multiple processes" (bio.rs:4), even after a lost update.
THEOREM BCacheOneBuffer == Spec => []OneBuffer
<1>1. IInv => OneBuffer
  BY DEF IInv
<1> QED
  BY <1>1, IInvInvariant, PTL

\* As long as no unlocked update is lost, the count of a buffer is the number of
\* the guards and of the pins on it.
THEOREM BCacheRefcntCounts == Spec => []RefcntCounts
<1>1. IInv => RefcntCounts
  BY DEF IInv, Counts, GuardsOn, RefcntCounts
<1> QED
  BY <1>1, IInvInvariant, PTL

\* As long as no unlocked update is lost, who has a guard has the block it asked
\* for, as it was last stored by anyone, on the disk or only in the cache.
THEOREM BCacheReadsLatest == Spec => []ReadsLatest
<1>1. IInv => ReadsLatest
  BY GuardShowsLatest DEF IInv, ReadsLatest
<1> QED
  BY <1>1, IInvInvariant, PTL

\* As long as no unlocked update is lost, bget's panic is met only when every
\* buffer has a guard or a block of the log, for any number of buffers, of
\* processes and of pinned blocks.
THEOREM BCachePanicsWhenInUse == Spec => PanicsWhenInUse
<1>1. IInv => NoBuffersMeansInUse
  <2> SUFFICES ASSUME IInv, NEW p \in Procs, NEW k \in Blocks, BgetPanics(p, k), lost = 0,
                      NEW b \in Bufs
               PROVE  blk[b] \in pinned \/ \E q \in Procs : cur[q] = b
    BY DEF NoBuffersMeansInUse
  <2>1. Types /\ List /\ OneBuffer /\ Guards /\ Counts
    BY DEF IInv
  <2>2. refcnt[b] # 0
    BY <2>1, FactsHold, RecyclableIs DEF BgetPanics
  <2> QED
    BY <2>1, <2>2, FactsHold, TakenBuffer
<1> QED
  BY <1>1, IInvInvariant, PTL DEF PanicsWhenInUse

\* Types, and no count below 0 as long as no unlocked update is lost.
THEOREM BCacheTypeOK == Spec => []TypeOK
<1>1. IInv => TypeOK
  <2>1. IInv /\ lost = 0 => \A b \in Bufs : refcnt[b] >= 0
    BY FactsHold, Protected DEF IInv
  <2> QED
    BY <2>1 DEF IInv, Types, TypeOK
<1> QED
  BY <1>1, IInvInvariant, PTL
=============================================================================
