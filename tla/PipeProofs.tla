----------------------------- MODULE PipeProofs -----------------------------
(***************************************************************************)
(* Proofs about Pipe, for every set of processes and every size of the     *)
(* ring.                                                                   *)
(***************************************************************************)
EXTENDS Pipe, TLAPS

\* A leaf that names no prover is tried with the SMT solver, then with Zenon and
\* then, with more time, with the SMT solver again.
USE SMTT(10), Zenon, SMTT(30)

\* Min of two numbers.
LEMMA MinOfTwo ==
  ASSUME NEW a \in Nat, NEW b \in Nat
  PROVE  Min({a, b}) \in Nat /\ Min({a, b}) <= a /\ Min({a, b}) <= b
<1>1. \E x \in {a, b} : \A y \in {a, b} : x <= y
  OBVIOUS
<1>2. Min({a, b}) \in {a, b} /\ \A y \in {a, b} : Min({a, b}) <= y
  BY <1>1, Zenon DEF Min
<1> QED
  BY <1>2

\* Two numbers less than n apart do not share an index of a ring of n.
LEMMA ModApart ==
  ASSUME NEW n \in Nat \ {0}, NEW a \in Nat, NEW b \in Nat, a < b, b < a + n
  PROVE  a % n # b % n
<1> DEFINE qa == a \div n
           qb == b \div n
<1>1. a = n * qa + (a % n) /\ qa \in Int /\ a % n \in 0..n - 1
  OBVIOUS
<1>2. b = n * qb + (b % n) /\ qb \in Int /\ b % n \in 0..n - 1
  OBVIOUS
<1>3. SUFFICES ASSUME a % n = b % n PROVE FALSE
  OBVIOUS
<1> HIDE DEF qa, qb
<1>4. b - a = n * (qb - qa)
  BY <1>1, <1>2, <1>3
<1>5. CASE qb - qa <= 0
  <2>1. n * (qb - qa) <= 0
    BY <1>1, <1>2, <1>5
  <2> QED
    BY <1>4, <2>1
<1>6. CASE qb - qa >= 1
  <2>1. n * (qb - qa) >= n
    BY <1>1, <1>2, <1>6
  <2> QED
    BY <1>4, <2>1
<1> QED
  BY <1>1, <1>2, <1>5, <1>6

-----------------------------------------------------------------------------
(***************************************************************************)
(* The inductive invariant.                                                *)
(***************************************************************************)

\* Types, without the bounds that the guards of Call keep.
Types ==
  /\ data \in [0..PIPE_SIZE - 1 -> Nat]
  /\ n_write \in Nat /\ n_read \in Nat
  /\ n_read <= n_write /\ n_write <= n_read + PIPE_SIZE
  /\ pc \in [Procs -> {"idle", "read", "write", "rsleep", "wsleep"}]
  /\ left \in [Procs -> Nat]
  /\ got \in Seq(Nat)

\* The bytes between the counters are in the ring, each at its index.
RingHolds == \A m \in n_read + 1 .. n_write : data[m % PIPE_SIZE] = m

IInv == Types /\ RingHolds /\ InOrder

\* A new pipe is empty and nobody sleeps.
LEMMA InitIInv == Init => IInv /\ SleepersMustWait
<1> SUFFICES ASSUME Init PROVE IInv /\ SleepersMustWait
  OBVIOUS
<1> USE PipeAssumption DEF Init
<1>1. Types
  BY DEF Types
<1>2. RingHolds
  BY DEF RingHolds
<1>3. InOrder
  BY DEF InOrder
<1>4. SleepersMustWait
  BY DEF SleepersMustWait
<1> QED
  BY <1>1, <1>2, <1>3, <1>4 DEF IInv

-----------------------------------------------------------------------------
(***************************************************************************)
(* The ring.                                                               *)
(***************************************************************************)

\* k bytes that fit go to their indices, and none is overwritten.
LEMMA PutKeeps ==
  ASSUME Types, RingHolds, NEW k \in 0..Space, Put(k), n_read' = n_read
  PROVE  /\ data' \in [0..PIPE_SIZE - 1 -> Nat]
         /\ n_write' \in Nat /\ n_read <= n_write' /\ n_write' <= n_read + PIPE_SIZE
         /\ RingHolds'
<1> USE PipeAssumption DEF Types
<1> DEFINE new(i) == {m \in n_write + 1 .. n_write + k : m % PIPE_SIZE = i}
<1>1. /\ k \in Nat /\ n_write + k <= n_read + PIPE_SIZE
      /\ n_write' = n_write + k
      /\ data' = [i \in 0..PIPE_SIZE - 1 |-> IF new(i) = {} THEN data[i] ELSE Max(new(i))]
  BY DEF Put, Space
<1>2. ASSUME NEW m \in n_write + 1 .. n_write + k
      PROVE  /\ m % PIPE_SIZE \in 0..PIPE_SIZE - 1
             /\ new(m % PIPE_SIZE) = {m}
  <2>1. m % PIPE_SIZE \in 0..PIPE_SIZE - 1
    BY <1>1
  <2>2. ASSUME NEW l \in n_write + 1 .. n_write + k, l % PIPE_SIZE = m % PIPE_SIZE
        PROVE  l = m
    <3>1. l \in Nat /\ m \in Nat /\ l < m + PIPE_SIZE /\ m < l + PIPE_SIZE
      BY <1>1
    <3>2. CASE l < m
      BY <3>1, <3>2, <2>2, ModApart, Zenon
    <3>3. CASE m < l
      BY <3>1, <3>3, <2>2, ModApart, Zenon
    <3> QED
      BY <3>1, <3>2, <3>3
  <2> QED
    BY <2>1, <2>2
<1>3. ASSUME NEW m \in Nat
      PROVE  Max({m}) = m
  BY <1>3 DEF Max
<1>4. ASSUME NEW m \in n_write + 1 .. n_write + k
      PROVE  data'[m % PIPE_SIZE] = m
  <2> HIDE DEF new
  <2>1. m \in Nat
    BY <1>1
  <2> QED
    BY <1>1, <1>2, <1>3, <2>1, Zenon
<1>5. ASSUME NEW m \in n_read + 1 .. n_write
      PROVE  data'[m % PIPE_SIZE] = m
  <2>1. m % PIPE_SIZE \in 0..PIPE_SIZE - 1 /\ m \in Nat
    OBVIOUS
  <2>2. ASSUME NEW l \in n_write + 1 .. n_write + k
        PROVE  l % PIPE_SIZE # m % PIPE_SIZE
    <3>1. l \in Nat /\ m < l /\ l < m + PIPE_SIZE
      BY <1>1
    <3> QED
      BY <3>1, <2>1, ModApart, Zenon
  <2>3. new(m % PIPE_SIZE) = {}
    BY <2>2
  <2> HIDE DEF new
  <2> QED
    BY <1>1, <2>1, <2>3, Zenon DEF RingHolds
<1>6. RingHolds'
  <2>1. ASSUME NEW m \in n_read + 1 .. n_write + k
        PROVE  data'[m % PIPE_SIZE] = m
    <3>1. m \in n_read + 1 .. n_write \/ m \in n_write + 1 .. n_write + k
      BY <1>1
    <3> QED
      BY <1>4, <1>5, <3>1, Zenon
  <2>2. RingHolds' = \A m \in n_read + 1 .. n_write + k : data'[m % PIPE_SIZE] = m
    BY <1>1, Zenon DEF RingHolds
  <2> QED
    BY <2>1, <2>2, Zenon
<1>7. ASSUME NEW i \in 0..PIPE_SIZE - 1
      PROVE  (IF new(i) = {} THEN data[i] ELSE Max(new(i))) \in Nat
  <2>1. CASE new(i) = {}
    BY <2>1
  <2>2. CASE new(i) # {}
    <3>1. PICK m \in n_write + 1 .. n_write + k : m % PIPE_SIZE = i
      BY <2>2
    <3>2. m \in Nat
      BY <1>1
    <3> HIDE DEF new
    <3>3. new(i) = {m}
      BY <1>2, <3>1, Zenon
    <3> QED
      BY <1>3, <2>2, <3>2, <3>3, Zenon
  <2> QED
    BY <2>1, <2>2
<1>8. data' \in [0..PIPE_SIZE - 1 -> Nat]
  <2> HIDE DEF new
  <2> QED
    BY <1>1, <1>7
<1>9. n_write' \in Nat /\ n_read <= n_write' /\ n_write' <= n_read + PIPE_SIZE
  <2> HIDE DEF new
  <2> QED
    BY <1>1
<1> QED
  BY <1>6, <1>8, <1>9, Zenon

\* The bytes that Take moves are the next ones, in order.
LEMMA TakeKeeps ==
  ASSUME IInv, NEW k \in Nat, NEW fault \in BOOLEAN,
         k + (IF fault THEN 1 ELSE 0) <= n_write - n_read,
         Take(k, fault), UNCHANGED <<data, n_write>>
  PROVE  /\ n_read' \in Nat /\ n_read <= n_read' /\ n_read' <= n_write
         /\ got' \in Seq(Nat)
         /\ RingHolds' /\ InOrder'
         /\ k = 0 /\ ~fault => n_read' = n_read
<1> USE PipeAssumption DEF IInv, Types
<1> DEFINE extra == IF fault THEN 1 ELSE 0
           tail == [i \in 1..k |-> Slot(i)]
<1>1. /\ extra \in {0, 1} /\ n_read' = n_read + k + extra /\ n_read' \in Nat
      /\ n_read <= n_read' /\ n_read' <= n_write
  BY DEF Take
<1>2. ASSUME NEW i \in 1..k + extra
      PROVE  Slot(i) = n_read + i
  <2>1. n_read + i \in n_read + 1 .. n_write
    BY <1>1
  <2> QED
    BY <2>1 DEF Slot, RingHolds
<1>3. RingHolds'
  <2>1. ASSUME NEW m \in n_read' + 1 .. n_write
        PROVE  data[m % PIPE_SIZE] = m
    <3>1. m \in n_read + 1 .. n_write
      BY <1>1
    <3> QED
      BY <3>1 DEF RingHolds
  <2> QED
    BY <2>1 DEF RingHolds
<1>4. tail = [i \in 1..k |-> n_read + i]
  BY <1>1, <1>2
<1>5. tail \in Seq(Nat) /\ Len(tail) = k
  BY <1>4
<1>6. /\ got' = got \o tail /\ got' \in Seq(Nat) /\ Len(got') = Len(got) + k
      /\ \A i \in 1..Len(got) : got'[i] = got[i]
      /\ \A i \in Len(got) + 1 .. Len(got) + k : got'[i] = n_read + (i - Len(got))
  <2>1. got' = got \o tail
    BY DEF Take
  <2> HIDE DEF tail
  <2> QED
    BY <1>4, <1>5, <2>1
<1>7. lost' = lost \union (IF fault THEN {n_read + k + 1} ELSE {})
  BY <1>2 DEF Take
<1> HIDE DEF tail
<1>8. \A i \in 1..Len(got) : got[i] \in 1..n_read
  BY DEF InOrder
<1>9. \A i, j \in 1..Len(got') : i < j => got'[i] < got'[j]
  <2> SUFFICES ASSUME NEW i \in 1..Len(got'), NEW j \in 1..Len(got'), i < j
               PROVE  got'[i] < got'[j]
    OBVIOUS
  <2>1. Len(got) \in Nat
    OBVIOUS
  <2>2. CASE j <= Len(got)
    <3>1. i \in 1..Len(got) /\ j \in 1..Len(got)
      BY <1>6, <2>1, <2>2
    <3> QED
      BY <1>6, <3>1, Zenon DEF InOrder
  <2>3. CASE i <= Len(got) /\ j > Len(got)
    <3>1. i \in 1..Len(got) /\ j \in Len(got) + 1 .. Len(got) + k
      BY <1>6, <2>1, <2>3
    <3>2. got'[i] \in 1..n_read /\ got'[j] = n_read + (j - Len(got))
      BY <1>6, <1>8, <3>1
    <3> QED
      BY <2>1, <2>3, <3>2
  <2>4. CASE i > Len(got)
    <3>1. i \in Len(got) + 1 .. Len(got) + k /\ j \in Len(got) + 1 .. Len(got) + k
      BY <1>6, <2>1, <2>4
    <3>2. got'[i] = n_read + (i - Len(got)) /\ got'[j] = n_read + (j - Len(got))
      BY <1>6, <3>1, Zenon
    <3> QED
      BY <2>1, <3>1, <3>2
  <2>5. j <= Len(got) \/ (i <= Len(got) /\ j > Len(got)) \/ i > Len(got)
    BY <1>6, <2>1
  <2> QED
    BY <2>2, <2>3, <2>4, <2>5, Zenon
<1>10. {got'[i] : i \in 1..Len(got')} \union lost' = 1..n_read'
  <2>1. {got'[i] : i \in 1..Len(got')} =
          {got[i] : i \in 1..Len(got)} \union (n_read + 1 .. n_read + k)
    <3>0. Len(got) \in Nat
      OBVIOUS
    <3>1. ASSUME NEW x \in n_read + 1 .. n_read + k
          PROVE  \E i \in 1..Len(got') : got'[i] = x
      <4> DEFINE i == Len(got) + (x - n_read)
      <4>1. i \in Len(got) + 1 .. Len(got) + k /\ i - Len(got) = x - n_read
        BY <3>0
      <4>2. i \in 1..Len(got')
        BY <1>6, <3>0, <4>1
      <4>3. got'[i] = x
        <5> HIDE DEF i
        <5>1. got'[i] = n_read + (i - Len(got))
          BY <1>6, <4>1, Zenon
        <5> QED
          BY <4>1, <5>1
      <4> QED
        BY <4>2, <4>3
    <3>2. ASSUME NEW i \in 1..Len(got')
          PROVE  got'[i] \in {got[j] : j \in 1..Len(got)} \union (n_read + 1 .. n_read + k)
      <4>1. CASE i \in 1..Len(got)
        BY <1>6, <4>1, Zenon
      <4>2. CASE i \in Len(got) + 1 .. Len(got) + k
        <5>1. got'[i] = n_read + (i - Len(got))
          BY <1>6, <4>2
        <5>2. got'[i] \in n_read + 1 .. n_read + k
          BY <3>0, <4>2, <5>1
        <5> QED
          BY <5>2
      <4> QED
        BY <1>6, <3>0, <4>1, <4>2
    <3>3. ASSUME NEW j \in 1..Len(got)
          PROVE  j \in 1..Len(got') /\ got'[j] = got[j]
      BY <1>6, <3>0
    <3>4. ASSUME NEW y \in {got[j] : j \in 1..Len(got)} \union (n_read + 1 .. n_read + k)
          PROVE  y \in {got'[i] : i \in 1..Len(got')}
      <4>1. CASE y \in n_read + 1 .. n_read + k
        BY <3>1, <4>1, Zenon
      <4>2. CASE y \in {got[j] : j \in 1..Len(got)}
        <5>1. PICK j \in 1..Len(got) : y = got[j]
          BY <4>2, Zenon
        <5> QED
          BY <3>3, <5>1, Zenon
      <4> QED
        BY <4>1, <4>2, Zenon
    <3>5. ASSUME NEW y \in {got'[i] : i \in 1..Len(got')}
          PROVE  y \in {got[j] : j \in 1..Len(got)} \union (n_read + 1 .. n_read + k)
      BY <3>2, Zenon
    <3> QED
      BY <3>4, <3>5, Zenon
  <2>2. {got[i] : i \in 1..Len(got)} \union lost = 1..n_read
    BY Zenon DEF InOrder
  <2>3. CASE fault
    <3>1. {got'[i] : i \in 1..Len(got')} \union lost' =
            (1..n_read) \union (n_read + 1 .. n_read + k) \union {n_read + k + 1}
      <4>1. lost' = lost \union {n_read + k + 1}
        BY <1>7, <2>3, Zenon
      <4> QED
        BY <2>1, <2>2, <4>1, Zenon
    <3>2. n_read' = n_read + k + 1
      BY <1>1, <2>3
    <3>3. (1..n_read) \union (n_read + 1 .. n_read + k) \union {n_read + k + 1} =
            1 .. n_read + k + 1
      <4> DEFINE top == n_read + k + 1
      <4>1. top \in Nat /\ n_read + k = top - 1 /\ n_read < top
        OBVIOUS
      <4> HIDE DEF top
      <4>2. (1..n_read) \union (n_read + 1 .. top - 1) \union {top} = 1 .. top
        BY <4>1
      <4> QED
        BY <4>1, <4>2 DEF top
    <3> QED
      BY <3>1, <3>2, <3>3, Zenon
  <2>4. CASE ~fault
    <3>1. {got'[i] : i \in 1..Len(got')} \union lost' =
            (1..n_read) \union (n_read + 1 .. n_read + k)
      <4>1. lost' = lost
        BY <1>7, <2>4
      <4> QED
        BY <2>1, <2>2, <4>1, Zenon
    <3>2. n_read' = n_read + k
      BY <1>1, <2>4
    <3>3. (1..n_read) \union (n_read + 1 .. n_read + k) = 1 .. n_read + k
      OBVIOUS
    <3> QED
      BY <3>1, <3>2, <3>3, Zenon
  <2> QED
    BY <2>3, <2>4
<1>11. InOrder'
  BY <1>9, <1>10, Zenon DEF InOrder
<1>12. k = 0 /\ ~fault => n_read' = n_read
  BY <1>1
<1> QED
  BY <1>1, <1>3, <1>6, <1>11, <1>12, Zenon

\* Reading makes room.
LEMMA StillRoom ==
  ASSUME NEW w \in Nat, NEW r \in Nat, NEW r1 \in Nat, NEW n \in Nat, w <= r + n, r <= r1
  PROVE  w <= r1 + n
OBVIOUS

-----------------------------------------------------------------------------
(***************************************************************************)
(* The steps.                                                              *)
(***************************************************************************)
Inv == IInv /\ SleepersMustWait

\* Steps that touch neither the ring nor what was read.
LEMMA RingSame ==
  ASSUME IInv, UNCHANGED <<ring, got, lost>>,
         pc' \in [Procs -> {"idle", "read", "write", "rsleep", "wsleep"}],
         left' \in [Procs -> Nat]
  PROVE  IInv'
<1>1. /\ data' = data /\ n_read' = n_read /\ n_write' = n_write
      /\ got' = got /\ lost' = lost
  BY DEF ring
<1>2. Types'
  BY <1>1 DEF IInv, Types
<1>3. RingHolds'
  BY <1>1, Zenon DEF IInv, RingHolds
<1>4. InOrder'
  BY <1>1, Zenon DEF IInv, InOrder
<1> QED
  BY <1>2, <1>3, <1>4 DEF IInv

LEMMA CallKeeps ==
  ASSUME Inv, NEW p \in Procs, Call(p)
  PROVE  Inv'
<1> USE DEF Inv
<1>1. PICK what \in {"read", "write"}, n \in 0..MaxN : Start(p, what, n)
  BY DEF Call
<1>2. IInv'
  BY <1>1, RingSame, PipeAssumption DEF Start, IInv, Types
<1>3. SleepersMustWait'
  BY <1>1 DEF Start, SleepersMustWait, IInv, Types, ring
<1> QED
  BY <1>2, <1>3

LEMMA CloseKeeps ==
  ASSUME Inv, NEW p \in Procs, NEW e \in {"r", "w"}, Close(p, e)
  PROVE  Inv'
<1> USE DEF Inv
<1>1. pc' \in {pc, WakeReaders(pc), WakeWriters(pc)}
  BY DEF Close
<1>2. IInv'
  <2>1. pc' \in [Procs -> {"idle", "read", "write", "rsleep", "wsleep"}]
    BY <1>1 DEF IInv, Types, WakeReaders, WakeWriters
  <2> QED
    BY <2>1, RingSame DEF Close, IInv, Types
<1>3. SleepersMustWait'
  <2> SUFFICES ASSUME NEW q \in Procs
               PROVE  /\ pc'[q] = "rsleep" => n_read' = n_write' /\ write_open'
                      /\ pc'[q] = "wsleep" => n_write' = n_read' + PIPE_SIZE /\ read_open'
    BY DEF SleepersMustWait
  <2>1. n_read' = n_read /\ n_write' = n_write
    BY DEF Close, ring
  <2>2. CASE ~Last(e, ends')
    BY <2>1, <2>2 DEF Close, SleepersMustWait
  <2>3. CASE Last(e, ends') /\ e = "w"
    BY <2>1, <2>3 DEF Close, SleepersMustWait, WakeReaders
  <2>4. CASE Last(e, ends') /\ e = "r"
    BY <2>1, <2>4 DEF Close, SleepersMustWait, WakeWriters
  <2> QED
    BY <2>2, <2>3, <2>4
<1> QED
  BY <1>2, <1>3

LEMMA ForkKeeps ==
  ASSUME Inv, NEW p \in Procs, NEW q \in Procs, Fork(p, q)
  PROVE  Inv'
<1> USE DEF Inv
<1>1. IInv'
  BY RingSame DEF Fork, IInv, Types
<1>2. SleepersMustWait'
  BY DEF Fork, SleepersMustWait, ring
<1> QED
  BY <1>1, <1>2

LEMMA ReadKeeps ==
  ASSUME Inv, NEW p \in Procs, Read(p)
  PROVE  Inv'
<1> USE DEF Inv
<1>1. CASE ReadWaits
  <2>1. /\ pc' = [pc EXCEPT ![p] = "rsleep"] /\ left' = left
        /\ UNCHANGED <<ring, got, lost, read_open, write_open>>
    BY <1>1 DEF Read
  <2>2. IInv'
    BY <2>1, RingSame DEF IInv, Types
  <2>3. SleepersMustWait'
    BY <1>1, <2>1 DEF SleepersMustWait, ReadWaits, IInv, Types, ring
  <2> QED
    BY <2>2, <2>3
<1>2. CASE ~ReadWaits
  <2> DEFINE m == Min({n_write - n_read, left[p]})
  <2>1. n_write - n_read \in Nat /\ left[p] \in Nat
    BY DEF IInv, Types
  <2>2. m \in Nat /\ m <= n_write - n_read
    BY <2>1, MinOfTwo
  <2>3. PICK k \in 0..m : Take(k, k < m)
    BY <1>2 DEF Read
  <2>4. /\ pc' = WakeWriters([pc EXCEPT ![p] = "idle"])
        /\ left' = [left EXCEPT ![p] = 0]
        /\ UNCHANGED <<data, n_write>> /\ UNCHANGED <<read_open, write_open>>
    BY <1>2 DEF Read, Done
  <2> HIDE DEF m
  <2>5. k \in Nat /\ (k < m) \in BOOLEAN /\ k + (IF k < m THEN 1 ELSE 0) <= n_write - n_read
    BY <2>1, <2>2
  <2>6. /\ n_read' \in Nat /\ n_read <= n_read' /\ n_read' <= n_write
        /\ got' \in Seq(Nat) /\ RingHolds' /\ InOrder'
    BY <2>3, <2>4, <2>5, TakeKeeps, Zenon
  <2>7. IInv'
    <3>1. Types'
      <4>1. pc' \in [Procs -> {"idle", "read", "write", "rsleep", "wsleep"}]
        BY <2>4 DEF IInv, Types, WakeWriters
      <4>2. left' \in [Procs -> Nat]
        BY <2>4 DEF IInv, Types
      <4>3. n_write <= n_read' + PIPE_SIZE
        <5>1. n_write <= n_read + PIPE_SIZE /\ n_write \in Nat /\ n_read \in Nat
          BY DEF IInv, Types
        <5>2. n_read' \in Nat /\ n_read <= n_read'
          BY <2>6, Zenon
        <5>3. PIPE_SIZE \in Nat
          BY PipeAssumption
        <5> QED
          BY <5>1, <5>2, <5>3, StillRoom, Zenon
      <4> QED
        BY <2>4, <2>6, <4>1, <4>2, <4>3, Zenon DEF IInv, Types
    <3> QED
      BY <2>6, <3>1 DEF IInv
  <2>8. SleepersMustWait'
    <3> SUFFICES ASSUME NEW q \in Procs
                 PROVE  /\ pc'[q] = "rsleep" => n_read' = n_write' /\ write_open'
                        /\ pc'[q] # "wsleep"
      BY DEF SleepersMustWait
    <3>1. pc'[q] # "wsleep" /\ (pc'[q] = "rsleep" => pc[q] = "rsleep")
      BY <2>4 DEF IInv, Types, WakeWriters
    <3>2. ASSUME pc[q] = "rsleep" PROVE n_read' = n_write' /\ write_open'
      <4>1. n_read = n_write /\ write_open
        BY <3>2 DEF SleepersMustWait
      <4>2. n_read' = n_write'
        BY <2>4, <2>6, <4>1 DEF IInv, Types
      <4> QED
        BY <2>4, <4>1, <4>2
    <3> QED
      BY <3>1, <3>2
  <2> QED
    BY <2>7, <2>8
<1> QED
  BY <1>1, <1>2

LEMMA WriteKeeps ==
  ASSUME Inv, NEW p \in Procs, Write(p)
  PROVE  Inv'
<1> USE DEF Inv
<1>1. CASE ~read_open /\ left[p] > 0
  <2>1. /\ pc' = [pc EXCEPT ![p] = "idle"] /\ left' = [left EXCEPT ![p] = 0]
        /\ UNCHANGED <<ring, got, lost, read_open, write_open>>
    BY <1>1 DEF Write, Done
  <2>2. IInv'
    BY <2>1, RingSame DEF IInv, Types
  <2>3. SleepersMustWait'
    BY <2>1 DEF SleepersMustWait, IInv, Types, ring
  <2> QED
    BY <2>2, <2>3
<1>2. CASE read_open \/ left[p] = 0
  <2>1. Space \in Nat /\ left[p] \in Nat
    BY PipeAssumption DEF IInv, Types, Space
  <2>2. PICK k \in 0..Min({Space, left[p]}) :
          LET full == k = Space /\ k < left[p]
          IN /\ Put(k)
             /\ IF full
                  THEN /\ pc' = WakeOnFull([pc EXCEPT ![p] = "wsleep"])
                       /\ left' = [left EXCEPT ![p] = @ - k]
                  ELSE /\ pc' = WakeAtEnd([pc EXCEPT ![p] = "idle"])
                       /\ Done(p)
    <3>1. ~(~read_open /\ left[p] > 0)
      BY <1>2, <2>1
    <3> QED
      BY <3>1, Zenon DEF Write
  <2>3. UNCHANGED <<n_read, got, lost, read_open, write_open>>
    BY <1>2, <2>1 DEF Write
  <2>4. k \in 0..Space /\ k \in Nat
    BY <2>1, <2>2, MinOfTwo
  <2>5. /\ data' \in [0..PIPE_SIZE - 1 -> Nat]
        /\ n_write' \in Nat /\ n_read <= n_write' /\ n_write' <= n_read + PIPE_SIZE
        /\ RingHolds'
    BY <2>2, <2>3, <2>4, PutKeeps DEF IInv
  <2>6. IInv'
    <3>1. pc' \in [Procs -> {"idle", "read", "write", "rsleep", "wsleep"}]
      BY <2>2 DEF IInv, Types, WakeOnFull, WakeAtEnd, WakeReaders
    <3>2. left' \in [Procs -> Nat]
      BY <2>1, <2>2, <2>4 DEF IInv, Types, Done
    <3>3. Types'
      BY <2>3, <2>5, <3>1, <3>2 DEF IInv, Types
    <3>4. InOrder'
      BY <2>3, Zenon DEF IInv, InOrder
    <3> QED
      BY <2>5, <3>3, <3>4 DEF IInv
  <2>7. SleepersMustWait'
    <3> SUFFICES ASSUME NEW q \in Procs
                 PROVE  /\ pc'[q] # "rsleep"
                        /\ pc'[q] = "wsleep" => n_write' = n_read' + PIPE_SIZE /\ read_open'
      BY DEF SleepersMustWait
    <3>1. pc'[q] # "rsleep"
      BY <2>2, Zenon DEF IInv, Types, WakeOnFull, WakeAtEnd, WakeReaders
    <3>2. ASSUME pc'[q] = "wsleep"
          PROVE  n_write' = n_read' + PIPE_SIZE /\ read_open'
      <4>1. n_write' = n_write + k
        BY <2>2 DEF Put
      <4>2. CASE pc[q] = "wsleep"
        <5>1. n_write = n_read + PIPE_SIZE /\ read_open
          BY <4>2 DEF SleepersMustWait
        <5>2. k = 0
          BY <2>4, <5>1, PipeAssumption DEF IInv, Types, Space
        <5> QED
          BY <2>3, <4>1, <5>1, <5>2 DEF IInv, Types
      <4>3. CASE pc[q] # "wsleep"
        <5>1. k = Space /\ k < left[p]
          BY <2>2, <3>2, <4>3 DEF IInv, Types, WakeOnFull, WakeAtEnd, WakeReaders
        <5>2. read_open
          BY <1>2, <2>1, <2>4, <5>1
        <5> QED
          BY <2>3, <4>1, <5>1, <5>2, PipeAssumption DEF Space, IInv, Types
      <4> QED
        BY <4>2, <4>3
    <3> QED
      BY <3>1, <3>2
  <2> QED
    BY <2>6, <2>7
<1> QED
  BY <1>1, <1>2 DEF Write

LEMMA NextKeeps == Inv /\ [Next]_vars => Inv'
<1> SUFFICES ASSUME Inv, [Next]_vars PROVE Inv'
  OBVIOUS
<1>1. CASE Next
  BY <1>1, CallKeeps, WriteKeeps, ReadKeeps, CloseKeeps, ForkKeeps DEF Next
<1>2. CASE UNCHANGED vars
  <2>1. IInv'
    BY <1>2, RingSame DEF vars, ring, Inv, IInv, Types
  <2>2. SleepersMustWait'
    BY <1>2 DEF vars, Inv, SleepersMustWait
  <2> QED
    BY <2>1, <2>2 DEF Inv
<1> QED
  BY <1>1, <1>2

-----------------------------------------------------------------------------

\* What the calls on a pipe keep, taken together.
THEOREM PipeInvariant == Spec => []Inv
<1>1. Init => Inv
  BY InitIInv DEF Inv
<1> QED
  BY <1>1, NextKeeps, PTL DEF Spec

\* Readers get the bytes of a pipe in the order in which File::write put them
\* into the ring, each once, for every size of the ring, every number of
\* readers and writers, and every mix of calls, failing copies and closes.
THEOREM PipeInOrder == Spec => []InOrder
<1>1. Inv => InOrder
  BY DEF Inv, IInv
<1> QED
  BY <1>1, PipeInvariant, PTL

\* No wakeup of a pipe is lost: a reader sleeps in File::read only while the
\* pipe is empty and has a writer, a writer in File::write only while it is full
\* and has a reader.
THEOREM PipeSleepersMustWait == Spec => []SleepersMustWait
<1>1. Inv => SleepersMustWait
  BY DEF Inv
<1> QED
  BY <1>1, PipeInvariant, PTL
=============================================================================
