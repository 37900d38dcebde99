---------------------------- MODULE NetworkProofs ---------------------------
(***************************************************************************)
(* Proofs about the sockets and the ARP table, as Network composes them    *)
(* with the card: for any sets of processes, ports and hosts, every size   *)
(* of the tables and of the rings, and with one CPU or several.            *)
(***************************************************************************)
EXTENDS CardProofs

\* A leaf that names no prover is tried with the SMT solver, then with Zenon and
\* then, with more time, with the SMT solver again.
USE SMTT(10), Zenon, SMTT(30)

-----------------------------------------------------------------------------
(***************************************************************************)
(* The inductive invariant, a part for each piece of the stack.            *)
(***************************************************************************)

\* The sockets, and rx between its parts: it has a packet or a block to wake,
\* not both, and the packet is the one that recv has in hand.
Metas == [used : BOOLEAN, port : Ports, peer : Peers \union {0}]
Messages == [port : Ports, peer : Senders, id : Nat]

Blocks ==
  /\ meta \in [Idx -> Metas]
  /\ queue \in [Idx -> Seq(Messages)]
  /\ had \in [Idx -> SUBSET Ports]
  /\ reading \in [Procs -> Idx \union {None}]
  /\ asleep \subseteq {p \in Procs : reading[p] # None}

InRx ==
  /\ rx # None => /\ wake = None /\ rx.cb \in Idx
                  /\ rx.m \in Messages /\ rx.m.id = hand
  /\ wake # None => wake \in Idx
  /\ rx # None \/ wake # None => pc = "deliver" /\ Frame.kind = "udp"

\* With one CPU a block that is not open is as new, and the one that rx has
\* found stays open on its port.
OneCpu ==
  ~smp => /\ \A i \in Idx : ~meta[i].used => meta[i].port = 0 /\ queue[i] = <<>>
          /\ \A i \in Idx : meta[i].used => meta[i].port \in had[i]
          /\ \A i \in Idx : \A k \in 1..Len(queue[i]) : queue[i][k].port \in had[i]
          /\ rx # None => meta[rx.cb].used /\ rx.m.port \in had[rx.cb]

\* The packets in a socket's queue are in order, come after what was read, and
\* are no newer than the one that rx has last put into a queue.
Newest == Len(delivered) + (IF wake # None THEN 1 ELSE 0)

Ordered ==
  /\ last \in [Idx -> Nat]
  /\ \A i \in Idx : last[i] <= Newest
  /\ \A i \in Idx : \A k \in 1..Len(queue[i]) :
       /\ queue[i][k].id > last[i] /\ queue[i][k].id <= Newest
       /\ \A l \in 1..k - 1 : queue[i][l].id < queue[i][k].id

\* The ARP table holds what hosts have said of themselves, and what is sent or
\* about to be sent is addressed by it.
OutFrames ==
  {Request(ip) : ip \in Peers} \union {Reply(ip) : ip \in Peers}
    \union {Datagram(0, Broadcast)}
    \union {Datagram(ip, ip) : ip \in Peers} \union {Datagram(ip, Gateway) : ip \in Peers}

Resolved ==
  /\ table \in Seq({[ip |-> ip, mac |-> ip] : ip \in Peers})
  /\ out \in Seq(OutFrames \union {None})
  /\ writing \in [Procs -> [i : Idx, m : OutFrames] \union {None}]

SockInv == Blocks /\ InRx /\ OneCpu /\ Ordered /\ SleepersMustWait

IInv == CardInv /\ SockInv /\ Resolved

-----------------------------------------------------------------------------
(***************************************************************************)
(* Sockets: what processes do.                                             *)
(***************************************************************************)

\* Numbers of blocks and ports; None is no block.
LEMMA SockTypes ==
  /\ Idx \subseteq Nat /\ None \notin Idx
  /\ Ports \subseteq Nat /\ 0 \in Ports /\ UsablePorts \subseteq Nat
  /\ BindPorts \subseteq Ports /\ UsablePorts \subseteq Ports
BY NetworkAssumption DEF Idx, Ports

\* open takes a block that is not used; with one CPU it has nothing in its
\* queue.
LEMMA OpenKeeps ==
  ASSUME Blocks, OneCpu, SleepersMustWait, Open, smp' = smp
  PROVE  Blocks' /\ OneCpu' /\ SleepersMustWait'
<1>1. PICK i \in Idx : /\ ~meta[i].used
                      /\ meta' = [meta EXCEPT ![i].used = TRUE]
                      /\ had' = [had EXCEPT ![i] = {0}]
  BY Zenon DEF Open, First, Unused
<1> DEFINE r == [meta[i] EXCEPT !.used = TRUE]
<1>2. /\ meta' = [meta EXCEPT ![i] = r] /\ had' = [had EXCEPT ![i] = {0}]
      /\ UNCHANGED <<queue, rx, wake, reading, asleep>>
      /\ ~smp => rx = None
  BY <1>1, Zenon DEF Open, MayRun
<1>3. r \in Metas /\ r.port = meta[i].port /\ r.used = TRUE
  BY <1>1, Zenon DEF Blocks, Metas
<1> HIDE DEF r
<1>4. Blocks'
  <2>1. meta' \in [Idx -> Metas]
    BY <1>2, <1>3 DEF Blocks
  <2>2. had' \in [Idx -> SUBSET Ports]
    BY <1>2, SockTypes DEF Blocks
  <2> QED
    BY <1>2, <2>1, <2>2 DEF Blocks
<1>5. OneCpu'
  <2> SUFFICES ASSUME ~smp PROVE OneCpu'
    BY DEF OneCpu
  <2>1. meta[i].port = 0 /\ queue[i] = <<>>
    BY <1>1 DEF OneCpu
  <2>2. ASSUME NEW j \in Idx, j # i
        PROVE  meta'[j] = meta[j] /\ had'[j] = had[j]
    BY <1>2, <2>2 DEF Blocks
  <2>3. meta'[i] = r /\ had'[i] = {0}
    BY <1>1, <1>2 DEF Blocks
  <2>4. \A k \in 1..Len(queue[i]) : FALSE
    BY <2>1
  <2> QED
    BY <1>2, <1>3, <2>1, <2>2, <2>3, <2>4 DEF OneCpu
<1>6. SleepersMustWait'
  BY <1>2 DEF SleepersMustWait
<1> QED
  BY <1>4, <1>5, <1>6

\* close leaves the block as new, and nobody reads it.
LEMMA CloseKeeps ==
  ASSUME Blocks, OneCpu, SleepersMustWait, NEW i \in Idx, Close(i), smp' = smp
  PROVE  Blocks' /\ OneCpu' /\ SleepersMustWait'
<1>1. /\ meta' = [meta EXCEPT ![i] = NewMeta]
      /\ queue' = [queue EXCEPT ![i] = <<>>] /\ had' = [had EXCEPT ![i] = {}]
      /\ UNCHANGED <<rx, wake, reading, asleep>>
      /\ ~smp => rx = None
      /\ \A p \in Procs : reading[p] # i
  BY DEF Close, ClosedQueue, MayRun
<1>2. NewMeta \in Metas /\ NewMeta.port = 0 /\ NewMeta.used = FALSE
  BY SockTypes DEF Metas, NewMeta
<1>3. Blocks'
  BY <1>1, <1>2 DEF Blocks
<1>4. OneCpu'
  <2> SUFFICES ASSUME ~smp PROVE OneCpu'
    BY DEF OneCpu
  <2>1. ASSUME NEW j \in Idx, j # i
        PROVE  meta'[j] = meta[j] /\ had'[j] = had[j] /\ queue'[j] = queue[j]
    BY <1>1, <2>1 DEF Blocks
  <2>2. meta'[i] = NewMeta /\ queue'[i] = <<>>
    BY <1>1 DEF Blocks
  <2>3. \A k \in 1..Len(queue'[i]) : FALSE
    BY <2>2
  <2> QED
    BY <1>1, <1>2, <2>1, <2>2, <2>3 DEF OneCpu
<1>5. SleepersMustWait'
  BY <1>1 DEF SleepersMustWait, Blocks
<1> QED
  BY <1>3, <1>4, <1>5

\* bind and connect give a used block a port, which it then has had.
LEMMA PortKeeps ==
  ASSUME Blocks, OneCpu, SleepersMustWait, smp' = smp,
         NEW i \in Idx, NEW r \in Metas, r.used, meta[i].used,
         meta' = [meta EXCEPT ![i] = r],
         had' = [had EXCEPT ![i] = had[i] \union {r.port}],
         UNCHANGED <<queue, rx, wake, reading, asleep>>, ~smp => rx = None
  PROVE  Blocks' /\ OneCpu' /\ SleepersMustWait'
<1>1. r.port \in Ports
  BY DEF Metas
<1>2. Blocks'
  BY <1>1 DEF Blocks
<1>3. OneCpu'
  <2> SUFFICES ASSUME ~smp PROVE OneCpu'
    BY DEF OneCpu
  <2>1. ASSUME NEW j \in Idx, j # i
        PROVE  meta'[j] = meta[j] /\ had'[j] = had[j]
    BY <2>1 DEF Blocks
  <2>2. meta'[i] = r /\ had'[i] = had[i] \union {r.port}
    BY DEF Blocks
  <2> QED
    BY <2>1, <2>2 DEF OneCpu
<1>4. SleepersMustWait'
  BY DEF SleepersMustWait
<1> QED
  BY <1>2, <1>3, <1>4

LEMMA BindKeeps ==
  ASSUME Blocks, OneCpu, SleepersMustWait, smp' = smp,
         NEW i \in Idx, NEW port \in BindPorts, Bind(i, port)
  PROVE  Blocks' /\ OneCpu' /\ SleepersMustWait'
<1> DEFINE r == [meta[i] EXCEPT !.port = port]
<1>1. /\ meta' = [meta EXCEPT ![i] = r] /\ had' = [had EXCEPT ![i] = had[i] \union {port}]
      /\ UNCHANGED <<queue, rx, wake, reading, asleep>>
      /\ ~smp => rx = None
      /\ meta[i].used
  BY DEF Bind, MayRun
<1>2. r \in Metas /\ r.port = port /\ r.used = meta[i].used
  BY SockTypes, Zenon DEF Blocks, Metas
<1> HIDE DEF r
<1> QED
  BY <1>1, <1>2, PortKeeps, Zenon

LEMMA ConnectKeeps ==
  ASSUME Blocks, OneCpu, SleepersMustWait, smp' = smp,
         NEW i \in Idx, NEW peer \in Peers, Connect(i, peer)
  PROVE  Blocks' /\ OneCpu' /\ SleepersMustWait'
<1>0. PICK port \in FreePorts \union {meta[i].port} :
        /\ meta' = [meta EXCEPT ![i].peer = peer, ![i].port = port]
        /\ had' = [had EXCEPT ![i] = had[i] \union {port}]
  BY Zenon DEF Connect, First
<1> DEFINE r == [meta[i] EXCEPT !.peer = peer, !.port = port]
<1>1. port \in Ports
  BY <1>0, SockTypes DEF FreePorts, Blocks, Metas
<1>2. /\ meta' = [meta EXCEPT ![i] = r] /\ had' = [had EXCEPT ![i] = had[i] \union {port}]
      /\ UNCHANGED <<queue, rx, wake, reading, asleep>>
      /\ ~smp => rx = None
      /\ meta[i].used
  BY <1>0, Zenon DEF Connect, MayRun
<1>3. r \in Metas /\ r.port = port /\ r.used = meta[i].used
  BY <1>1, Zenon DEF Blocks, Metas
<1> HIDE DEF r
<1> QED
  BY <1>2, <1>3, PortKeeps, Zenon

\* read, and going to sleep in it with nothing in the queue.
LEMMA ReadKeeps ==
  ASSUME Blocks, OneCpu, SleepersMustWait, smp' = smp, NEW p \in Procs,
         (\E i \in Idx : Read(p, i)) \/ ReadSleep(p)
  PROVE  Blocks' /\ OneCpu' /\ SleepersMustWait'
<1>1. UNCHANGED <<meta, queue, had, rx, wake>>
  BY DEF Read, ReadSleep
<1>2. OneCpu'
  BY <1>1 DEF OneCpu
<1>3. CASE \E i \in Idx : Read(p, i)
  <2>1. PICK i \in Idx : Read(p, i)
    BY <1>3
  <2>2. reading[p] = None /\ reading' = [reading EXCEPT ![p] = i] /\ asleep' = asleep
    BY <2>1 DEF Read
  <2>3. Blocks'
    BY <1>1, <2>2, SockTypes DEF Blocks
  <2>4. SleepersMustWait'
    BY <1>1, <2>2 DEF SleepersMustWait, Blocks
  <2> QED
    BY <1>2, <2>3, <2>4
<1>4. CASE ReadSleep(p)
  <2>1. /\ reading[p] # None /\ queue[reading[p]] = <<>>
        /\ reading' = reading /\ asleep' = asleep \union {p}
    BY <1>4 DEF ReadSleep
  <2>2. Blocks'
    BY <1>1, <2>1 DEF Blocks
  <2>3. SleepersMustWait'
    BY <1>1, <2>1 DEF SleepersMustWait
  <2> QED
    BY <1>2, <2>2, <2>3
<1> QED
  BY <1>3, <1>4

\* A process takes the packet at the head of its socket's queue.
LEMMA ReadPacketKeeps ==
  ASSUME Blocks, OneCpu, SleepersMustWait, smp' = smp, NEW p \in Procs, ReadPacket(p)
  PROVE  Blocks' /\ OneCpu' /\ SleepersMustWait'
<1> DEFINE i == reading[p]
           q == queue[i]
<1>1. /\ i # None /\ p \notin asleep /\ q # <<>>
      /\ queue' = [queue EXCEPT ![i] = Tail(q)]
      /\ reading' = [reading EXCEPT ![p] = None]
      /\ UNCHANGED <<meta, had, rx, wake, asleep>>
  BY DEF ReadPacket, Rest
<1>2. i \in Idx /\ q \in Seq(Messages)
  BY <1>1 DEF Blocks
<1>3. /\ Tail(q) \in Seq(Messages) /\ Len(Tail(q)) = Len(q) - 1 /\ Len(q) \in Nat
      /\ \A k \in 1..Len(Tail(q)) : Tail(q)[k] = q[k + 1]
  BY <1>1, <1>2
<1>q. q = queue[i]
  OBVIOUS
<1>i. i = reading[p]
  OBVIOUS
<1> HIDE DEF q, i
<1>4. Blocks'
  BY <1>1, <1>2, <1>3 DEF Blocks
<1>5. OneCpu'
  <2> SUFFICES ASSUME ~smp PROVE OneCpu'
    BY DEF OneCpu
  <2>1. ASSUME NEW j \in Idx, j # i
        PROVE  queue'[j] = queue[j]
    BY <1>1, <2>1 DEF Blocks
  <2>2. queue'[i] = Tail(q)
    BY <1>1, <1>2 DEF Blocks
  <2>3. meta[i].used
    BY <1>1, <1>2, <1>q DEF OneCpu
  <2>4. ASSUME NEW k \in 1..Len(Tail(q))
        PROVE  Tail(q)[k].port \in had[i]
    <3>1. k + 1 \in 1..Len(q) /\ Tail(q)[k] = q[k + 1]
      BY <1>3
    <3> QED
      BY <1>2, <1>q, <3>1 DEF OneCpu
  <2>5. ASSUME NEW j \in Idx
        PROVE  /\ ~meta[j].used => meta[j].port = 0 /\ queue'[j] = <<>>
               /\ \A k \in 1..Len(queue'[j]) : queue'[j][k].port \in had[j]
    BY <2>1, <2>2, <2>3, <2>4, Zenon DEF OneCpu
  <2> QED
    BY <1>1, <2>5, Zenon DEF OneCpu
<1>6. SleepersMustWait'
  <2> SUFFICES ASSUME NEW x \in asleep, queue'[reading'[x]] # <<>>
               PROVE  wake = reading'[x]
    BY <1>1 DEF SleepersMustWait
  <2>1. x \in Procs /\ x # p /\ reading'[x] = reading[x] /\ reading[x] \in Idx
    BY <1>1 DEF Blocks
  <2>2. queue[reading[x]] # <<>>
    BY <1>1, <1>q, <2>1 DEF Blocks
  <2> QED
    BY <2>1, <2>2 DEF SleepersMustWait
<1> QED
  BY <1>4, <1>5, <1>6

\* What a process does to sockets leaves rx's variables alone.
LEMMA ProcNextKeeps ==
  ASSUME Blocks, OneCpu, SleepersMustWait, smp' = smp, ProcNext
  PROVE  Blocks' /\ OneCpu' /\ SleepersMustWait' /\ rx' = rx /\ wake' = wake
<1>1. CASE Open
  BY <1>1, OpenKeeps, Zenon DEF Open
<1>2. ASSUME NEW i \in Idx, Close(i)
      PROVE  Blocks' /\ OneCpu' /\ SleepersMustWait' /\ rx' = rx /\ wake' = wake
  BY <1>2, CloseKeeps, Zenon DEF Close
<1>3. ASSUME NEW i \in Idx, NEW port \in BindPorts, Bind(i, port)
      PROVE  Blocks' /\ OneCpu' /\ SleepersMustWait' /\ rx' = rx /\ wake' = wake
  BY <1>3, BindKeeps, Zenon DEF Bind
<1>4. ASSUME NEW i \in Idx, NEW peer \in Peers, Connect(i, peer)
      PROVE  Blocks' /\ OneCpu' /\ SleepersMustWait' /\ rx' = rx /\ wake' = wake
  BY <1>4, ConnectKeeps, Zenon DEF Connect
<1>5. ASSUME NEW p \in Procs, (\E i \in Idx : Read(p, i)) \/ ReadSleep(p)
      PROVE  Blocks' /\ OneCpu' /\ SleepersMustWait' /\ rx' = rx /\ wake' = wake
  BY <1>5, ReadKeeps DEF Read, ReadSleep
<1>6. ASSUME NEW p \in Procs, ReadPacket(p)
      PROVE  Blocks' /\ OneCpu' /\ SleepersMustWait' /\ rx' = rx /\ wake' = wake
  BY <1>6, ReadPacketKeeps, Zenon DEF ReadPacket
<1> QED
  BY <1>1, <1>2, <1>3, <1>4, <1>5, <1>6 DEF ProcNext

\* What a call does to the queues: close empties one, a packet is taken from the
\* head of one, and a block whose use begins or ends has had nothing read.
LEMMA ProcNextQueues ==
  ASSUME Blocks, ProcNext, NEW j \in Idx
  PROVE  \/ queue'[j] = queue[j]
         \/ queue'[j] = <<>> /\ meta[j].used # meta'[j].used
         \/ /\ queue[j] # <<>> /\ queue'[j] = Tail(queue[j])
            /\ meta'[j].used = meta[j].used
<1>1. CASE queue' = queue
  BY <1>1
<1>2. ASSUME NEW i \in Idx, Close(i)
      PROVE  \/ queue'[j] = queue[j]
             \/ queue'[j] = <<>> /\ meta[j].used # meta'[j].used
  <2>1. /\ meta' = [meta EXCEPT ![i] = NewMeta] /\ meta[i].used
        /\ queue' = [queue EXCEPT ![i] = <<>>]
    BY <1>2 DEF Close, ClosedQueue
  <2>2. CASE i = j
    <3>1. queue'[j] = <<>> /\ meta'[j] = NewMeta
      BY <2>1, <2>2 DEF Blocks
    <3>2. meta'[j].used = FALSE
      BY <3>1 DEF NewMeta
    <3>3. meta[j].used = TRUE
      BY <2>1, <2>2 DEF Blocks, Metas
    <3> QED
      BY <3>1, <3>2, <3>3
  <2>3. CASE i # j
    BY <2>1, <2>3 DEF Blocks
  <2> QED
    BY <2>2, <2>3
<1>3. ASSUME NEW p \in Procs, ReadPacket(p)
      PROVE  \/ queue'[j] = queue[j]
             \/ /\ queue[j] # <<>> /\ queue'[j] = Tail(queue[j])
                /\ meta'[j].used = meta[j].used
  <2>1. /\ queue[reading[p]] # <<>> /\ meta' = meta
        /\ queue' = [queue EXCEPT ![reading[p]] = Tail(queue[reading[p]])]
    BY <1>3 DEF ReadPacket, Rest
  <2>2. CASE reading[p] = j
    BY <2>1, <2>2 DEF Blocks
  <2>3. CASE reading[p] # j
    BY <2>1, <2>3 DEF Blocks
  <2> QED
    BY <2>2, <2>3
<1> QED
  BY <1>1, <1>2, <1>3, Zenon
     DEF ProcNext, Open, Bind, Connect, Read, ReadSleep

\* The numbers in a queue that is in order: those that the head's removal takes
\* away are the head's.
LEMMA TakenIds ==
  ASSUME NEW q \in Seq(Messages), q # <<>>,
         \A k \in 1..Len(q) : \A l \in 1..k - 1 : q[l].id < q[k].id
  PROVE  Ids(q) \ Ids(Tail(q)) = {q[1].id}
<1>1. /\ Tail(q) \in Seq(Messages) /\ Len(Tail(q)) = Len(q) - 1 /\ Len(q) \in Nat \ {0}
      /\ \A k \in 1..Len(Tail(q)) : Tail(q)[k] = q[k + 1]
      /\ DOMAIN q = 1..Len(q) /\ DOMAIN Tail(q) = 1..Len(Tail(q))
  OBVIOUS
<1>2. \A k \in 1..Len(q) : q[k].id \in Nat
  <2>1. \A k \in 1..Len(q) : q[k] \in Messages
    OBVIOUS
  <2> QED
    BY <2>1 DEF Messages
<1>3. Ids(q) = {q[k].id : k \in 1..Len(q)}
  BY <1>1 DEF Ids
<1>4. Ids(Tail(q)) = {q[k].id : k \in 2..Len(q)}
  <2>1. Ids(Tail(q)) = {Tail(q)[k].id : k \in 1..Len(q) - 1}
    BY <1>1, Zenon DEF Ids
  <2>2. ASSUME NEW k \in 2..Len(q)
        PROVE  k - 1 \in 1..Len(q) - 1 /\ Tail(q)[k - 1] = q[k]
    BY <1>1
  <2>3. ASSUME NEW k \in 1..Len(q) - 1
        PROVE  k + 1 \in 2..Len(q) /\ Tail(q)[k] = q[k + 1]
    BY <1>1
  <2>4. ASSUME NEW x \in Ids(Tail(q))
        PROVE  x \in {q[k].id : k \in 2..Len(q)}
    <3>1. PICK k \in 1..Len(q) - 1 : x = Tail(q)[k].id
      BY <2>1
    <3> QED
      BY <2>3, <3>1
  <2>5. ASSUME NEW k \in 2..Len(q)
        PROVE  q[k].id \in Ids(Tail(q))
    BY <2>1, <2>2, Zenon
  <2> QED
    BY <2>4, <2>5
<1>5. \A k \in 2..Len(q) : q[k].id # q[1].id
  BY <1>1, <1>2
<1>6. 1 \in 1..Len(q) /\ \A k \in 1..Len(q) : k = 1 \/ k \in 2..Len(q)
  BY <1>1
<1> QED
  BY <1>3, <1>4, <1>5, <1>6

\* Calls keep the queues in order, and after what was read.
LEMMA SocketCallOrdered ==
  ASSUME RxRing, Blocks, Ordered, SocketCall, wake' = wake
  PROVE  Ordered'
<1>1. ProcNext /\ delivered' = delivered
  BY DEF SocketCall, rxvars
<1>2. Newest' = Newest /\ Newest \in Nat
  BY <1>1 DEF Newest, RxRing
<1>3. ASSUME NEW j \in Idx
      PROVE  /\ last'[j] \in Nat /\ last'[j] <= Newest
             /\ \A k \in 1..Len(queue'[j]) :
                  /\ queue'[j][k].id > last'[j] /\ queue'[j][k].id <= Newest
                  /\ \A l \in 1..k - 1 : queue'[j][l].id < queue'[j][k].id
  <2> DEFINE q == queue[j]
             taken == Ids(q) \ Ids(queue'[j])
  <2>a. q \in Seq(Messages) /\ \A k \in 1..Len(q) : q[k] \in Messages
    BY DEF Blocks
  <2>0. /\ q \in Seq(Messages) /\ last[j] \in Nat /\ last[j] <= Newest
        /\ \A k \in 1..Len(q) :
             /\ q[k].id \in Nat /\ q[k].id > last[j] /\ q[k].id <= Newest
             /\ \A l \in 1..k - 1 : q[l].id < q[k].id
    BY <2>a DEF Ordered, Messages
  <2>1. last'[j] = IF meta[j].used # meta'[j].used THEN 0
                   ELSE IF taken = {} THEN last[j] ELSE CHOOSE id \in taken : TRUE
    BY DEF SocketCall
  <2>2. CASE queue'[j] = q
    <3>1. taken = {}
      BY <2>2
    <3>2. last'[j] \in {0, last[j]}
      BY <2>1, <3>1
    <3> HIDE DEF q
    <3> QED
      BY <1>2, <2>0, <2>2, <3>2
  <2>3. CASE queue'[j] = <<>> /\ meta[j].used # meta'[j].used
    BY <1>2, <2>1, <2>3
  <2>4. CASE queue[j] # <<>> /\ queue'[j] = Tail(queue[j]) /\ meta'[j].used = meta[j].used
    <3>1. taken = {q[1].id}
      BY <2>0, <2>4, TakenIds
    <3>2. (CHOOSE id \in taken : TRUE) = q[1].id
      BY <3>1
    <3>3. last'[j] = q[1].id
      BY <2>1, <2>4, <3>1, <3>2
    <3>4. /\ Len(q) \in Nat \ {0} /\ Len(Tail(q)) = Len(q) - 1
          /\ \A k \in 1..Len(q) - 1 : Tail(q)[k] = q[k + 1]
      BY <2>0, <2>4
    <3> HIDE DEF q
    <3>5. ASSUME NEW k \in 1..Len(q) - 1
          PROVE  /\ Tail(q)[k].id > q[1].id /\ Tail(q)[k].id <= Newest
                 /\ \A l \in 1..k - 1 : Tail(q)[l].id < Tail(q)[k].id
      <4>1. k + 1 \in 1..Len(q) /\ 1 \in 1..(k + 1) - 1 /\ Tail(q)[k] = q[k + 1]
        BY <3>4
      <4>2. ASSUME NEW l \in 1..k - 1
            PROVE  l + 1 \in 1..(k + 1) - 1 /\ Tail(q)[l] = q[l + 1]
        BY <3>4
      <4>3. q[1].id < q[k + 1].id /\ q[k + 1].id <= Newest /\ q[1].id \in Nat /\ q[k + 1].id \in Nat
        BY <2>0, <4>1, <3>4
      <4> QED
        BY <2>0, <4>1, <4>2, <4>3
    <3>6. q[1].id \in Nat /\ q[1].id <= Newest
      BY <2>0, <3>4
    <3>7. queue'[j] = Tail(q)
      BY <2>4 DEF q
    <3> QED
      BY <3>3, <3>4, <3>5, <3>6, <3>7
  <2> QED
    BY <1>1, <2>2, <2>3, <2>4, ProcNextQueues
<1>4. last' \in [Idx -> Nat]
  <2>1. last' = [j \in Idx |-> last'[j]]
    BY DEF SocketCall
  <2> QED
    BY <1>3, <2>1
<1> QED
  BY <1>2, <1>3, <1>4 DEF Ordered

-----------------------------------------------------------------------------
(***************************************************************************)
(* Sockets: what rx does.                                                  *)
(***************************************************************************)

\* rx has found a block that has the port of the packet in hand.
LEMMA RxFindKeeps ==
  ASSUME RxRing, Contents, Blocks, InRx, OneCpu, Ordered, SleepersMustWait, RxFind, smp' = smp
  PROVE  Blocks' /\ InRx' /\ OneCpu' /\ Ordered' /\ SleepersMustWait'
<1> DEFINE m == [port |-> Frame.port, peer |-> Frame.ip, id |-> hand]
<1>0. PICK i \in Find(m.port) : rx' = [m |-> m, cb |-> i]
  BY DEF RxFind, UdpRxFind
<1>1. /\ pc = "deliver" /\ Frame.kind = "udp" /\ wake = None /\ rx' = [m |-> m, cb |-> i]
      /\ UNCHANGED <<meta, queue, had, wake, reading, asleep, pc, hand, inn, delivered, last>>
  BY <1>0 DEF RxFind, UdpRxFind, rxvars, netvars
<1>2. m \in Messages
  <2>1. hand \in Nat /\ Frame \in InFrames
    BY <1>1, FrameInHand DEF RxRing
  <2>2. \A f \in InFrames : f.kind = "udp" => f.port \in Ports /\ f.ip \in Senders
    BY DEF InFrames, Request, Reply
  <2> QED
    BY <1>1, <2>1, <2>2 DEF Messages
<1>3. i \in Idx /\ meta[i].used /\ meta[i].port = m.port
  BY DEF Find, First
<1>4. m.id = hand
  OBVIOUS
<1> HIDE DEF m
<1>5. rx'.m = m /\ rx'.cb = i
  BY <1>1
<1>6. Blocks' /\ SleepersMustWait' /\ Ordered'
  BY <1>1, Zenon DEF Blocks, SleepersMustWait, Ordered, Newest
<1>7. InRx'
  BY <1>1, <1>2, <1>3, <1>4, <1>5 DEF InRx, Frame
<1>8. OneCpu'
  BY <1>1, <1>3, <1>5 DEF OneCpu
<1> QED
  BY <1>6, <1>7, <1>8

\* rx puts the packet at the end of the block's queue: it is newer than all that
\* rx has put into a queue before.
LEMMA RxPushKeeps ==
  ASSUME RxRing, Blocks, InRx, OneCpu, Ordered, SleepersMustWait, RxPush, smp' = smp
  PROVE  Blocks' /\ InRx' /\ OneCpu' /\ Ordered' /\ SleepersMustWait'
<1> DEFINE i == rx.cb
           m == rx.m
           q == queue[i]
<1>1. /\ rx # None /\ queue' = [queue EXCEPT ![i] = Append(q, m)] /\ wake' = i /\ rx' = None
      /\ UNCHANGED <<meta, had, reading, asleep, pc, hand, inn, delivered, last>>
  BY DEF RxPush, UdpRxPush, rxvars, netvars
<1>2. /\ i \in Idx /\ m \in Messages /\ m.id = hand /\ wake = None /\ pc = "deliver"
      /\ Frame.kind = "udp" /\ i # None /\ q \in Seq(Messages)
  BY <1>1, SockTypes, Zenon DEF InRx, Blocks
<1>3. hand = Len(delivered) + 1 /\ Len(delivered) \in Nat
  BY <1>2 DEF RxRing, Taken
<1>4. /\ Append(q, m) \in Seq(Messages) /\ Len(Append(q, m)) = Len(q) + 1 /\ Len(q) \in Nat
      /\ Append(q, m)[Len(q) + 1] = m
      /\ \A k \in 1..Len(q) : Append(q, m)[k] = q[k]
  BY <1>2
<1>5. ~smp => meta[i].used /\ m.port \in had[i]
  BY <1>1 DEF OneCpu
<1>q. q = queue[i]
  OBVIOUS
<1> HIDE DEF i, m, q
<1>6. queue'[i] = Append(q, m) /\ \A j \in Idx : j # i => queue'[j] = queue[j]
  BY <1>1, <1>2 DEF Blocks
<1>7. Blocks'
  BY <1>1, <1>2, <1>4 DEF Blocks
<1>8. InRx'
  BY <1>1, <1>2 DEF InRx, Frame
<1>9. OneCpu'
  <2> SUFFICES ASSUME ~smp PROVE OneCpu'
    BY DEF OneCpu
  <2>1. ASSUME NEW k \in 1..Len(q) + 1
        PROVE  Append(q, m)[k].port \in had[i]
    <3>1. CASE k = Len(q) + 1
      BY <1>4, <1>5, <3>1
    <3>2. CASE k \in 1..Len(q)
      BY <1>2, <1>4, <1>q, <3>2 DEF OneCpu
    <3> QED
      BY <1>4, <3>1, <3>2
  <2>2. ASSUME NEW j \in Idx
        PROVE  /\ ~meta[j].used => meta[j].port = 0 /\ queue'[j] = <<>>
               /\ \A k \in 1..Len(queue'[j]) : queue'[j][k].port \in had[j]
    <3>1. CASE j = i
      BY <1>4, <1>5, <1>6, <2>1, <3>1, Zenon
    <3>2. CASE j # i
      BY <1>6, <3>2 DEF OneCpu
    <3> QED
      BY <3>1, <3>2
  <2> QED
    BY <1>1, <2>2 DEF OneCpu
<1>10. Ordered'
  <2>1. Newest = Len(delivered) /\ Newest' = Len(delivered) + 1
    BY <1>1, <1>2, <1>3 DEF Newest
  <2>2. ASSUME NEW j \in Idx, NEW k \in 1..Len(queue[j])
        PROVE  /\ queue[j][k].id \in Nat /\ queue[j][k].id > last[j]
               /\ queue[j][k].id <= Len(delivered)
               /\ \A l \in 1..k - 1 : queue[j][l].id < queue[j][k].id
    <3>1. queue[j][k] \in Messages
      BY DEF Blocks
    <3> QED
      BY <2>1, <3>1 DEF Ordered, Messages
  <2>3. last \in [Idx -> Nat]
    BY DEF Ordered
  <2>4. last[i] < hand
    <3>1. last[i] <= Len(delivered)
      BY <1>2, <2>1 DEF Ordered
    <3> QED
      BY <1>2, <1>3, <2>3, <3>1
  <2>5. ASSUME NEW k \in 1..Len(q) + 1
        PROVE  /\ Append(q, m)[k].id > last[i] /\ Append(q, m)[k].id <= Len(delivered) + 1
               /\ \A l \in 1..k - 1 : Append(q, m)[l].id < Append(q, m)[k].id
    <3>1. CASE k = Len(q) + 1
      <4>1. ASSUME NEW l \in 1..k - 1
            PROVE  Append(q, m)[l].id < hand
        <5>1. l \in 1..Len(q) /\ Append(q, m)[l] = q[l]
          BY <1>4, <3>1
        <5> QED
          BY <1>2, <1>3, <1>q, <2>2, <5>1
      <4> QED
        BY <1>2, <1>3, <1>4, <2>4, <3>1, <4>1
    <3>2. CASE k \in 1..Len(q)
      <4>1. \A l \in 1..k - 1 : Append(q, m)[l] = q[l]
        BY <1>4, <3>2
      <4> QED
        BY <1>2, <1>3, <1>4, <1>q, <2>2, <3>2, <4>1
    <3> QED
      BY <1>4, <3>1, <3>2
  <2>6. ASSUME NEW j \in Idx, NEW k \in 1..Len(queue'[j])
        PROVE  /\ queue'[j][k].id > last[j] /\ queue'[j][k].id <= Len(delivered) + 1
               /\ \A l \in 1..k - 1 : queue'[j][l].id < queue'[j][k].id
    <3>1. CASE j = i
      BY <1>4, <1>6, <2>5, <3>1, Zenon
    <3>2. CASE j # i
      BY <1>3, <1>6, <2>2, <3>2
    <3> QED
      BY <3>1, <3>2
  <2> QED
    <3>1. \A j \in Idx : last[j] <= Len(delivered) + 1
      BY <1>3, <2>1, <2>3 DEF Ordered
    <3> QED
      BY <1>1, <2>1, <2>3, <2>6, <3>1 DEF Ordered
<1>11. SleepersMustWait'
  <2> SUFFICES ASSUME NEW p \in asleep, queue'[reading[p]] # <<>>
               PROVE  i = reading[p]
    BY <1>1 DEF SleepersMustWait
  <2>1. reading[p] # None /\ reading[p] \in Idx
    BY DEF Blocks
  <2>2. queue[reading[p]] = <<>>
    BY <1>2, <2>1 DEF SleepersMustWait
  <2> QED
    BY <1>6, <2>1, <2>2
<1> QED
  BY <1>7, <1>8, <1>9, <1>10, <1>11

\* rx wakes all who sleep on the block, and the packet counts as delivered.
LEMMA RxWakeupKeeps ==
  ASSUME RxRing, Blocks, InRx, OneCpu, Ordered, SleepersMustWait, RxWakeup, smp' = smp
  PROVE  Blocks' /\ InRx' /\ OneCpu' /\ Ordered' /\ SleepersMustWait'
<1>1. /\ wake # None /\ wake' = None /\ asleep' = asleep \ {p \in asleep : reading[p] = wake}
      /\ UNCHANGED <<meta, queue, had, rx, reading, last>>
  BY DEF RxWakeup, UdpRxWakeup, Woken
<1>2. rx = None
  BY <1>1 DEF InRx
<1>3. Len(delivered') = Len(delivered) + 1 /\ Len(delivered) \in Nat
  <2>1. delivered \in Seq(Nat)
    BY Zenon DEF RxRing
  <2> QED
    BY <2>1, DeliverKeepsRxRing DEF RxWakeup, Done
<1>4. Newest' = Newest
  BY <1>1, <1>3 DEF Newest
<1>5. Blocks' /\ InRx' /\ OneCpu'
  BY <1>1, <1>2 DEF Blocks, InRx, OneCpu
<1>6. Ordered'
  BY <1>1, <1>4 DEF Ordered
<1>7. SleepersMustWait'
  BY <1>1 DEF SleepersMustWait
<1> QED
  BY <1>5, <1>6, <1>7

\* net::rx returns from a packet that no socket was given.
LEMMA DoneKeeps ==
  ASSUME RxRing, Blocks, InRx, OneCpu, Ordered, SleepersMustWait, Done,
         rx = None, wake = None, UNCHANGED <<sockvars, last, smp>>
  PROVE  Blocks' /\ InRx' /\ OneCpu' /\ Ordered' /\ SleepersMustWait'
<1> USE DEF sockvars
<1>1. Len(delivered') = Len(delivered) + 1 /\ Len(delivered) \in Nat
  BY DeliverKeepsRxRing DEF Done, RxRing
<1>2. Newest = Len(delivered) /\ Newest' = Len(delivered) + 1
  BY <1>1 DEF Newest
<1>3. Blocks' /\ InRx' /\ OneCpu' /\ SleepersMustWait'
  BY DEF Blocks, InRx, OneCpu, SleepersMustWait
<1>4. ASSUME NEW j \in Idx, NEW k \in 1..Len(queue[j])
      PROVE  queue[j][k].id <= Len(delivered) + 1
  <2>1. queue[j][k] \in Messages
    BY DEF Blocks
  <2>2. queue[j][k].id \in Nat /\ queue[j][k].id <= Len(delivered)
    BY <1>2, <2>1 DEF Ordered, Messages
  <2> QED
    BY <1>1, <2>2
<1>5. \A j \in Idx : last[j] <= Len(delivered) + 1
  <2>1. ASSUME NEW j \in Idx PROVE last[j] \in Nat /\ last[j] <= Newest
    BY DEF Ordered
  <2> QED
    BY <1>1, <1>2, <2>1
<1>6. Ordered'
  <2>1. ASSUME NEW j \in Idx
        PROVE  /\ last'[j] <= Newest'
               /\ \A k \in 1..Len(queue[j]) : queue[j][k].id <= Newest'
    BY <1>2, <1>4, <1>5
  <2> QED
    BY <2>1, Zenon DEF Ordered
<1> QED
  BY <1>3, <1>6

\* A step of the card or of the handler that is not rx's.
LEMMA QuietKeeps ==
  ASSUME RxRing, Contents, Blocks, InRx, OneCpu, Ordered, SleepersMustWait,
         UNCHANGED <<sockvars, last, smp, delivered>>,
         pc = "deliver" => pc' = pc /\ hand' = hand /\ inn'[hand] = inn[hand]
  PROVE  Blocks' /\ InRx' /\ OneCpu' /\ Ordered' /\ SleepersMustWait'
<1> USE DEF sockvars
<1>1. Blocks' /\ OneCpu' /\ Ordered' /\ SleepersMustWait'
  BY DEF Blocks, OneCpu, Ordered, Newest, SleepersMustWait
<1>2. InRx'
  BY DEF InRx, Frame
<1> QED
  BY <1>1, <1>2

LEMMA NextKeepsSock ==
  ASSUME RxRing, Contents, SockInv, Next
  PROVE  SockInv'
<1> USE DEF SockInv
<1>0. smp' = smp
  BY DEF Next
<1>1. CASE SocketCall
  <2>1. Blocks' /\ OneCpu' /\ SleepersMustWait' /\ rx' = rx /\ wake' = wake
    BY <1>0, <1>1, ProcNextKeeps DEF SocketCall
  <2>2. Ordered'
    BY <1>1, <2>1, SocketCallOrdered
  <2>3. InRx'
    BY <1>1, <2>1 DEF InRx, Frame, SocketCall, rxvars
  <2> QED
    BY <2>1, <2>2, <2>3
<1>2. ASSUME NEW p \in Writers, (\E i \in Idx : Write(p, i)) \/ WriteSend(p)
      PROVE  SockInv'
  <2>1. UNCHANGED <<rxvars, sockvars, inn, last>>
    BY <1>2 DEF Write, WriteSend
  <2> QED
    BY <1>0, <2>1, QuietKeeps DEF rxvars
<1>3. CASE Transmit
  <2>1. UNCHANGED <<rxvars, sockvars, inn, last>>
    BY <1>3 DEF Transmit, CardSends, rxvars, rxvars
  <2> QED
    BY <1>0, <2>1, QuietKeeps DEF rxvars
<1>4. CASE Arrive
  <2>1. PICK f \in Incoming : inn' = Append(inn, f)
    BY <1>4 DEF Arrive
  <2>2. UNCHANGED <<sockvars, last, delivered, pc, hand>>
    BY <1>4 DEF Arrive, CardStores
  <2>3. ASSUME pc = "deliver" PROVE inn'[hand] = inn[hand]
    <3>1. hand \in 1..arrived
      BY <2>3, FrameInHand
    <3>2. f \in InFrames
      BY DEF Incoming, InFrames, Contents
    <3> QED
      BY <2>1, <3>1, <3>2 DEF Contents
  <2> QED
    BY <1>0, <2>2, <2>3, QuietKeeps
<1>5. CASE IntrNext /\ UNCHANGED <<sockvars, netvars>>
  <2>1. UNCHANGED <<sockvars, last, delivered>> /\ pc # "deliver"
    BY <1>5 DEF netvars, IntrNext, Intr, RecvTake, RecvNone, ReadIcr
  <2> QED
    BY <1>0, <2>1, QuietKeeps
<1>6. CASE RxDrop
  BY <1>0, <1>6, DoneKeeps DEF RxDrop
<1>7. CASE RxFind
  BY <1>0, <1>7, RxFindKeeps
<1>8. CASE RxPush
  BY <1>0, <1>8, RxPushKeeps
<1>9. CASE RxWakeup
  BY <1>0, <1>9, RxWakeupKeeps
<1>10. CASE RxRequest
  <2>1. rx = None /\ wake = None
    BY <1>10 DEF RxRequest, InRx
  <2> QED
    BY <1>0, <1>10, <2>1, DoneKeeps DEF RxRequest
<1>11. CASE RxReply
  <2>1. rx = None /\ wake = None
    BY <1>11 DEF RxReply, InRx
  <2>2. CASE Done
    BY <1>0, <1>11, <2>1, <2>2, DoneKeeps DEF RxReply
  <2>3. CASE UNCHANGED <<rxvars, inn>>
    BY <1>0, <1>11, <2>3, QuietKeeps DEF RxReply, rxvars
  <2> QED
    BY <1>11, <2>2, <2>3 DEF RxReply
<1> QED
  BY <1>1, <1>2, <1>3, <1>4, <1>5, <1>6, <1>7, <1>8, <1>9, <1>10, <1>11 DEF Next

-----------------------------------------------------------------------------
(***************************************************************************)
(* Addresses.                                                              *)
(***************************************************************************)

\* A frame that is well addressed goes out.
LEMMA EthernetTxKeeps ==
  ASSUME Resolved, NEW f \in OutFrames, EthernetTx(f)
  PROVE  out' \in Seq(OutFrames \union {None})
<1>1. out \in Seq(OutFrames \union {None}) /\ (out' = Append(out, f) \/ out' = out)
  BY DEF Resolved, EthernetTx
<1> HIDE DEF OutFrames
<1> QED
  BY <1>1

\* A host that the table knows by its address has that MAC address.
LEMMA WriteKeeps ==
  ASSUME Blocks, Resolved, NEW p \in Procs, NEW i \in Idx, Write(p, i)
  PROVE  Resolved'
<1> DEFINE ip == meta[i].peer
           known == {table[k].mac : k \in Select(ip)}
<1>1. ip \in Peers \union {0}
  BY DEF Blocks, Metas
<1>2. \A k \in Select(ip) : k \in DOMAIN table /\ table[k].ip = ip
  BY DEF Select, First
<1>3. \A mac \in known : mac = ip
  <2> SUFFICES ASSUME NEW k \in Select(ip) PROVE table[k].mac = ip
    OBVIOUS
  <2>1. PICK x \in Peers : table[k] = [ip |-> x, mac |-> x]
    BY <1>2 DEF Resolved
  <2>2. [ip |-> x, mac |-> x].ip = x /\ [ip |-> x, mac |-> x].mac = x
    OBVIOUS
  <2> QED
    BY <1>2, <2>1, <2>2, Zenon
<1>m. PICK mac \in IF ip = 0 THEN {Broadcast} ELSE IF known # {} THEN known ELSE {Gateway} :
        writing' = [writing EXCEPT ![p] = [i |-> i, m |-> Datagram(ip, mac)]]
  BY Zenon DEF Write
<1>4. writing' = [writing EXCEPT ![p] = [i |-> i, m |-> Datagram(ip, mac)]] /\ table' = table
  BY <1>m, Zenon DEF Write
<1>5. \/ UNCHANGED out
      \/ ip # 0 /\ EthernetTx(Request(ip))
  BY DEF Write
<1> HIDE DEF ip, known
<1>6. Datagram(ip, mac) \in OutFrames
  BY <1>1, <1>3, <1>m DEF OutFrames
<1>7. ip # 0 => Request(ip) \in OutFrames
  BY <1>1 DEF OutFrames
<1>8. out' \in Seq(OutFrames \union {None})
  BY <1>5, <1>7, EthernetTxKeeps DEF Resolved
<1>9. writing' \in [Procs -> [i : Idx, m : OutFrames] \union {None}]
  BY <1>4, <1>6 DEF Resolved
<1> QED
  BY <1>4, <1>8, <1>9 DEF Resolved

\* The frames that ARP looks at: a host's question and its answer.
LEMMA ArpFrames ==
  ASSUME NEW f \in InFrames
  PROVE  /\ f.kind = "request" => f.ip \in Peers
         /\ f.kind = "reply" => f.ip \in Peers /\ f.mac = f.ip
BY NetworkAssumption DEF InFrames, Request, Reply

LEMMA NextKeepsResolved ==
  ASSUME RxRing, Contents, Blocks, Resolved, Next \/ UNCHANGED vars
  PROVE  Resolved'
<1> USE DEF netvars
<1>0. CASE UNCHANGED <<table, out, writing>>
  BY <1>0 DEF Resolved
<1>1. ASSUME NEW p \in Writers, NEW i \in Idx, Write(p, i)
      PROVE  Resolved'
  BY <1>1, WriteKeeps, NetworkAssumption
<1>2. ASSUME NEW p \in Writers, WriteSend(p)
      PROVE  Resolved'
  <2>1. /\ p \in Procs /\ writing[p] # None /\ EthernetTx(writing[p].m)
        /\ writing' = [writing EXCEPT ![p] = None] /\ table' = table
    BY <1>2, NetworkAssumption DEF WriteSend
  <2>2. writing[p].m \in OutFrames
    BY <2>1 DEF Resolved
  <2>3. out' \in Seq(OutFrames \union {None})
    BY <2>1, <2>2, EthernetTxKeeps
  <2> QED
    BY <2>1, <2>3 DEF Resolved
<1>3. CASE Transmit
  <2>1. /\ out' = [out EXCEPT ![tx[tdh].m] = None] /\ UNCHANGED <<table, writing>>
    BY <1>3 DEF Transmit
  <2> DEFINE S == OutFrames \union {None}
  <2>a. out \in Seq(S) /\ None \in S
    BY DEF Resolved
  <2> HIDE DEF S
  <2>b. Len(out) \in Nat /\ out \in [1..Len(out) -> S]
    BY <2>a
  <2>c. out' \in [1..Len(out) -> S]
    BY <2>1, <2>a, <2>b, Zenon
  <2>2. out' \in Seq(S)
    BY <2>b, <2>c
  <2> QED
    BY <2>1, <2>2 DEF Resolved, S
<1>4. CASE RxRequest
  <2>1. Frame \in InFrames /\ Frame.kind = "request" /\ EthernetTx(Reply(Frame.ip))
    BY <1>4, FrameInHand DEF RxRequest
  <2>2. Reply(Frame.ip) \in OutFrames
    BY <2>1, ArpFrames DEF OutFrames
  <2>3. out' \in Seq(OutFrames \union {None})
    BY <2>1, <2>2, EthernetTxKeeps
  <2> QED
    BY <1>4, <2>3 DEF RxRequest, Resolved
<1>5. CASE RxReply
  <2> DEFINE entries == {[ip |-> x, mac |-> x] : x \in Peers}
             e == [ip |-> Frame.ip, mac |-> Frame.mac]
  <2>1. Frame \in InFrames /\ Frame.kind = "reply"
    BY <1>5, FrameInHand DEF RxReply
  <2>2. e \in entries
    BY <2>1, ArpFrames
  <2>3. (table' = Append(table, e) \/ table' = table) /\ UNCHANGED <<out, writing>>
    BY <1>5 DEF RxReply
  <2>4. table \in Seq(entries)
    BY DEF Resolved
  <2> HIDE DEF entries, e
  <2>5. table' \in Seq(entries)
    BY <2>2, <2>3, <2>4
  <2> QED
    BY <2>3, <2>5 DEF Resolved, entries
<1>6. CASE SocketCall
  BY <1>0, <1>6 DEF SocketCall
<1>7. CASE Arrive
  BY <1>0, <1>7 DEF Arrive
<1>8. CASE RxDrop \/ RxFind \/ RxPush \/ RxWakeup \/ UNCHANGED vars
  BY <1>0, <1>8 DEF RxDrop, RxFind, RxPush, RxWakeup, vars
<1> QED
  BY <1>0, <1>1, <1>2, <1>3, <1>4, <1>5, <1>6, <1>7, <1>8 DEF Next

\* What is sent is addressed as it should be.
LEMMA ResolvedAddressed ==
  ASSUME Resolved
  PROVE  FramesAddressed
<1>1. \A f \in OutFrames :
        f.kind = "udp" => f.mac \in IF f.ip = 0 THEN {Broadcast} ELSE {f.ip, Gateway}
  <2> SUFFICES ASSUME NEW f \in OutFrames, f.kind = "udp"
               PROVE  f.mac \in IF f.ip = 0 THEN {Broadcast} ELSE {f.ip, Gateway}
    OBVIOUS
  <2>1. \A ip \in Peers : Request(ip).kind # "udp" /\ Reply(ip).kind # "udp" /\ ip # 0
    BY NetworkAssumption DEF Request, Reply
  <2>2. \/ f = Datagram(0, Broadcast)
        \/ \E ip \in Peers : f \in {Datagram(ip, ip), Datagram(ip, Gateway)}
    BY <2>1 DEF OutFrames
  <2>3. \A ip, mac : Datagram(ip, mac).ip = ip /\ Datagram(ip, mac).mac = mac
    BY DEF Datagram
  <2> QED
    BY <2>1, <2>2, <2>3
<1>2. {out[k] : k \in DOMAIN out} \subseteq OutFrames \union {None}
  BY DEF Resolved
<1>3. {writing[p].m : p \in {q \in Procs : writing[q] # None}} \subseteq OutFrames
  BY DEF Resolved
<1> QED
  BY <1>1, <1>2, <1>3 DEF FramesAddressed

-----------------------------------------------------------------------------
(***************************************************************************)
(* The invariant, and the theorems.                                        *)
(***************************************************************************)

\* A new machine: no socket is open.
LEMMA InitIInv == Init => IInv
<1>1. SUFFICES ASSUME Init PROVE IInv
  OBVIOUS
<1>0. /\ delivered = <<>> /\ table = <<>> /\ out = <<>> /\ rx = None /\ wake = None
      /\ meta = [i \in Idx |-> NewMeta] /\ queue = [i \in Idx |-> <<>>]
      /\ had = [i \in Idx |-> {}] /\ last = [i \in Idx |-> 0] /\ asleep = {}
      /\ reading = [p \in Procs |-> None] /\ writing = [p \in Procs |-> None]
  BY <1>1, Zenon DEF Init, InitRings, InitSockets
<1>l. Len(delivered) = 0
  BY <1>0
<1>e. \A S : <<>> \in Seq(S)
  OBVIOUS
<1>2. Blocks /\ InRx /\ SleepersMustWait
  <2>1. NewMeta \in Metas
    BY SockTypes, NetworkAssumption DEF NewMeta, Metas
  <2> QED
    BY <1>0, <1>e, <2>1 DEF Blocks, InRx, SleepersMustWait
<1>3. OneCpu
  <2>1. NewMeta.used = FALSE /\ NewMeta.port = 0
    BY DEF NewMeta
  <2>2. rx = None /\ \A i \in Idx : meta[i] = NewMeta /\ queue[i] = <<>>
    BY <1>0
  <2>3. \A i \in Idx : ~meta[i].used /\ meta[i].port = 0
    BY <2>1, <2>2
  <2>4. \A i \in Idx : \A k \in 1..Len(queue[i]) : FALSE
    BY <2>2
  <2> QED
    BY <2>2, <2>3, <2>4 DEF OneCpu
<1>4. Ordered
  <2>1. Newest = 0
    BY <1>0, <1>l DEF Newest
  <2>2. \A i \in Idx : 1..Len(queue[i]) = {} /\ last[i] = 0
    BY <1>0
  <2>3. last \in [Idx -> Nat]
    BY <1>0
  <2>4. \A i \in Idx : last[i] <= Newest
    BY <2>1, <2>2
  <2> QED
    BY <2>2, <2>3, <2>4, Zenon DEF Ordered
<1>5. Resolved
  <2>1. writing \in [Procs -> [i : Idx, m : OutFrames] \union {None}]
    BY <1>0
  <2> QED
    BY <1>0, <1>e, <2>1, Zenon DEF Resolved
<1>6. CardInv
  BY <1>1, InitCardInv
<1> QED
  BY <1>2, <1>3, <1>4, <1>5, <1>6, Zenon DEF IInv, SockInv

LEMMA NextIInv == IInv /\ [Next]_vars => IInv'
<1> SUFFICES ASSUME IInv, [Next]_vars PROVE IInv'
  OBVIOUS
<1>1. CardInv' /\ Resolved'
  BY NextCardInv, NextKeepsResolved DEF IInv, CardInv, SockInv
<1>2. CASE Next
  BY <1>1, <1>2, NextKeepsSock DEF IInv, CardInv
<1>3. CASE UNCHANGED vars
  <2>1. SockInv'
    BY <1>3 DEF IInv, SockInv, Blocks, InRx, Frame, OneCpu, Ordered, Newest, SleepersMustWait,
                vars, rxvars, sockvars, netvars
  <2> QED
    BY <1>1, <2>1 DEF IInv
<1> QED
  BY <1>2, <1>3

LEMMA IInvInvariant == Spec => []IInv
BY InitIInv, NextIInv, PTL DEF Spec

\* A process sleeps in a socket's read only while there is no packet for it, or
\* rx is about to wake it: no wakeup is lost, with any number of CPUs.
THEOREM NetworkSleepersMustWait == Spec => []SleepersMustWait
<1>1. IInv => SleepersMustWait
  BY DEF IInv, SockInv
<1> QED
  BY <1>1, IInvInvariant, PTL

\* On one CPU a packet waits only in the queue of a socket that has had its
\* port since it was opened.
THEOREM NetworkAddressedTo == Spec => []AddressedTo
<1>1. IInv => AddressedTo
  <2> SUFFICES ASSUME IInv, ~smp, NEW i \in Idx, NEW k \in DOMAIN queue[i]
               PROVE  queue[i][k].port \in had[i]
    BY DEF AddressedTo
  <2>1. queue[i] \in Seq(Messages)
    BY DEF IInv, SockInv, Blocks
  <2>2. k \in 1..Len(queue[i])
    BY <2>1
  <2> QED
    BY <2>2 DEF IInv, SockInv, OneCpu
<1> QED
  BY <1>1, IInvInvariant, PTL

\* From the card's ring to read, a socket's packets keep the order in which they
\* arrived, and none is read twice.
THEOREM NetworkReadInOrder == Spec => []ReadInOrder
<1>1. IInv => ReadInOrder
  <2> SUFFICES ASSUME IInv, NEW i \in Idx
               PROVE  /\ \A k \in DOMAIN queue[i] :
                           /\ queue[i][k].id > last[i]
                           /\ \A l \in 1..k - 1 : queue[i][l].id < queue[i][k].id
                      /\ delivered = Numbers(Len(delivered))
    BY DEF ReadInOrder
  <2>1. queue[i] \in Seq(Messages)
    BY DEF IInv, SockInv, Blocks
  <2>2. DOMAIN queue[i] = 1..Len(queue[i])
    BY <2>1
  <2>3. /\ delivered \in Seq(Nat)
        /\ \A k \in 1..Len(delivered) : delivered[k] = k
    BY Zenon DEF IInv, CardInv, RxRing
  <2>4. /\ Numbers(Len(delivered)) \in Seq(Nat)
        /\ Len(Numbers(Len(delivered))) = Len(delivered)
        /\ \A k \in 1..Len(delivered) : Numbers(Len(delivered))[k] = k
    BY <2>3 DEF Numbers
  <2>5. delivered = Numbers(Len(delivered))
    BY <2>3, <2>4, SameSeq
  <2> QED
    BY <2>2, <2>5 DEF IInv, SockInv, Ordered
<1> QED
  BY <1>1, IInvInvariant, PTL

\* A datagram goes to its host's MAC address or to the gateway, one without an
\* address to all: the ARP table never gives one host the address of another.
THEOREM NetworkFramesAddressed == Spec => []FramesAddressed
<1>1. IInv => FramesAddressed
  BY ResolvedAddressed DEF IInv
<1> QED
  BY <1>1, IInvInvariant, PTL
=============================================================================
