-------------------------------- MODULE Udp ---------------------------------
(***************************************************************************)
(* UDP sockets (net/udp.rs, and Socket of net/mod.rs): the table of        *)
(* control blocks, packets that arrive in the interrupt, processes that    *)
(* read.  rx takes no lock of the table.  With one CPU nothing runs        *)
(* between its parts; with more, everything may (smp).  A packet is a      *)
(* record of its destination port, its sender and its number.              *)
(***************************************************************************)
EXTENDS Integers, Sequences

CONSTANTS
  Procs,           \* processes that read
  CB_TABLE_SIZE,
  BindPorts,       \* ports given to bind
  UsablePorts,     \* USABLE_PORT_MIN..=USABLE_PORT_MAX
  Peers,           \* the other ends, numbers from 1
  None

Idx == 0..CB_TABLE_SIZE - 1
Ports == BindPorts \union UsablePorts \union {0}

VARIABLES
  smp,     \* does the machine have more than one CPU?
  meta,    \* ControlBlockMeta
  queue,   \* ControlBlockData.mbuf_queue
  had,     \* for each socket: the ports it has had since it was opened
  rx,      \* the packet in rx and the block that find returned, or None
  wake,    \* the block whose sleepers rx is about to wake, or None
  reading, \* the block that a process reads, or None
  asleep   \* processes asleep in read

\* smp never changes: Next of Network says so, not the actions.
sockvars == <<meta, queue, had, rx, wake, reading, asleep>>

NewMeta == [used |-> FALSE, port |-> 0, peer |-> 0]

InitSockets ==
  /\ smp \in BOOLEAN
  /\ meta = [i \in Idx |-> NewMeta]
  /\ queue = [i \in Idx |-> <<>>]
  /\ had = [i \in Idx |-> {}]
  /\ rx = None /\ wake = None
  /\ reading = [p \in Procs |-> None] /\ asleep = {}

\* rx is an interrupt: with one CPU it finishes before anything else goes on.
MayRun == smp \/ (rx = None /\ wake = None)

-----------------------------------------------------------------------------
\* Where a loop over the numbers in S stops: at its least, if it has any.
First(S) == {x \in S : \A y \in S : x <= y}

Unused == {i \in Idx : ~meta[i].used}

Open ==
  /\ MayRun
  /\ \E i \in First(Unused) :
       /\ meta' = [meta EXCEPT ![i].used = TRUE]
       /\ had' = [had EXCEPT ![i] = {0}]
  /\ UNCHANGED <<queue, rx, wake, reading, asleep>>

\* Mutant: the queue is kept.
ClosedQueueKept(i) == queue[i]
ClosedQueue(i) == <<>>

\* Socket's drop, once nobody uses the file: nobody reads.
Close(i) ==
  /\ MayRun
  /\ meta[i].used /\ \A p \in Procs : reading[p] # i
  /\ meta' = [meta EXCEPT ![i] = NewMeta]
  /\ queue' = [queue EXCEPT ![i] = ClosedQueue(i)]
  /\ had' = [had EXCEPT ![i] = {}]
  /\ UNCHANGED <<rx, wake, reading, asleep>>

Bind(i, port) ==
  /\ MayRun
  /\ meta[i].used
  /\ meta' = [meta EXCEPT ![i].port = port]
  /\ had' = [had EXCEPT ![i] = @ \union {port}]
  /\ UNCHANGED <<queue, rx, wake, reading, asleep>>

\* The ports that no block uses.
FreePorts == {c \in UsablePorts : \A i \in Idx : ~(meta[i].used /\ meta[i].port = c)}

\* connect sets the peer, and the port if there is none and one is left.
Connect(i, peer) ==
  /\ MayRun
  /\ meta[i].used
  /\ \E port \in IF meta[i].port = 0 /\ FreePorts # {} THEN First(FreePorts) ELSE {meta[i].port} :
       /\ meta' = [meta EXCEPT ![i].peer = peer, ![i].port = port]
       /\ had' = [had EXCEPT ![i] = @ \union {port}]
  /\ UNCHANGED <<queue, rx, wake, reading, asleep>>

-----------------------------------------------------------------------------
\* find, which rx calls without the table's lock: the block, if there is one.
Find(port) == First({i \in Idx : meta[i].used /\ meta[i].port = port})

UdpRxFind(m) ==
  /\ rx = None /\ wake = None
  /\ \E i \in Find(m.port) : rx' = [m |-> m, cb |-> i]
  /\ UNCHANGED <<meta, queue, had, wake, reading, asleep>>

\* rx puts the packet into the block's queue.
UdpRxPush ==
  /\ rx # None
  /\ queue' = [queue EXCEPT ![rx.cb] = Append(@, rx.m)]
  /\ wake' = rx.cb
  /\ rx' = None
  /\ UNCHANGED <<meta, had, reading, asleep>>

\* Mutant: one sleeper is woken.
WokenOne(i) ==
  LET s == {p \in asleep : reading[p] = i}
  IN IF s = {} THEN {} ELSE {CHOOSE p \in s : TRUE}
\* wakeup wakes all who sleep on the block.
Woken(i) == {p \in asleep : reading[p] = i}

UdpRxWakeup ==
  /\ wake # None
  /\ asleep' = asleep \ Woken(wake)
  /\ wake' = None
  /\ UNCHANGED <<meta, queue, had, rx, reading>>

\* read, of a socket that the process has open.
Read(p, i) ==
  /\ MayRun
  /\ reading[p] = None /\ meta[i].used
  /\ reading' = [reading EXCEPT ![p] = i]
  /\ UNCHANGED <<meta, queue, had, rx, wake, asleep>>

ReadSleep(p) ==
  /\ MayRun
  /\ reading[p] # None /\ p \notin asleep
  /\ queue[reading[p]] = <<>>
  /\ asleep' = asleep \union {p}
  /\ UNCHANGED <<meta, queue, had, rx, wake, reading>>

\* Mutant: the packet that came last is taken.
RestNewest(q) == SubSeq(q, 1, Len(q) - 1)
\* What is left of the queue: remove(0).
Rest(q) == Tail(q)

\* A packet is taken; what the caller's buffer does not hold of it is dropped.
ReadPacket(p) ==
  /\ MayRun
  /\ reading[p] # None /\ p \notin asleep
  /\ queue[reading[p]] # <<>>
  /\ queue' = [queue EXCEPT ![reading[p]] = Rest(@)]
  /\ reading' = [reading EXCEPT ![p] = None]
  /\ UNCHANGED <<meta, had, rx, wake, asleep>>

\* What processes do; rx is the card's, in Network.
ProcNext ==
  \/ Open
  \/ \E i \in Idx :
       \/ Close(i)
       \/ \E port \in BindPorts : Bind(i, port)
       \/ \E peer \in Peers : Connect(i, peer)
  \/ \E p \in Procs : (\E i \in Idx : Read(p, i)) \/ ReadSleep(p) \/ ReadPacket(p)

-----------------------------------------------------------------------------
(***************************************************************************)
(* Properties.                                                             *)
(***************************************************************************)

\* A process sleeps in read only while there is no packet for it, or rx is
\* about to wake it.
SleepersMustWait ==
  \A p \in asleep : queue[reading[p]] # <<>> => wake = reading[p]

\* rx finds "the ControlBlock and use[s] it" (udp.rs:211): a packet waits in
\* the queue of a socket that has had its port, and never in that of a block
\* that is not open.  Holds with one CPU; with more, close may come between.
AddressedTo == ~smp => \A i \in Idx : \A k \in DOMAIN queue[i] : queue[i][k].port \in had[i]

\* "use 5-tuple to find the ControlBlock" (udp.rs:211): a packet for
\* which rx has found a connected socket comes from its peer.
FromPeer ==
  rx # None /\ meta[rx.cb].peer # 0 => rx.m.peer = meta[rx.cb].peer
=============================================================================
