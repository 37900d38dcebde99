------------------------------- MODULE Network ------------------------------
(***************************************************************************)
(* The network stack: the card and its driver (E1000), UDP sockets (Udp),  *)
(* and between them net::rx, Ethernet, IP and ARP (net/mod.rs, ethernet.rs,*)
(* ip.rs, arp.rs).  The card numbers packets; out and inn say what a number*)
(* holds, as a record of the fields by which the layers decide.  Checksums *)
(* and lengths are left out.  A host's MAC address is its IP address; the  *)
(* network loses, repeats and delays what it likes, and answers a question *)
(* for an address by that address.                                         *)
(***************************************************************************)
EXTENDS E1000, Udp

CONSTANTS
  TABLE_SIZE,          \* of arp.rs
  Gateway, Broadcast,  \* GATEWAY_MAC_ADDR, ETHERNET_MAC_ADDR_BROADCAST
  Senders,             \* peers that send to us
  Writers              \* bound: processes that write

ASSUME NetworkAssumption ==
  /\ TX_RING_SIZE \in Nat \ {0, 1} /\ RX_RING_SIZE \in Nat \ {0, 1}
  /\ MaxTx \in Nat /\ MaxRx \in Nat /\ TABLE_SIZE \in Nat /\ CB_TABLE_SIZE \in Nat \ {0}
  /\ BindPorts \union UsablePorts \union Peers \subseteq Nat \ {0}
  /\ Senders \subseteq Peers /\ Writers \subseteq Procs
  /\ None \notin 0..CB_TABLE_SIZE - 1

VARIABLES
  out,      \* what each packet holds that send has accepted, None once sent
  inn,      \* what each packet holds that has arrived, None once delivered
  asked,    \* addresses for which a question is on the wire
  table,    \* the entries in use of arp.rs's TABLE, which are its first
  writing,  \* the datagram of a process between resolve and send, or None
  last,     \* for each socket: the number of the last packet read
  panic     \* rx has found the ARP table full

netvars == <<out, inn, asked, table, writing, last, panic>>
vars == <<txvars, rxvars, smp, sockvars, netvars>>

Init ==
  /\ InitRings /\ InitSockets
  /\ out = <<>> /\ inn = <<>> /\ asked = {} /\ table = <<>> /\ panic = FALSE
  /\ writing = [p \in Procs |-> None]
  /\ last = [i \in Idx |-> 0]

Request(ip) == [kind |-> "request", ip |-> ip, mac |-> Broadcast]
Reply(ip) == [kind |-> "reply", ip |-> ip, mac |-> ip]
Datagram(ip, mac) == [kind |-> "udp", ip |-> ip, mac |-> mac]

\* ethernet::tx: send, or a message that it failed; the packet is gone then.
EthernetTx(frame) ==
  \/ Send /\ out' = Append(out, frame)
  \/ SendFull /\ UNCHANGED out

-----------------------------------------------------------------------------
(***************************************************************************)
(* Writing to a socket: udp::send, ip::tx, arp::resolve.  resolve, with the*)
(* question that it may send, is done under the lock of the table.         *)
(***************************************************************************)

\* With one CPU the interrupt's handler is not interleaved.
NotInIntr == smp \/ pc = "none"

\* Mutant: an entry is taken whatever address it is for.
SelectAny(ip) == First(DOMAIN table)
\* select: the entry for the address, if there is one.
Select(ip) == First({k \in DOMAIN table : table[k].ip = ip})

Write(p, i) ==
  LET ip == meta[i].peer
      known == {table[k].mac : k \in Select(ip)}
  IN /\ NotInIntr /\ MayRun
     /\ meta[i].used /\ reading[p] = None /\ writing[p] = None
     /\ \E mac \in IF ip = 0 THEN {Broadcast} ELSE IF known # {} THEN known ELSE {Gateway} :
          writing' = [writing EXCEPT ![p] = [i |-> i, m |-> Datagram(ip, mac)]]
     /\ IF ip # 0 /\ known = {} /\ Len(table) < TABLE_SIZE THEN EthernetTx(Request(ip))
        ELSE UNCHANGED <<txvars, out>>
     /\ UNCHANGED <<rxvars, sockvars, inn, asked, table, last, panic>>

WriteSend(p) ==
  /\ NotInIntr /\ MayRun
  /\ writing[p] # None
  /\ EthernetTx(writing[p].m)
  /\ writing' = [writing EXCEPT ![p] = None]
  /\ UNCHANGED <<rxvars, sockvars, inn, asked, table, last, panic>>

-----------------------------------------------------------------------------
(***************************************************************************)
(* net::rx of the packet that recv has in hand.                            *)
(***************************************************************************)
Frame == inn[hand]

\* net::rx returns to recv.
Done == Deliver /\ inn' = [inn EXCEPT ![hand] = None]

\* udp::rx: no socket has the port.
RxDrop ==
  /\ pc = "deliver" /\ Frame.kind = "udp"
  /\ rx = None /\ wake = None /\ Find(Frame.port) = {}
  /\ Done
  /\ UNCHANGED <<txvars, sockvars, out, asked, table, writing, last, panic>>

RxFind ==
  /\ pc = "deliver" /\ Frame.kind = "udp"
  /\ UdpRxFind([port |-> Frame.port, peer |-> Frame.ip, id |-> hand])
  /\ UNCHANGED <<txvars, rxvars, netvars>>

RxPush == UdpRxPush /\ UNCHANGED <<txvars, rxvars, netvars>>

RxWakeup ==
  /\ UdpRxWakeup
  /\ Done
  /\ UNCHANGED <<txvars, out, asked, table, writing, last, panic>>

\* arp::rx of a question: it is answered.
RxRequest ==
  /\ pc = "deliver" /\ Frame.kind = "request"
  /\ EthernetTx(Reply(Frame.ip))
  /\ Done
  /\ UNCHANGED <<sockvars, asked, table, writing, last, panic>>

\* arp::rx of an answer: a new entry, though there may be one for the address.
RxReply ==
  /\ pc = "deliver" /\ Frame.kind = "reply"
  /\ IF Len(table) < TABLE_SIZE
     THEN table' = Append(table, [ip |-> Frame.ip, mac |-> Frame.mac]) /\ Done /\ UNCHANGED panic
     ELSE panic' = TRUE /\ UNCHANGED <<rxvars, inn, table>>
  /\ UNCHANGED <<txvars, sockvars, out, asked, writing, last>>

-----------------------------------------------------------------------------
(***************************************************************************)
(* The network, and the rest.                                              *)
(***************************************************************************)

\* The card sends what is in the ring.
Transmit ==
  LET k == tx[tdh].m
  IN /\ CardSends
     /\ out' = [out EXCEPT ![k] = None]
     /\ asked' = asked \union {ip \in Peers : out[k] = Request(ip)}
     /\ UNCHANGED <<sockvars, inn, table, writing, last, panic>>

\* Datagrams, questions, and answers, perhaps again, to questions that were
\* sent.
Incoming ==
  {[kind |-> "udp", ip |-> ip, port |-> port] : ip \in Senders, port \in Ports}
    \union {Request(ip) : ip \in Senders} \union {Reply(ip) : ip \in asked}

Arrive ==
  \E f \in Incoming :
    /\ CardStores
    /\ inn' = Append(inn, f)
    /\ UNCHANGED <<sockvars, out, asked, table, writing, last, panic>>

Ids(q) == {q[k].id : k \in DOMAIN q}

\* A process's call on a socket; close waits for calls that go on.  A call
\* takes one packet at most, the next last of the socket.
SocketCall ==
  /\ NotInIntr
  /\ ProcNext
  /\ \A p \in Procs : writing[p] # None => meta'[writing[p].i].used /\ reading'[p] = None
  /\ last' = [i \in Idx |->
                LET taken == Ids(queue[i]) \ Ids(queue'[i])
                IN IF meta[i].used # meta'[i].used THEN 0
                   ELSE IF taken = {} THEN last[i] ELSE CHOOSE id \in taken : TRUE]
  /\ UNCHANGED <<txvars, rxvars, out, inn, asked, table, writing, panic>>

Next ==
  /\ ~panic /\ UNCHANGED smp
  /\ \/ SocketCall
     \/ \E p \in Writers : (\E i \in Idx : Write(p, i)) \/ WriteSend(p)
     \/ Transmit \/ Arrive
     \/ IntrNext /\ UNCHANGED <<sockvars, netvars>>
     \/ RxDrop \/ RxFind \/ RxPush \/ RxWakeup \/ RxRequest \/ RxReply

Spec == Init /\ [][Next]_vars

-----------------------------------------------------------------------------
(***************************************************************************)
(* Properties.                                                             *)
(***************************************************************************)

\* From the card's ring to read, a socket's packets keep the order in which they
\* arrived, and none is read twice.
ReadInOrder ==
  \A i \in Idx :
    LET q == queue[i]
    IN /\ \A k \in DOMAIN q : q[k].id > last[i] /\ \A l \in 1..k - 1 : q[l].id < q[k].id
       /\ delivered = Numbers(Len(delivered))

\* A datagram goes to its host's MAC address or to the gateway, one without an
\* address to all.
FramesAddressed ==
  LET queued == {out[k] : k \in DOMAIN out} \ {None}
      held == {writing[p].m : p \in {q \in Procs : writing[q] # None}}
  IN \A f \in queued \union held :
       f.kind = "udp" => f.mac \in IF f.ip = 0 THEN {Broadcast} ELSE {f.ip, Gateway}
=============================================================================
