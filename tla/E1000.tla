------------------------------- MODULE E1000 --------------------------------
(***************************************************************************)
(* The network card's driver (e1000.rs): the transmit ring that send fills *)
(* and the receive ring that the interrupt empties, with the card, which   *)
(* works on both on its own.  What happens under the lock of E1000 is one  *)
(* step.  Packets are numbered in the order in which they come.            *)
(***************************************************************************)
EXTENDS Integers, Sequences

CONSTANTS
  TX_RING_SIZE, RX_RING_SIZE,
  MaxTx,       \* bound: packets sent
  MaxRx        \* bound: packets that arrive

VARIABLES
  tx,        \* tx_ring and tx_mbufs: status' DD bit and the packet, 0 if none
  tdh, tdt,  \* the card's registers TDH and TDT
  accepted,  \* packets for which send returned Ok
  sent,      \* what the card has put on the wire
  rx_ring,   \* rx_ring and rx_mbufs: status' DD bit and the packet received
  rdh, rdt,  \* the card's registers RDH and RDT
  icr,       \* the card's cause register: the interrupt is asserted
  pc,        \* the interrupt's handler: "none" | "recv" | "deliver" | "icr"
  hand,      \* the packet that recv is about to give to net::rx
  arrived,   \* packets that the card has stored
  delivered, \* packets that net::rx has been given
  late       \* a packet came after recv's last look at the ring

txvars == <<tx, tdh, tdt, accepted, sent>>
rxvars == <<rx_ring, rdh, rdt, icr, pc, hand, arrived, delivered, late>>

\* init: every transmit descriptor is done, every receive descriptor but the
\* last is the card's.
InitRings ==
  /\ tx = [i \in 0..TX_RING_SIZE - 1 |-> [dd |-> TRUE, m |-> 0]]
  /\ tdh = 0 /\ tdt = 0 /\ accepted = 0 /\ sent = <<>>
  /\ rx_ring = [i \in 0..RX_RING_SIZE - 1 |-> [dd |-> FALSE, m |-> 0]]
  /\ rdh = 0 /\ rdt = RX_RING_SIZE - 1
  /\ icr = FALSE /\ pc = "none" /\ hand = 0 /\ arrived = 0 /\ delivered = <<>>
  /\ late = FALSE

-----------------------------------------------------------------------------
(***************************************************************************)
(* Transmission.                                                           *)
(***************************************************************************)

\* Mutant: the ring is not checked for overflow.
TailIsFreeAlways == TRUE
TailIsFree == tx[tdt].dd

\* send of a packet; what the descriptor held before is freed.
Send ==
  /\ accepted < MaxTx
  /\ TailIsFree
  /\ accepted' = accepted + 1
  /\ tx' = [tx EXCEPT ![tdt] = [dd |-> FALSE, m |-> accepted']]
  /\ tdt' = (tdt + 1) % TX_RING_SIZE
  /\ UNCHANGED <<tdh, sent>>

\* send refuses a packet.
SendFull == ~TailIsFree /\ UNCHANGED txvars

\* The card: between TDH and TDT there is something to send.
CardSends ==
  /\ tdh # tdt
  /\ sent' = Append(sent, tx[tdh].m)
  /\ tx' = [tx EXCEPT ![tdh] = [dd |-> TRUE, m |-> @.m]]
  /\ tdh' = (tdh + 1) % TX_RING_SIZE
  /\ UNCHANGED <<tdt, accepted, rxvars>>

-----------------------------------------------------------------------------
(***************************************************************************)
(* Reception.                                                              *)
(***************************************************************************)

\* The card: a packet is stored while it has a descriptor, and else dropped.
CardStores ==
  /\ arrived < MaxRx
  /\ rdh # rdt
  /\ arrived' = arrived + 1
  /\ rx_ring' = [rx_ring EXCEPT ![rdh] = [dd |-> TRUE, m |-> arrived']]
  /\ rdh' = (rdh + 1) % RX_RING_SIZE
  /\ icr' = TRUE
  /\ late' = (late \/ pc = "icr")
  /\ UNCHANGED <<txvars, rdt, pc, hand, delivered>>

\* The interrupt is taken, by one CPU until it is complete.
Intr ==
  /\ pc = "none" /\ icr
  /\ pc' = "recv"
  /\ late' = FALSE
  /\ UNCHANGED <<txvars, rx_ring, rdh, rdt, icr, hand, arrived, delivered>>

NextPos == (rdt + 1) % RX_RING_SIZE

NewRdt(pos) == pos

\* recv takes a packet and puts a new buffer in its place.
RecvTake ==
  /\ pc = "recv" /\ rx_ring[NextPos].dd
  /\ hand' = rx_ring[NextPos].m
  /\ rx_ring' = [rx_ring EXCEPT ![NextPos] = [dd |-> FALSE, m |-> 0]]
  /\ rdt' = NewRdt(NextPos)
  /\ pc' = "deliver"
  /\ UNCHANGED <<txvars, rdh, icr, arrived, delivered, late>>

\* Mutant: one packet is taken for each interrupt.
DeliverOnce ==
  /\ pc = "deliver"
  /\ delivered' = Append(delivered, hand)
  /\ hand' = 0
  /\ pc' = "icr"
  /\ UNCHANGED <<rx_ring, rdh, rdt, icr, arrived, late>>

\* net::rx, called with the lock released, returns.
Deliver ==
  /\ pc = "deliver"
  /\ delivered' = Append(delivered, hand)
  /\ hand' = 0
  /\ pc' = "recv"
  /\ UNCHANGED <<rx_ring, rdh, rdt, icr, arrived, late>>

RecvNone ==
  /\ pc = "recv" /\ ~rx_ring[NextPos].dd
  /\ pc' = "icr"
  /\ UNCHANGED <<txvars, rx_ring, rdh, rdt, icr, hand, arrived, delivered, late>>

\* intr reads ICR after recv, which clears it.
ReadIcr ==
  /\ pc = "icr"
  /\ icr' = FALSE
  /\ pc' = "none"
  /\ UNCHANGED <<txvars, rx_ring, rdh, rdt, hand, arrived, delivered, late>>

\* The interrupt's steps; who sends, what arrives and what net::rx does with it
\* is in Network.
IntrNext == Intr \/ RecvTake \/ RecvNone \/ ReadIcr

-----------------------------------------------------------------------------
(***************************************************************************)
(* Properties.                                                             *)
(***************************************************************************)

Numbers(n) == [i \in 1..n |-> i]

\* How many packets wait in each of the rings.
Unsent == accepted - Len(sent)
Unread == arrived - Len(delivered) - (IF pc = "deliver" THEN 1 ELSE 0)

\* Every packet that send accepted is on the wire or in the ring, in order and
\* once, and no other descriptor waits for the card: send does not take the
\* buffer of a packet that the card still needs.
SentInOrder ==
  /\ sent \o [k \in 1..Unsent |-> tx[(tdh + k - 1) % TX_RING_SIZE].m] = Numbers(accepted)
  /\ {i \in DOMAIN tx : ~tx[i].dd} = {(tdh + k - 1) % TX_RING_SIZE : k \in 1..Unsent}

\* Every packet that the card stored is delivered, on its way or in the ring,
\* in order and once, although the card goes on while recv works.
DeliveredInOrder ==
  /\ delivered
       \o (IF pc = "deliver" THEN <<hand>> ELSE <<>>)
       \o [k \in 1..Unread |-> rx_ring[(rdt + k) % RX_RING_SIZE].m] = Numbers(arrived)
  /\ {i \in DOMAIN rx_ring : rx_ring[i].dd} = {(rdt + k) % RX_RING_SIZE : k \in 1..Unread}

\* The card never writes to a descriptor that recv has still to read.
CardOwnsHead == rdh # rdt => ~rx_ring[rdh].dd

\* "a previous transmittion is still in flight" (e1000.rs:185): when send
\* refuses a packet the card has one to send.
RefusedIsInFlight == ~tx[tdt].dd => tdh # tdt

\* A packet in the ring has its interrupt to come or a handler that will see
\* it, unless it came between recv's last look and the reading of ICR.
PacketSeen ==
  (\E i \in DOMAIN rx_ring : rx_ring[i].dd) => icr \/ pc # "none" \/ late

\* "The E1000 generates an interrupt whenever new packets are received. So we
\* scan the RX queue to handle each packet" (e1000.rs:223): a packet in the
\* ring has its interrupt to come, or a handler that will see it.
PacketHasInterrupt ==
  (\E i \in DOMAIN rx_ring : rx_ring[i].dd) => icr \/ pc # "none"
=============================================================================
