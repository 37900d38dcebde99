----------------------------- MODULE CardProofs -----------------------------
(***************************************************************************)
(* Proofs about the network card and its driver, as Network composes them, *)
(* for every size of the two rings and with one CPU or several.            *)
(***************************************************************************)
EXTENDS Network, TLAPS

\* A leaf that names no prover is tried with the SMT solver, then with Zenon and
\* then, with more time, with the SMT solver again.
USE SMTT(10), Zenon, SMTT(30)

-----------------------------------------------------------------------------
(***************************************************************************)
(* The inductive invariant, a part for each ring, for the interrupt and for*)
(* what packets hold.  The m-th packet, counted from 0, has its place in a *)
(* ring of n at At(n, m).                                                  *)
(***************************************************************************)
At(n, m) == m % n

\* How many packets recv has taken from its ring.
Taken == Len(delivered) + (IF pc = "deliver" THEN 1 ELSE 0)

\* The packets that send accepted and the card has still to send are in the
\* ring, each at its place; no other descriptor waits for the card.
TxRing ==
  /\ tx \in [0..TX_RING_SIZE - 1 -> [dd : BOOLEAN, m : Nat]]
  /\ accepted \in Nat /\ sent \in Seq(Nat)
  /\ Len(sent) <= accepted /\ accepted <= Len(sent) + TX_RING_SIZE
  /\ tdh = At(TX_RING_SIZE, Len(sent)) /\ tdt = At(TX_RING_SIZE, accepted)
  /\ \A k \in 1..Len(sent) : sent[k] = k
  /\ \A m \in Len(sent)..accepted - 1 : tx[At(TX_RING_SIZE, m)] = [dd |-> FALSE, m |-> m + 1]
  /\ \A i \in 0..TX_RING_SIZE - 1 :
       ~tx[i].dd => \E m \in Len(sent)..accepted - 1 : i = At(TX_RING_SIZE, m)

\* The packets that the card has stored and recv has still to take are in the
\* ring, each at its place; no other descriptor is done, and one is never the
\* card's.
RxRing ==
  /\ rx_ring \in [0..RX_RING_SIZE - 1 -> [dd : BOOLEAN, m : Nat]]
  /\ arrived \in Nat /\ delivered \in Seq(Nat)
  /\ pc \in {"none", "recv", "deliver", "icr"}
  /\ Taken <= arrived /\ arrived <= Taken + RX_RING_SIZE - 1
  /\ rdh = At(RX_RING_SIZE, arrived) /\ rdt = At(RX_RING_SIZE, Taken + RX_RING_SIZE - 1)
  /\ \A k \in 1..Len(delivered) : delivered[k] = k
  /\ pc = "deliver" => hand = Taken
  /\ \A m \in Taken..arrived - 1 : rx_ring[At(RX_RING_SIZE, m)] = [dd |-> TRUE, m |-> m + 1]
  /\ \A i \in 0..RX_RING_SIZE - 1 :
       rx_ring[i].dd => \E m \in Taken..arrived - 1 : i = At(RX_RING_SIZE, m)

\* A packet that no handler will see and that asserts no interrupt is late.
Seen ==
  /\ icr \in BOOLEAN /\ late \in BOOLEAN
  /\ Taken < arrived => \/ pc \in {"recv", "deliver"}
                        \/ pc = "none" /\ icr
                        \/ late

\* What recv has still to hand on has its contents.
InFrames ==
  {[kind |-> "udp", ip |-> ip, port |-> port] : ip \in Senders, port \in Ports}
    \union {Request(ip) : ip \in Senders} \union {Reply(ip) : ip \in Peers}

Contents ==
  /\ inn \in Seq(InFrames \union {None}) /\ Len(inn) = arrived
  /\ \A k \in Len(delivered) + 1 .. arrived : inn[k] \in InFrames
  /\ asked \subseteq Peers

CardInv == TxRing /\ RxRing /\ Seen /\ Contents

-----------------------------------------------------------------------------
(***************************************************************************)
(* The rings.                                                              *)
(***************************************************************************)

\* Two numbers less than n apart do not share an index of a ring of n.
LEMMA ModApart ==
  ASSUME NEW n \in Nat \ {0}, NEW a \in Nat, NEW b \in Nat, a < b, b < a + n
  PROVE  a % n # b % n
<1> DEFINE qa == a \div n
           qb == b \div n
<1>1. a = n * qa + (a % n) /\ qa \in Int /\ a % n \in 0..n - 1
  OBVIOUS
<1>2. b = n * qb + (b % n) /\ qb \in Int /\ b % n \in 0..n - 1
  OBVIOUS
<1>3. SUFFICES ASSUME a % n = b % n PROVE FALSE
  OBVIOUS
<1> HIDE DEF qa, qb
<1>4. b - a = n * (qb - qa)
  BY <1>1, <1>2, <1>3
<1>5. CASE qb - qa <= 0
  <2>1. n * (qb - qa) <= 0
    BY <1>1, <1>2, <1>5
  <2> QED
    BY <1>4, <2>1
<1>6. CASE qb - qa >= 1
  <2>1. n * (qb - qa) >= n
    BY <1>1, <1>2, <1>6
  <2> QED
    BY <1>4, <2>1
<1> QED
  BY <1>1, <1>2, <1>5, <1>6

\* Two numbers a multiple of n apart share an index of a ring of n.
LEMMA ModSame ==
  ASSUME NEW n \in Nat \ {0}, NEW a \in Nat, NEW b \in Nat, NEW k \in Int, a = b + n * k
  PROVE  a % n = b % n
<1> DEFINE qa == a \div n
           qb == b \div n
<1>1. a = n * qa + (a % n) /\ qa \in Int /\ a % n \in 0..n - 1
  OBVIOUS
<1>2. b = n * qb + (b % n) /\ qb \in Int /\ b % n \in 0..n - 1
  OBVIOUS
<1> DEFINE z == qb + k - qa
<1>3. z \in Int /\ (a % n) - (b % n) = n * z
  BY <1>1, <1>2
<1> HIDE DEF qa, qb, z
<1>4. CASE z <= -1
  <2>1. n * z <= -n
    BY <1>3, <1>4
  <2> QED
    BY <1>1, <1>2, <1>3, <2>1
<1>5. CASE z >= 1
  <2>1. n * z >= n
    BY <1>3, <1>5
  <2> QED
    BY <1>1, <1>2, <1>3, <2>1
<1>6. CASE z = 0
  BY <1>1, <1>2, <1>3, <1>6
<1> QED
  BY <1>3, <1>4, <1>5, <1>6

\* A number below n is its own index.
LEMMA ModSmall ==
  ASSUME NEW n \in Nat \ {0}, NEW a \in 0..n - 1
  PROVE  a % n = a
<1> DEFINE q == a \div n
<1>1. a = n * q + (a % n) /\ q \in Int /\ a % n \in 0..n - 1
  OBVIOUS
<1> HIDE DEF q
<1>2. CASE q <= -1
  <2>1. n * q <= -n
    BY <1>1, <1>2
  <2> QED
    BY <1>1, <2>1
<1>3. CASE q >= 1
  <2>1. n * q >= n
    BY <1>1, <1>3
  <2> QED
    BY <1>1, <2>1
<1>4. CASE q = 0
  BY <1>1, <1>4
<1> QED
  BY <1>1, <1>2, <1>3, <1>4

\* k indices further in a ring, from the index of a, is the index of a + k.
LEMMA ModPlus ==
  ASSUME NEW n \in Nat \ {0}, NEW a \in Nat, NEW k \in Nat
  PROVE  ((a % n) + k) % n = (a + k) % n
<1> DEFINE q == a \div n
<1>1. a = n * q + (a % n) /\ q \in Int /\ a % n \in 0..n - 1
  OBVIOUS
<1> DEFINE x == a + k
           y == (a % n) + k
<1> HIDE DEF q
<1>2. x = y + n * q /\ x \in Nat /\ y \in Nat
  BY <1>1
<1>3. y % n = x % n
  <2> HIDE DEF x, y
  <2> QED
    BY <1>1, <1>2, ModSame, Zenon
<1> QED
  BY <1>3

\* The places of a ring: the next place follows, n packets further is the same
\* place, and packets less than n apart are at different ones.
LEMMA AtFacts ==
  ASSUME NEW n \in Nat \ {0}
  PROVE  /\ \A a \in Nat : At(n, a) \in 0..n - 1
         /\ \A a \in Nat : (At(n, a) + 1) % n = At(n, a + 1)
         /\ \A a \in Nat : At(n, a + n) = At(n, a)
         /\ \A a, b \in Nat : a < b /\ b < a + n => At(n, a) # At(n, b)
<1>1. ASSUME NEW a \in Nat PROVE At(n, a) \in 0..n - 1
  BY DEF At
<1>2. ASSUME NEW a \in Nat PROVE (At(n, a) + 1) % n = At(n, a + 1)
  BY ModPlus, Zenon DEF At
<1>3. ASSUME NEW a \in Nat PROVE At(n, a + n) = At(n, a)
  <2>1. a + n \in Nat /\ 1 \in Int /\ a + n = a + n * 1
    OBVIOUS
  <2>2. (a + n) % n = a % n
    BY <2>1, ModSame, Zenon
  <2> QED
    BY <2>2 DEF At
<1>4. ASSUME NEW a \in Nat, NEW b \in Nat, a < b, b < a + n PROVE At(n, a) # At(n, b)
  BY <1>4, ModApart, Zenon DEF At
<1> QED
  BY <1>1, <1>2, <1>3, <1>4

\* Only send and the card touch the transmit ring.
LEMMA NextTx ==
  ASSUME Next
  PROVE  UNCHANGED txvars \/ Send \/ CardSends
<1> USE DEF EthernetTx, txvars, rxvars, netvars, sockvars
<1>1. CASE SocketCall
  BY <1>1 DEF SocketCall
<1>2. ASSUME NEW p \in Writers, NEW i \in Idx, Write(p, i)
      PROVE  UNCHANGED txvars \/ Send
  BY <1>2, Zenon DEF Write, SendFull, txvars
<1>3. ASSUME NEW p \in Writers, WriteSend(p)
      PROVE  UNCHANGED txvars \/ Send
  BY <1>3 DEF WriteSend, SendFull, txvars
<1>4. CASE Transmit
  BY <1>4 DEF Transmit
<1>5. CASE Arrive
  BY <1>5 DEF Arrive, CardStores, txvars
<1>6. CASE IntrNext
  BY <1>6 DEF IntrNext, Intr, RecvTake, RecvNone, ReadIcr, txvars
<1>7. CASE RxDrop \/ RxFind \/ RxPush \/ RxWakeup \/ RxReply
  BY <1>7 DEF RxDrop, RxFind, RxPush, RxWakeup, RxReply
<1>8. CASE RxRequest
  BY <1>8 DEF RxRequest, SendFull, txvars
<1> QED
  BY <1>1, <1>2, <1>3, <1>4, <1>5, <1>6, <1>7, <1>8 DEF Next

\* send takes the place after the last packet, which no packet needs: the card
\* is done with it.
LEMMA SendKeepsTxRing ==
  ASSUME TxRing, Send
  PROVE  TxRing'
<1> DEFINE n == TX_RING_SIZE
           s == Len(sent)
<1>0. /\ n \in Nat \ {0} /\ s \in Nat /\ accepted \in Nat /\ s <= accepted
      /\ accepted <= s + n
  BY NetworkAssumption DEF TxRing
<1>1. /\ accepted' = accepted + 1 /\ sent' = sent /\ tdh' = tdh
      /\ tx' = [tx EXCEPT ![tdt] = [dd |-> FALSE, m |-> accepted + 1]]
      /\ tdt' = (tdt + 1) % n /\ tx[tdt].dd
  BY DEF Send, TailIsFree
<1>s. s = Len(sent)
  OBVIOUS
<1> HIDE DEF n, s
<1>2. accepted # s + n
  <2> SUFFICES ASSUME accepted = s + n PROVE FALSE
    OBVIOUS
  <2>1. At(n, accepted) = At(n, s) /\ s \in s..accepted - 1
    BY <1>0, AtFacts
  <2>2. tx[At(n, s)] = [dd |-> FALSE, m |-> s + 1]
    BY <1>s, <2>1 DEF TxRing, n
  <2> QED
    BY <1>1, <2>1, <2>2 DEF TxRing, n
<1>3. accepted < s + n
  BY <1>0, <1>2
<1>4. /\ tdt = At(n, accepted) /\ tdt \in 0..n - 1 /\ tdt' = At(n, accepted')
  BY <1>0, <1>1, AtFacts DEF TxRing, n
<1>5. tx' \in [0..n - 1 -> [dd : BOOLEAN, m : Nat]]
  BY <1>0, <1>1, <1>4 DEF TxRing, n
<1>6. ASSUME NEW m \in s..accepted' - 1
      PROVE  tx'[At(n, m)] = [dd |-> FALSE, m |-> m + 1]
  <2>a. m \in Nat
    BY <1>0, <1>1
  <2>1. m \in Nat /\ At(n, m) \in 0..n - 1
    BY <1>0, <2>a, AtFacts, Zenon
  <2>2. CASE m = accepted
    BY <1>1, <1>4, <1>5, <2>1, <2>2 DEF TxRing, n
  <2>3. CASE m < accepted
    <3>1. At(n, m) # tdt
      BY <1>0, <1>3, <1>4, <2>1, <2>3, AtFacts
    <3>2. m \in s..accepted - 1 /\ tx'[At(n, m)] = tx[At(n, m)]
      BY <1>0, <1>1, <2>1, <2>3, <3>1 DEF TxRing, n
    <3> QED
      BY <1>s, <3>2 DEF TxRing, n
  <2> QED
    BY <1>0, <1>1, <2>1, <2>2, <2>3
<1>7. ASSUME NEW i \in 0..n - 1, ~tx'[i].dd
      PROVE  \E m \in s..accepted' - 1 : i = At(n, m)
  <2>1. CASE i = tdt
    BY <1>0, <1>1, <1>4, <2>1
  <2>2. CASE i # tdt
    <3>1. ~tx[i].dd
      BY <1>1, <1>7, <2>2 DEF TxRing, n
    <3>2. PICK m \in s..accepted - 1 : i = At(n, m)
      BY <1>s, <3>1 DEF TxRing, n
    <3> QED
      BY <1>0, <1>1, <3>2
  <2> QED
    BY <2>1, <2>2
<1>8. /\ accepted' \in Nat /\ Len(sent') = s /\ s <= accepted' /\ accepted' <= s + n
      /\ tdh' = At(n, s)
  BY <1>0, <1>s, <1>1, <1>3 DEF TxRing, n
<1>9. sent' \in Seq(Nat) /\ \A k \in 1..s : sent'[k] = k
  BY <1>s, <1>1 DEF TxRing
<1> QED
  BY <1>4, <1>5, <1>6, <1>7, <1>8, <1>9, Zenon DEF TxRing, n

\* The card sends the packet that send accepted first of those it has not sent.
LEMMA TransmitKeepsTxRing ==
  ASSUME TxRing, CardSends
  PROVE  TxRing'
<1> DEFINE n == TX_RING_SIZE
           s == Len(sent)
<1>0. /\ n \in Nat \ {0} /\ s \in Nat /\ accepted \in Nat /\ s <= accepted
      /\ accepted <= s + n
  BY NetworkAssumption DEF TxRing
<1>1. /\ accepted' = accepted /\ sent' = Append(sent, tx[tdh].m) /\ tdt' = tdt
      /\ tx' = [tx EXCEPT ![tdh] = [dd |-> TRUE, m |-> tx[tdh].m]]
      /\ tdh' = (tdh + 1) % n /\ tdh # tdt
  BY DEF CardSends
<1>s. s = Len(sent)
  OBVIOUS
<1> HIDE DEF n, s
<1>2. s < accepted
  BY <1>0, <1>s, <1>1 DEF TxRing, n
<1>3. /\ tdh = At(n, s) /\ tdh \in 0..n - 1 /\ tdh' = At(n, s + 1)
  BY <1>0, <1>s, <1>1, AtFacts, Zenon DEF TxRing, n
<1>4. tx[tdh] = [dd |-> FALSE, m |-> s + 1]
  <2>1. s \in s..accepted - 1
    BY <1>0, <1>2
  <2> QED
    BY <1>s, <1>3, <2>1, Zenon DEF TxRing, n
<1>5. /\ sent' \in Seq(Nat) /\ Len(sent') = s + 1
      /\ \A k \in 1..s + 1 : sent'[k] = k
  BY <1>0, <1>s, <1>1, <1>4 DEF TxRing
<1>6. tx' = [tx EXCEPT ![tdh] = [dd |-> TRUE, m |-> s + 1]]
  BY <1>1, <1>3, <1>4 DEF TxRing, n
<1>7. tx' \in [0..n - 1 -> [dd : BOOLEAN, m : Nat]]
  BY <1>0, <1>3, <1>6 DEF TxRing, n
<1>8. ASSUME NEW m \in s + 1 .. accepted - 1
      PROVE  tx'[At(n, m)] = [dd |-> FALSE, m |-> m + 1]
  <2>1. m \in Nat /\ m \in s..accepted - 1
    BY <1>0
  <2>a. At(n, m) \in 0..n - 1
    BY <1>0, <2>1, AtFacts
  <2>2. At(n, m) # tdh
    BY <1>0, <1>3, <2>1, AtFacts
  <2> QED
    BY <1>s, <1>6, <2>1, <2>a, <2>2, Zenon DEF TxRing, n
<1>9. ASSUME NEW i \in 0..n - 1, ~tx'[i].dd
      PROVE  \E m \in s + 1 .. accepted - 1 : i = At(n, m)
  <2>1. i # tdh /\ ~tx[i].dd
    BY <1>3, <1>6, <1>9 DEF TxRing, n
  <2>2. PICK m \in s..accepted - 1 : i = At(n, m)
    BY <1>s, <2>1 DEF TxRing, n
  <2>3. m # s
    BY <1>3, <2>1, <2>2
  <2> QED
    BY <1>0, <2>2, <2>3
<1>10. /\ accepted' \in Nat /\ s + 1 <= accepted' /\ accepted' <= s + 1 + n
       /\ accepted' = accepted /\ tdt' = At(n, accepted')
  BY <1>0, <1>1, <1>2 DEF TxRing, n
<1> QED
  BY <1>3, <1>5, <1>7, <1>8, <1>9, <1>10, Zenon DEF TxRing, n

LEMMA NextKeepsTxRing ==
  ASSUME TxRing, Next \/ UNCHANGED vars
  PROVE  TxRing'
<1>1. CASE UNCHANGED txvars
  BY <1>1 DEF TxRing, txvars
<1> QED
  BY <1>1, NextTx, SendKeepsTxRing, TransmitKeepsTxRing DEF vars

\* Sequences with the same numbers are the same.
LEMMA SameSeq ==
  ASSUME NEW s \in Seq(Nat), NEW t \in Seq(Nat), Len(s) = Len(t),
         \A k \in 1..Len(s) : s[k] = t[k]
  PROVE  s = t
<1>1. s \in [1..Len(s) -> Nat] /\ t \in [1..Len(s) -> Nat]
  OBVIOUS
<1> QED
  BY <1>1

\* The first numbers and the ones that follow them.
LEMMA NumbersJoin ==
  ASSUME NEW s \in Seq(Nat), NEW t \in Seq(Nat), NEW n \in Nat, Len(t) = n - Len(s),
         \A k \in 1..Len(s) : s[k] = k, \A k \in 1..n - Len(s) : t[k] = Len(s) + k
  PROVE  s \o t = Numbers(n)
<1> DEFINE l == Len(s)
<1>1. l \in Nat /\ Len(t) \in Nat /\ l <= n
  OBVIOUS
<1>2. s \o t \in Seq(Nat) /\ Len(s \o t) = n
  OBVIOUS
<1>3. ASSUME NEW k \in 1..n
      PROVE  (s \o t)[k] = k
  <2>1. CASE k <= l
    BY <2>1
  <2>2. CASE k > l
    <3>1. (s \o t)[k] = t[k - l] /\ k - l \in 1..n - l
      BY <1>1, <2>2
    <3> QED
      BY <1>1, <3>1
  <2>3. k <= l \/ k > l
    BY <1>1
  <2> QED
    BY <2>1, <2>2, <2>3
<1>4. /\ Numbers(n) \in Seq(Nat) /\ Len(Numbers(n)) = n
      /\ \A k \in 1..n : Numbers(n)[k] = k
  BY DEF Numbers
<1> QED
  BY <1>2, <1>3, <1>4, SameSeq

\* What the card has still to send is what send has accepted more, in order.
LEMMA TxRingOrder ==
  ASSUME TxRing
  PROVE  SentInOrder
<1> DEFINE n == TX_RING_SIZE
           s == Len(sent)
           w == accepted - s
           t == [k \in 1..w |-> tx[(tdh + (k - 1)) % n].m]
<1>0. /\ n \in Nat \ {0} /\ s \in Nat /\ accepted \in Nat /\ s <= accepted
      /\ accepted <= s + n /\ tdh = At(n, s) /\ sent \in Seq(Nat)
      /\ \A k \in 1..s : sent[k] = k
  BY NetworkAssumption DEF TxRing
<1>1. ASSUME NEW m \in s..accepted - 1
      PROVE  At(n, m) \in 0..n - 1 /\ ~tx[At(n, m)].dd /\ tx[At(n, m)].m = m + 1
  <2>1. m \in Nat
    BY <1>0
  <2>2. tx[At(n, m)] = [dd |-> FALSE, m |-> m + 1]
    BY DEF TxRing
  <2> QED
    BY <1>0, <2>1, <2>2, AtFacts
<1>2. ASSUME NEW i \in 0..n - 1, ~tx[i].dd
      PROVE  \E m \in s..accepted - 1 : i = At(n, m)
  BY <1>2 DEF TxRing
<1>s. s = Len(sent)
  OBVIOUS
<1>n. n = TX_RING_SIZE
  OBVIOUS
<1> HIDE DEF s, n
<1>3. ASSUME NEW k \in 1..w
      PROVE  /\ s + (k - 1) \in s..accepted - 1
             /\ (tdh + (k - 1)) % n = At(n, s + (k - 1))
  <2>1. k - 1 \in Nat /\ s + (k - 1) \in s..accepted - 1
    BY <1>0
  <2> QED
    BY <1>0, <2>1, ModPlus, Zenon DEF At
<1>4. {i \in DOMAIN tx : ~tx[i].dd} = {(tdh + (k - 1)) % n : k \in 1..w}
  <2>1. ASSUME NEW k \in 1..w
        PROVE  (tdh + (k - 1)) % n \in 0..n - 1 /\ ~tx[(tdh + (k - 1)) % n].dd
    <3>1. PICK m \in s..accepted - 1 : (tdh + (k - 1)) % n = At(n, m)
      BY <1>3
    <3>2. At(n, m) \in 0..n - 1 /\ ~tx[At(n, m)].dd
      BY <1>1, Zenon
    <3> QED
      BY <3>1, <3>2, Zenon
  <2>2. ASSUME NEW i \in 0..n - 1, ~tx[i].dd
        PROVE  \E k \in 1..w : i = (tdh + (k - 1)) % n
    <3>1. PICK m \in s..accepted - 1 : i = At(n, m)
      BY <1>2, <2>2
    <3>2. m - s + 1 \in 1..w /\ s + ((m - s + 1) - 1) = m
      BY <1>0
    <3> QED
      BY <1>3, <3>1, <3>2
  <2>3. DOMAIN tx = 0..n - 1
    BY <1>n DEF TxRing
  <2> HIDE DEF w
  <2> QED
    BY <2>1, <2>2, <2>3
<1>5. ASSUME NEW k \in 1..w
      PROVE  tx[(tdh + (k - 1)) % n].m = s + k
  <2>1. PICK m \in s..accepted - 1 : (tdh + (k - 1)) % n = At(n, m) /\ m + 1 = s + k
    BY <1>0, <1>3
  <2>2. tx[At(n, m)].m = m + 1
    BY <1>1, Zenon
  <2> QED
    BY <2>1, <2>2, Zenon
<1>6. t \in Seq(Nat) /\ Len(t) = accepted - s /\ \A k \in 1..accepted - s : t[k] = s + k
  BY <1>0, <1>5
<1> HIDE DEF t
<1>7. sent \o t = Numbers(accepted)
  BY <1>0, <1>6, <1>s, NumbersJoin, Zenon
<1> QED
  BY <1>4, <1>7, <1>s, <1>n, Zenon DEF SentInOrder, Unsent, t

\* Only recv and the card touch the receive ring.
LEMMA NextRx ==
  ASSUME Next
  PROVE  \/ UNCHANGED rxvars
         \/ CardStores \/ Intr \/ RecvTake
         \/ Deliver \/ RecvNone \/ ReadIcr
<1> USE DEF rxvars, netvars, sockvars
<1>1. CASE SocketCall
  BY <1>1 DEF SocketCall
<1>2. ASSUME NEW p \in Writers, NEW i \in Idx, Write(p, i)
      PROVE  UNCHANGED rxvars
  BY <1>2 DEF Write
<1>3. ASSUME NEW p \in Writers, WriteSend(p)
      PROVE  UNCHANGED rxvars
  BY <1>3 DEF WriteSend
<1>4. CASE Transmit
  BY <1>4 DEF Transmit, CardSends, rxvars
<1>5. CASE Arrive
  BY <1>5 DEF Arrive
<1>6. CASE IntrNext
  BY <1>6 DEF IntrNext
<1>7. CASE RxFind \/ RxPush
  BY <1>7 DEF RxFind, RxPush
<1>8. CASE RxDrop \/ RxWakeup \/ RxRequest \/ RxReply
  BY <1>8 DEF RxDrop, RxWakeup, RxRequest, RxReply, Done
<1> QED
  BY <1>1, <1>2, <1>3, <1>4, <1>5, <1>6, <1>7, <1>8 DEF Next

\* The card stores a packet at the place after the last one, and leaves a
\* descriptor between.
LEMMA ArriveKeepsRxRing ==
  ASSUME RxRing, CardStores
  PROVE  RxRing' /\ Taken' = Taken /\ arrived' = arrived + 1
<1> DEFINE n == RX_RING_SIZE
           t == Taken
<1>0. /\ n \in Nat \ {0} /\ t \in Nat /\ arrived \in Nat /\ t <= arrived
      /\ arrived <= t + n - 1
  BY NetworkAssumption DEF RxRing, Taken
<1>1. /\ arrived' = arrived + 1 /\ rdt' = rdt /\ pc' = pc /\ hand' = hand
      /\ delivered' = delivered /\ rdh # rdt
      /\ rx_ring' = [rx_ring EXCEPT ![rdh] = [dd |-> TRUE, m |-> arrived + 1]]
      /\ rdh' = (rdh + 1) % n
  BY DEF CardStores
<1>2. t' = t
  BY <1>1 DEF Taken
<1>t. t = Taken
  OBVIOUS
<1> HIDE DEF n, t
<1>3. arrived < t + n - 1
  <2>1. arrived # t + n - 1
    BY <1>t, <1>1 DEF RxRing, n
  <2> QED
    BY <1>0, <2>1
<1>4. /\ rdh = At(n, arrived) /\ rdh \in 0..n - 1 /\ rdh' = At(n, arrived')
  BY <1>0, <1>1, AtFacts DEF RxRing, n
<1>5. rx_ring' \in [0..n - 1 -> [dd : BOOLEAN, m : Nat]]
  BY <1>0, <1>1, <1>4 DEF RxRing, n
<1>6. ASSUME NEW m \in t..arrived' - 1
      PROVE  rx_ring'[At(n, m)] = [dd |-> TRUE, m |-> m + 1]
  <2>a. m \in Nat
    BY <1>0, <1>1
  <2>1. m \in Nat /\ At(n, m) \in 0..n - 1
    BY <1>0, <2>a, AtFacts, Zenon
  <2>2. CASE m = arrived
    BY <1>1, <1>4, <1>5, <2>1, <2>2 DEF RxRing, n
  <2>3. CASE m < arrived
    <3>1. At(n, m) # rdh
      BY <1>0, <1>3, <1>4, <2>1, <2>3, AtFacts
    <3>2. m \in t..arrived - 1 /\ rx_ring'[At(n, m)] = rx_ring[At(n, m)]
      BY <1>0, <1>1, <2>1, <2>3, <3>1 DEF RxRing, n
    <3> QED
      BY <1>t, <3>2 DEF RxRing, n
  <2> QED
    BY <1>0, <1>1, <2>1, <2>2, <2>3
<1>7. ASSUME NEW i \in 0..n - 1, rx_ring'[i].dd
      PROVE  \E m \in t..arrived' - 1 : i = At(n, m)
  <2>1. CASE i = rdh
    BY <1>0, <1>1, <1>4, <2>1
  <2>2. CASE i # rdh
    <3>1. rx_ring[i].dd
      BY <1>1, <1>7, <2>2 DEF RxRing, n
    <3>2. PICK m \in t..arrived - 1 : i = At(n, m)
      BY <1>t, <3>1 DEF RxRing, n
    <3> QED
      BY <1>0, <1>1, <3>2
  <2> QED
    BY <2>1, <2>2
<1>8. /\ arrived' \in Nat /\ t <= arrived' /\ arrived' <= t + n - 1
      /\ rdt' = At(n, t + n - 1)
  BY <1>0, <1>t, <1>1, <1>3 DEF RxRing, n
<1>9. /\ pc' \in {"none", "recv", "deliver", "icr"} /\ (pc' = "deliver" => hand' = t)
      /\ delivered' \in Seq(Nat) /\ \A k \in 1..Len(delivered') : delivered'[k] = k
  BY <1>1, <1>t DEF RxRing
<1>10. Taken' = t
  BY <1>2, <1>t DEF t
<1>11. RxRing'
  BY <1>4, <1>5, <1>6, <1>7, <1>8, <1>9, <1>10, Zenon DEF RxRing, n
<1> QED
  BY <1>1, <1>10, <1>11, <1>t

\* recv takes the packet that the card stored first of those it has not taken.
LEMMA RecvTakeKeepsRxRing ==
  ASSUME RxRing, RecvTake
  PROVE  RxRing' /\ Taken' = Taken + 1 /\ Taken < arrived
<1> DEFINE n == RX_RING_SIZE
           t == Taken
<1>0. /\ n \in Nat \ {0} /\ t \in Nat /\ arrived \in Nat /\ t <= arrived
      /\ arrived <= t + n - 1
  BY NetworkAssumption DEF RxRing, Taken
<1>1. /\ arrived' = arrived /\ rdh' = rdh /\ pc = "recv" /\ pc' = "deliver"
      /\ delivered' = delivered
      /\ rx_ring[NextPos].dd /\ hand' = rx_ring[NextPos].m
      /\ rx_ring' = [rx_ring EXCEPT ![NextPos] = [dd |-> FALSE, m |-> 0]]
      /\ rdt' = NextPos
  BY DEF RecvTake, NewRdt
<1>2. t = Len(delivered) /\ Len(delivered) \in Nat /\ Taken' = t + 1 /\ delivered \in Seq(Nat)
  BY <1>1 DEF Taken, RxRing
<1>t. t = Taken
  OBVIOUS
<1> HIDE DEF n, t
<1>3. NextPos = At(n, t) /\ At(n, t) \in 0..n - 1
  <2>1. t + n - 1 \in Nat /\ (t + n - 1) + 1 = t + n
    BY <1>0
  <2>2. rdt = At(n, t + n - 1)
    BY <1>t DEF RxRing, n
  <2>3. (rdt + 1) % n = At(n, t + n)
    BY <1>0, <2>1, <2>2, AtFacts
  <2> QED
    BY <1>0, <2>3, AtFacts, Zenon DEF NextPos, n
<1>4. t < arrived
  <2>1. PICK m \in t..arrived - 1 : At(n, t) = At(n, m)
    BY <1>t, <1>1, <1>3 DEF RxRing, n
  <2> QED
    BY <1>0, <2>1
<1>5. rx_ring[At(n, t)] = [dd |-> TRUE, m |-> t + 1]
  <2>1. t \in t..arrived - 1
    BY <1>0, <1>4
  <2> QED
    BY <1>t, <2>1 DEF RxRing, n
<1>6. hand' = t + 1 /\ rdt' = At(n, (t + 1) + n - 1)
  <2>1. (t + 1) + n - 1 = t + n
    BY <1>0
  <2>2. At(n, t + n) = At(n, t)
    BY <1>0, AtFacts
  <2> QED
    BY <1>1, <1>3, <1>5, <2>1, <2>2
<1>7. rx_ring' \in [0..n - 1 -> [dd : BOOLEAN, m : Nat]]
  BY <1>1, <1>3 DEF RxRing, n
<1>8. ASSUME NEW m \in t + 1 .. arrived - 1
      PROVE  rx_ring'[At(n, m)] = [dd |-> TRUE, m |-> m + 1]
  <2>1. m \in Nat /\ m \in t..arrived - 1
    BY <1>0
  <2>2. At(n, m) \in 0..n - 1
    BY <1>0, <2>1, AtFacts
  <2>3. At(n, m) # At(n, t)
    BY <1>0, <2>1, AtFacts
  <2> QED
    BY <1>t, <1>1, <1>3, <2>1, <2>2, <2>3, Zenon DEF RxRing, n
<1>9. ASSUME NEW i \in 0..n - 1, rx_ring'[i].dd
      PROVE  \E m \in t + 1 .. arrived - 1 : i = At(n, m)
  <2>1. i # At(n, t) /\ rx_ring[i].dd
    BY <1>1, <1>3, <1>9 DEF RxRing, n
  <2>2. PICK m \in t..arrived - 1 : i = At(n, m)
    BY <1>t, <2>1 DEF RxRing, n
  <2>3. m # t
    BY <2>1, <2>2
  <2> QED
    BY <1>0, <2>2, <2>3
<1>10. /\ arrived' \in Nat /\ t + 1 <= arrived' /\ arrived' <= (t + 1) + n - 1
       /\ rdh' = At(n, arrived') /\ arrived' = arrived
  BY <1>0, <1>1, <1>4 DEF RxRing, n
<1>11. /\ pc' \in {"none", "recv", "deliver", "icr"} /\ (pc' = "deliver" => hand' = t + 1)
       /\ delivered' \in Seq(Nat) /\ \A k \in 1..Len(delivered') : delivered'[k] = k
  BY <1>1, <1>6 DEF RxRing
<1>12. RxRing'
  BY <1>2, <1>6, <1>7, <1>8, <1>9, <1>10, <1>11, Zenon DEF RxRing, n
<1> QED
  BY <1>2, <1>4, <1>12, <1>t

\* net::rx returns: the packet in hand is the next one delivered.
LEMMA DeliverKeepsRxRing ==
  ASSUME RxRing, Deliver
  PROVE  RxRing' /\ Taken' = Taken /\ Len(delivered') = Len(delivered) + 1
<1>1. /\ pc = "deliver" /\ pc' = "recv" /\ delivered' = Append(delivered, hand)
      /\ UNCHANGED <<rx_ring, rdh, rdt, arrived>>
  BY DEF Deliver
<1>2. /\ delivered \in Seq(Nat) /\ Len(delivered) \in Nat /\ hand = Len(delivered) + 1
      /\ Taken = Len(delivered) + 1
  BY <1>1 DEF RxRing, Taken
<1>3. /\ delivered' \in Seq(Nat) /\ Len(delivered') = Len(delivered) + 1
      /\ \A k \in 1..Len(delivered') : delivered'[k] = k
  BY <1>1, <1>2 DEF RxRing
<1>4. Taken' = Taken
  BY <1>1, <1>2, <1>3 DEF Taken
<1>5. RxRing'
  BY <1>1, <1>3, <1>4 DEF RxRing
<1> QED
  BY <1>3, <1>4, <1>5

\* The handler's other steps leave the ring alone.
LEMMA HandlerKeepsRxRing ==
  ASSUME RxRing, Intr \/ RecvNone \/ ReadIcr
  PROVE  RxRing' /\ Taken' = Taken
<1>1. /\ pc # "deliver" /\ pc' \in {"none", "recv", "icr"}
      /\ UNCHANGED <<rx_ring, rdh, rdt, arrived, hand, delivered>>
  BY DEF Intr, RecvNone, ReadIcr
<1>2. Taken' = Taken
  BY <1>1 DEF Taken
<1>3. RxRing'
  BY <1>1, <1>2 DEF RxRing
<1> QED
  BY <1>2, <1>3

\* When recv finds no packet there is none.
LEMMA RecvNoneFindsNone ==
  ASSUME RxRing, RecvNone
  PROVE  Taken = arrived
<1> DEFINE n == RX_RING_SIZE
           t == Taken
<1>0. n \in Nat \ {0} /\ t \in Nat /\ arrived \in Nat /\ t <= arrived /\ rdt = At(n, t + n - 1)
  BY NetworkAssumption DEF RxRing, Taken
<1>1. ~rx_ring[NextPos].dd
  BY DEF RecvNone
<1>2. \A m \in t..arrived - 1 : rx_ring[At(n, m)] = [dd |-> TRUE, m |-> m + 1]
  BY Zenon DEF RxRing
<1> HIDE DEF n, t
<1>3. NextPos = At(n, t)
  <2>1. t + n - 1 \in Nat /\ (t + n - 1) + 1 = t + n
    BY <1>0
  <2>2. (rdt + 1) % n = At(n, t + n)
    BY <1>0, <2>1, AtFacts
  <2>3. At(n, t + n) = At(n, t)
    BY <1>0, AtFacts
  <2> QED
    BY <2>2, <2>3 DEF NextPos, n
<1>4. ~(t < arrived)
  <2> SUFFICES ASSUME t < arrived PROVE FALSE
    OBVIOUS
  <2>1. t \in t..arrived - 1
    BY <1>0
  <2>2. rx_ring[At(n, t)] = [dd |-> TRUE, m |-> t + 1]
    BY <1>2, <2>1
  <2> QED
    BY <1>1, <1>3, <2>2
<1> QED
  BY <1>0, <1>4 DEF t

LEMMA NextKeepsRxRing ==
  ASSUME RxRing, Seen, Next \/ UNCHANGED vars
  PROVE  RxRing' /\ Seen'
<1>0. Taken \in Nat /\ arrived \in Nat /\ pc \in {"none", "recv", "deliver", "icr"}
  BY DEF RxRing, Taken
<1>1. CASE UNCHANGED rxvars
  BY <1>1 DEF RxRing, Seen, Taken, rxvars
<1>2. CASE CardStores
  <2>1. RxRing' /\ Taken' = Taken
    BY <1>2, ArriveKeepsRxRing
  <2>2. icr' = TRUE /\ pc' = pc /\ late' = (late \/ pc = "icr")
    BY <1>2 DEF CardStores
  <2> QED
    BY <1>0, <2>1, <2>2, Zenon DEF Seen
<1>3. CASE RecvTake
  <2>1. RxRing'
    BY <1>3, RecvTakeKeepsRxRing
  <2>2. icr' = icr /\ pc' = "deliver" /\ late' = late
    BY <1>3 DEF RecvTake
  <2> QED
    BY <2>1, <2>2 DEF Seen
<1>4. CASE Deliver
  <2>1. RxRing'
    BY <1>4, DeliverKeepsRxRing
  <2>2. icr' = icr /\ pc' = "recv" /\ late' = late
    BY <1>4 DEF Deliver
  <2> QED
    BY <2>1, <2>2 DEF Seen
<1>5. CASE Intr
  <2>1. RxRing'
    BY <1>5, HandlerKeepsRxRing
  <2>2. icr' = icr /\ pc' = "recv" /\ late' = FALSE
    BY <1>5 DEF Intr
  <2> QED
    BY <2>1, <2>2, Zenon DEF Seen
<1>6. CASE RecvNone
  <2>1. RxRing' /\ Taken' = Taken /\ Taken = arrived
    BY <1>6, HandlerKeepsRxRing, RecvNoneFindsNone
  <2>2. icr' = icr /\ arrived' = arrived /\ late' = late
    BY <1>6 DEF RecvNone
  <2> QED
    BY <1>0, <2>1, <2>2 DEF Seen
<1>7. CASE ReadIcr
  <2>1. RxRing' /\ Taken' = Taken
    BY <1>7, HandlerKeepsRxRing
  <2>2. icr' = FALSE /\ pc = "icr" /\ arrived' = arrived /\ late' = late
    BY <1>7 DEF ReadIcr
  <2> QED
    BY <2>1, <2>2, Zenon DEF Seen
<1> QED
  BY <1>1, <1>2, <1>3, <1>4, <1>5, <1>6, <1>7, NextRx DEF vars

\* Seen says of packets what PacketSeen says of descriptors.
LEMMA RxRingSeen ==
  ASSUME RxRing, Seen
  PROVE  PacketSeen
<1> SUFFICES ASSUME NEW i \in DOMAIN rx_ring, rx_ring[i].dd
             PROVE  icr \/ pc # "none" \/ late
  BY DEF PacketSeen
<1>1. PICK m \in Taken..arrived - 1 : i = At(RX_RING_SIZE, m)
  BY DEF RxRing
<1>2. Taken \in Nat /\ arrived \in Nat
  BY DEF RxRing, Taken
<1>3. Taken < arrived
  BY <1>1, <1>2
<1> QED
  BY <1>3 DEF Seen

\* The card's next descriptor is none that recv has still to take.
LEMMA RxRingOwned ==
  ASSUME RxRing
  PROVE  CardOwnsHead
<1> DEFINE n == RX_RING_SIZE
           t == Taken
<1>0. /\ n \in Nat \ {0} /\ t \in Nat /\ arrived \in Nat /\ t <= arrived /\ arrived <= t + n - 1
      /\ rdh = At(n, arrived)
  BY NetworkAssumption DEF RxRing, Taken
<1>1. SUFFICES ASSUME rx_ring[rdh].dd PROVE FALSE
  BY DEF CardOwnsHead
<1>2. rdh \in 0..n - 1
  BY <1>0, AtFacts
<1>3. PICK m \in t..arrived - 1 : rdh = At(n, m)
  BY <1>1, <1>2 DEF RxRing
<1> HIDE DEF t, n
<1>4. m \in Nat /\ m < arrived /\ arrived < m + n
  BY <1>0
<1>5. At(n, m) # At(n, arrived)
  BY <1>0, <1>4, AtFacts
<1> QED
  BY <1>0, <1>3, <1>5

-----------------------------------------------------------------------------
(***************************************************************************)
(* What packets hold.                                                      *)
(***************************************************************************)

\* What arrives adds contents, and net::rx takes those of the packet in hand.
LEMMA NextInn ==
  ASSUME Next
  PROVE  \/ UNCHANGED <<inn, arrived, delivered>> /\ asked' \subseteq asked \union Peers
         \/ Done /\ asked' = asked
         \/ CardStores /\ asked' = asked /\ \E f \in Incoming : inn' = Append(inn, f)
<1> USE DEF rxvars, netvars, sockvars
<1>1. CASE SocketCall
  BY <1>1 DEF SocketCall
<1>2. ASSUME NEW p \in Writers, NEW i \in Idx, Write(p, i)
      PROVE  UNCHANGED <<inn, arrived, delivered, asked>>
  BY <1>2 DEF Write
<1>3. ASSUME NEW p \in Writers, WriteSend(p)
      PROVE  UNCHANGED <<inn, arrived, delivered, asked>>
  BY <1>3 DEF WriteSend
<1>4. CASE Transmit
  BY <1>4 DEF Transmit, CardSends, rxvars
<1>5. CASE Arrive
  BY <1>5 DEF Arrive
<1>6. CASE IntrNext /\ UNCHANGED <<sockvars, netvars>>
  BY <1>6 DEF IntrNext, Intr, RecvTake, RecvNone, ReadIcr
<1>7. CASE RxFind \/ RxPush
  BY <1>7 DEF RxFind, RxPush
<1>8. CASE RxDrop \/ RxWakeup \/ RxRequest \/ RxReply
  BY <1>8 DEF RxDrop, RxWakeup, RxRequest, RxReply
<1> QED
  BY <1>1, <1>2, <1>3, <1>4, <1>5, <1>6, <1>7, <1>8 DEF Next

\* The packet in hand has its contents.
LEMMA FrameInHand ==
  ASSUME RxRing, Contents, pc = "deliver"
  PROVE  hand = Len(delivered) + 1 /\ hand \in 1..arrived /\ Frame \in InFrames
<1>1. hand = Len(delivered) + 1 /\ hand \in 1..arrived /\ hand \in Len(delivered) + 1 .. arrived
  BY DEF RxRing, Taken
<1> QED
  BY <1>1 DEF Contents, Frame

LEMMA NextKeepsContents ==
  ASSUME RxRing, Contents, Next \/ UNCHANGED vars
  PROVE  Contents'
<1>0. Len(delivered) \in Nat /\ arrived \in Nat /\ Len(delivered) <= arrived
  BY DEF RxRing, Taken
<1>1. CASE UNCHANGED <<inn, arrived, delivered>> /\ asked' \subseteq asked \union Peers
  BY <1>1 DEF Contents
<1>2. CASE Done /\ asked' = asked
  <2>1. Len(delivered') = Len(delivered) + 1
    BY <1>2, DeliverKeepsRxRing DEF Done
  <2>2. pc = "deliver" /\ inn' = [inn EXCEPT ![hand] = None] /\ arrived' = arrived
    BY <1>2 DEF Done, Deliver
  <2>3. hand = Len(delivered) + 1 /\ hand \in 1..arrived
    BY <2>2, FrameInHand
  <2>4. inn' \in Seq(InFrames \union {None}) /\ Len(inn') = arrived
    BY <2>2, <2>3 DEF Contents
  <2>5. \A k \in (Len(delivered) + 1) + 1 .. arrived : inn'[k] \in InFrames
    BY <1>0, <2>2, <2>3 DEF Contents
  <2> QED
    BY <1>2, <2>1, <2>2, <2>4, <2>5 DEF Contents
<1>3. CASE CardStores /\ asked' = asked /\ \E f \in Incoming : inn' = Append(inn, f)
  <2>1. PICK f \in Incoming : inn' = Append(inn, f)
    BY <1>3
  <2>2. f \in InFrames
    BY DEF Incoming, InFrames, Contents
  <2>3. arrived' = arrived + 1 /\ delivered' = delivered
    BY <1>3 DEF CardStores
  <2>4. inn \in Seq(InFrames \union {None}) /\ Len(inn) = arrived
    BY DEF Contents
  <2>5. inn' \in Seq(InFrames \union {None}) /\ Len(inn') = arrived + 1
    BY <1>0, <2>1, <2>2, <2>4
  <2>6. ASSUME NEW k \in Len(delivered) + 1 .. arrived + 1
        PROVE  inn'[k] \in InFrames
    <3>1. CASE k = arrived + 1
      BY <1>0, <2>1, <2>2, <2>4, <3>1
    <3>2. CASE k \in Len(delivered) + 1 .. arrived
      <4>1. inn'[k] = inn[k]
        BY <1>0, <2>1, <2>4, <3>2
      <4> QED
        BY <3>2, <4>1 DEF Contents
    <3> QED
      BY <1>0, <3>1, <3>2
  <2> QED
    BY <1>3, <2>3, <2>5, <2>6 DEF Contents
<1>4. CASE UNCHANGED vars
  BY <1>4 DEF vars, rxvars, netvars, Contents
<1> QED
  BY <1>1, <1>2, <1>3, <1>4, NextInn

-----------------------------------------------------------------------------
(***************************************************************************)
(* The invariant, and the theorems.                                        *)
(***************************************************************************)

\* A new machine: both rings are empty.
LEMMA InitCardInv == Init => CardInv
<1> SUFFICES ASSUME Init PROVE CardInv
  OBVIOUS
<1> USE NetworkAssumption DEF Init, InitRings, InitSockets
<1>0. /\ At(TX_RING_SIZE, 0) = 0 /\ At(RX_RING_SIZE, 0) = 0
      /\ At(RX_RING_SIZE, RX_RING_SIZE - 1) = RX_RING_SIZE - 1
  <2>1. TX_RING_SIZE \in Nat \ {0} /\ 0 \in 0..TX_RING_SIZE - 1
    OBVIOUS
  <2>2. /\ RX_RING_SIZE \in Nat \ {0} /\ 0 \in 0..RX_RING_SIZE - 1
        /\ RX_RING_SIZE - 1 \in 0..RX_RING_SIZE - 1
    OBVIOUS
  <2> QED
    BY <2>1, <2>2, ModSmall, Zenon DEF At
<1>1. TxRing
  <2>1. /\ tx \in [0..TX_RING_SIZE - 1 -> [dd : BOOLEAN, m : Nat]]
        /\ \A i \in 0..TX_RING_SIZE - 1 : tx[i].dd
    OBVIOUS
  <2>2. sent \in Seq(Nat) /\ Len(sent) = 0
    OBVIOUS
  <2> QED
    BY <1>0, <2>1, <2>2 DEF TxRing
<1>2. Taken = 0 /\ Len(delivered) = 0 /\ delivered \in Seq(Nat)
  BY DEF Taken
<1>3. RxRing
  <2>1. /\ rx_ring \in [0..RX_RING_SIZE - 1 -> [dd : BOOLEAN, m : Nat]]
        /\ \A i \in 0..RX_RING_SIZE - 1 : ~rx_ring[i].dd
    OBVIOUS
  <2> QED
    BY <1>0, <1>2, <2>1 DEF RxRing
<1>4. Seen
  <2>1. arrived = 0 /\ icr = FALSE /\ late = FALSE
    OBVIOUS
  <2>2. ~(Taken < arrived)
    BY <1>2, <2>1
  <2> QED
    BY <2>1, <2>2, Zenon DEF Seen
<1>5. Contents
  BY <1>2 DEF Contents
<1> QED
  BY <1>1, <1>3, <1>4, <1>5 DEF CardInv

LEMMA NextCardInv == CardInv /\ [Next]_vars => CardInv'
<1> SUFFICES ASSUME CardInv, [Next]_vars PROVE CardInv'
  OBVIOUS
<1> QED
  BY NextKeepsTxRing, NextKeepsRxRing, NextKeepsContents DEF CardInv

LEMMA CardInvInvariant == Spec => []CardInv
BY InitCardInv, NextCardInv, PTL DEF Spec

\* The packets that recv has delivered and those that it has still to deliver.
LEMMA RxRingOrder ==
  ASSUME RxRing
  PROVE  DeliveredInOrder
<1> DEFINE n == RX_RING_SIZE
           s == Taken
           w == arrived - s
           h == IF pc = "deliver" THEN <<hand>> ELSE <<>>
           t == [k \in 1..w |-> rx_ring[(rdt + k) % n].m]
<1>0. /\ n \in Nat \ {0} /\ s \in Nat /\ arrived \in Nat /\ s <= arrived
      /\ rdt = At(n, s + n - 1) /\ s + n - 1 \in Nat
  BY NetworkAssumption DEF RxRing, Taken
<1>1. ASSUME NEW m \in s..arrived - 1
      PROVE  At(n, m) \in 0..n - 1 /\ rx_ring[At(n, m)].dd /\ rx_ring[At(n, m)].m = m + 1
  <2>1. m \in Nat
    BY <1>0
  <2>2. rx_ring[At(n, m)] = [dd |-> TRUE, m |-> m + 1]
    BY DEF RxRing
  <2>3. At(n, m) \in 0..n - 1
    BY <1>0, <2>1, AtFacts, Zenon
  <2> QED
    BY <2>2, <2>3
<1>d. /\ DOMAIN rx_ring = 0..n - 1
      /\ \A i \in 0..n - 1 : rx_ring[i].dd => \E m \in s..arrived - 1 : i = At(n, m)
  BY DEF RxRing
<1>2. ASSUME NEW k \in 1..w
      PROVE  /\ s + (k - 1) \in s..arrived - 1
             /\ (rdt + k) % n = At(n, s + (k - 1))
  <2>1. k \in Nat /\ k - 1 \in Nat /\ s + (k - 1) \in s..arrived - 1
    <3> HIDE DEF s
    <3> QED
      BY <1>0
  <2> HIDE DEF s, n, w
  <2>3. (rdt + k) % n = At(n, (s + n - 1) + k)
    BY <1>0, <2>1, ModPlus, Zenon DEF At
  <2>4. (s + n - 1) + k = (s + (k - 1)) + n /\ s + (k - 1) \in Nat
    BY <1>0, <2>1
  <2>5. At(n, (s + (k - 1)) + n) = At(n, s + (k - 1))
    BY <1>0, <2>4, AtFacts
  <2> QED
    BY <2>1, <2>3, <2>4, <2>5
<1>e. {i \in DOMAIN rx_ring : rx_ring[i].dd} = {(rdt + k) % n : k \in 1..w}
  <2> HIDE DEF s, n
  <2>1. ASSUME NEW k \in 1..w
        PROVE  (rdt + k) % n \in 0..n - 1 /\ rx_ring[(rdt + k) % n].dd
    <3>1. PICK m \in s..arrived - 1 : (rdt + k) % n = At(n, m)
      BY <1>2
    <3>2. At(n, m) \in 0..n - 1 /\ rx_ring[At(n, m)].dd
      BY <1>1, Zenon
    <3> QED
      BY <3>1, <3>2, Zenon
  <2>2. ASSUME NEW i \in 0..n - 1, rx_ring[i].dd
        PROVE  \E k \in 1..w : i = (rdt + k) % n
    <3>1. PICK m \in s..arrived - 1 : i = At(n, m)
      BY <1>d, <2>2
    <3>2. m - s + 1 \in 1..w /\ s + ((m - s + 1) - 1) = m
      BY <1>0
    <3> QED
      BY <1>2, <3>1, <3>2
  <2> QED
    BY <1>d, <2>1, <2>2
<1>f. ASSUME NEW k \in 1..w
      PROVE  rx_ring[(rdt + k) % n].m = s + k
  <2> HIDE DEF s, n
  <2>1. PICK m \in s..arrived - 1 : (rdt + k) % n = At(n, m) /\ m + 1 = s + k
    BY <1>0, <1>2
  <2>2. rx_ring[At(n, m)].m = m + 1
    BY <1>1, Zenon
  <2> QED
    BY <2>1, <2>2, Zenon
<1>3. t \in Seq(Nat) /\ Len(t) = arrived - s /\ \A k \in 1..arrived - s : t[k] = s + k
  <2> HIDE DEF s, n
  <2> QED
    BY <1>0, <1>f
<1>4. /\ delivered \o h \in Seq(Nat) /\ Len(delivered \o h) = s
      /\ \A k \in 1..s : (delivered \o h)[k] = k
  <2>1. CASE pc = "deliver"
    <3>1. /\ h = <<hand>> /\ hand = s /\ s = Len(delivered) + 1
          /\ delivered \in Seq(Nat) /\ \A k \in 1..Len(delivered) : delivered[k] = k
      BY <2>1 DEF RxRing, Taken
    <3> HIDE DEF s
    <3>2. h \in Seq(Nat) /\ Len(h) = 1 /\ h[1] = s
      BY <1>0, <3>1
    <3> HIDE DEF h
    <3>3. ASSUME NEW k \in 1..s
          PROVE  (delivered \o h)[k] = k
      <4>1. CASE k = s
        BY <3>1, <3>2, <4>1
      <4>2. CASE k # s
        BY <3>1, <3>2, <4>2
      <4> QED
        BY <4>1, <4>2, Zenon
    <3> QED
      BY <3>1, <3>2, <3>3
  <2>2. CASE pc # "deliver"
    <3>1. /\ h = <<>> /\ s = Len(delivered)
          /\ delivered \in Seq(Nat) /\ \A k \in 1..Len(delivered) : delivered[k] = k
      BY <2>2 DEF RxRing, Taken
    <3>2. delivered \o h = delivered
      BY <3>1
    <3> QED
      BY <3>1, <3>2
  <2> QED
    BY <2>1, <2>2
<1>g. w = Unread
  BY DEF RxRing, Unread, Taken
<1> HIDE DEF s, t, h
<1>5. (delivered \o h) \o t = Numbers(arrived)
  BY <1>0, <1>3, <1>4, NumbersJoin, Zenon
<1> QED
  <2> HIDE DEF w
  <2> QED
    BY <1>5, <1>e, <1>g, Zenon DEF DeliveredInOrder, h, t, n

\* Every packet that send accepted is on the wire or in the ring, in order and
\* once, whoever sends (e1000.rs's send, from processes and from the interrupt).
THEOREM NetworkSentInOrder == Spec => []SentInOrder
<1>1. CardInv => SentInOrder
  BY TxRingOrder DEF CardInv
<1> QED
  BY <1>1, CardInvInvariant, PTL

\* Every packet that the card stored is delivered, in hand or in the ring, in
\* order and once, although the card goes on while recv works.
THEOREM NetworkDeliveredInOrder == Spec => []DeliveredInOrder
<1>1. CardInv => DeliveredInOrder
  BY RxRingOrder DEF CardInv
<1> QED
  BY <1>1, CardInvInvariant, PTL

\* The card never writes to a descriptor that recv has still to read.
THEOREM NetworkCardOwnsHead == Spec => []CardOwnsHead
<1>1. CardInv => CardOwnsHead
  BY RxRingOwned DEF CardInv
<1> QED
  BY <1>1, CardInvInvariant, PTL

\* A packet in the ring has its interrupt to come or a handler that will see
\* it, unless it came between recv's last look and the reading of ICR.
THEOREM NetworkPacketSeen == Spec => []PacketSeen
<1>1. CardInv => PacketSeen
  BY RxRingSeen DEF CardInv
<1> QED
  BY <1>1, CardInvInvariant, PTL
=============================================================================
