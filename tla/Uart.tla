-------------------------------- MODULE Uart --------------------------------
(***************************************************************************)
(* Output to the serial line (uart.rs): putc through the ring buffer, with *)
(* the interrupt that empties it, and putc_sync beside it.  What happens   *)
(* under UART_TX's lock is one step.  A byte is the pair of its writer and *)
(* its number.                                                             *)
(***************************************************************************)
EXTENDS Naturals, Sequences, SequencesExt, FiniteSets

CONSTANTS
  Procs,             \* processes in console::write
  Cpus,              \* CPUs that may be in putc_sync (printf and echo)
  UART_TX_BUF_SIZE,
  FIFO,              \* bytes that the device's transmitter holds
  MaxBytes,          \* bound: bytes written by each process
  MaxSync            \* bound: bytes written by each CPU in putc_sync

VARIABLES
  r, w, buf,   \* UartTx
  chan,        \* the channel that a process sleeps on, or Awake
  done,        \* bytes accepted from each process or CPU
  fifo,        \* device: bytes in the transmitter
  irq,         \* device: the "transmitter empty" interrupt is pending
  ready,       \* CPUs in putc_sync that have seen the transmitter empty
  sent         \* device: what has gone out on the line

vars == <<r, w, buf, chan, done, fifo, irq, ready, sent>>

Awake == MaxBytes * (Cardinality(Procs) + 1)    \* no channel: r is smaller

Init ==
  /\ r = 0 /\ w = 0
  /\ buf = [i \in 0..UART_TX_BUF_SIZE - 1 |-> <<0, 0>>]
  /\ chan = [p \in Procs |-> Awake]
  /\ done = [p \in Procs \union Cpus |-> 0]
  /\ fifo = <<>> /\ irq = FALSE /\ ready = {} /\ sent = <<>>

-----------------------------------------------------------------------------
\* The device: LSR's bit 5.
Empty == fifo = <<>>

\* start() goes on.
CanSend(w1) == w1 # r /\ Empty

ByteToSend(b) == b[r % UART_TX_BUF_SIZE]

\* start() wakes who sleeps on the new value of r.
Wakeup(c) == [p \in Procs |-> IF c[p] = r + 1 THEN Awake ELSE c[p]]

\* start(), given the buffer.  The byte that it sends makes LSR's bit 5 zero,
\* so it sends one; when the transmitter is empty again there is an interrupt.
Start(w1, b) ==
  IF CanSend(w1)
  THEN /\ r' = r + 1
       /\ chan' = Wakeup(chan)
       /\ fifo' = Append(fifo, ByteToSend(b))
  ELSE UNCHANGED <<r, chan, fifo>>

Full == w = r + UART_TX_BUF_SIZE

\* putc finds the buffer full and sleeps on the value of r.
PutcSleep(p) ==
  /\ chan[p] = Awake /\ done[p] < MaxBytes
  /\ Full
  /\ chan' = [chan EXCEPT ![p] = r]
  /\ UNCHANGED <<r, w, buf, done, fifo, irq, ready, sent>>

Putc(p) ==
  /\ chan[p] = Awake /\ done[p] < MaxBytes
  /\ ~Full
  /\ buf' = [buf EXCEPT ![w % UART_TX_BUF_SIZE] = <<p, done[p]>>]
  /\ w' = w + 1
  /\ done' = [done EXCEPT ![p] = @ + 1]
  /\ Start(w', buf')
  /\ UNCHANGED <<irq, ready, sent>>

\* intr, for a transmitter that has become empty.
Intr ==
  /\ irq
  /\ irq' = FALSE
  /\ Start(w, buf)
  /\ UNCHANGED <<w, buf, done, ready, sent>>

\* putc_sync takes no lock: it looks at LSR until the transmitter is empty and
\* then writes, and another CPU or start() may write in between.
SyncSees(c) ==
  /\ c \notin ready /\ done[c] < MaxSync
  /\ Empty
  /\ ready' = ready \union {c}
  /\ UNCHANGED <<r, w, buf, chan, done, fifo, irq, sent>>

SyncWrites(c) ==
  /\ c \in ready
  /\ ready' = ready \ {c}
  /\ fifo' = Append(fifo, <<c, done[c]>>)
  /\ done' = [done EXCEPT ![c] = @ + 1]
  /\ UNCHANGED <<r, w, buf, chan, irq, sent>>

\* The device sends a byte; its interrupt reports that the last has gone.
Transmit ==
  /\ ~Empty
  /\ sent' = Append(sent, Head(fifo))
  /\ fifo' = Tail(fifo)
  /\ irq' = (irq \/ Len(fifo) = 1)
  /\ UNCHANGED <<r, w, buf, chan, done, ready>>

Next ==
  \/ \E p \in Procs : PutcSleep(p) \/ Putc(p)
  \/ Intr
  \/ \E c \in Cpus : SyncSees(c) \/ SyncWrites(c)
  \/ Transmit

Spec == Init /\ [][Next]_vars

\* The device sends and its interrupts are taken; a CPU and a process that can
\* go on do so.
LiveSpec ==
  /\ Spec /\ WF_vars(Transmit) /\ WF_vars(Intr)
  /\ \A c \in Cpus : WF_vars(SyncWrites(c))
  /\ \A p \in Procs : WF_vars(PutcSleep(p) \/ Putc(p))

-----------------------------------------------------------------------------
(***************************************************************************)
(* Properties.                                                             *)
(***************************************************************************)

\* Types, with the bound of the ring.
TypeOK ==
  /\ r \in Nat /\ w \in r..r + UART_TX_BUF_SIZE
  /\ chan \in [Procs -> 0..Awake]
  /\ done \in [Procs \union Cpus -> 0..MaxBytes + MaxSync]
  /\ irq \in BOOLEAN /\ ready \subseteq Cpus

Buffered == [i \in 1..w - r |-> buf[(r + i - 1) % UART_TX_BUF_SIZE]]

\* What has been accepted and not yet forgotten, in the order of the line.
Stream == sent \o fifo \o Buffered

\* Every byte that putc has accepted is in the buffer, in the transmitter or
\* out, once, and those of one writer are in the order of its write.
BytesKept ==
  \A p \in Procs \union Cpus :
    SelectSeq(Stream, LAMBDA x : x[1] = p) = [i \in 1..done[p] |-> <<p, i - 1>>]

\* putc_sync may write to a transmitter that is no longer empty, but never to
\* one that is full.
NoOverrun == Len(fifo) <= FIFO

\* The buffer does not wait for nothing: while it holds a byte, one is on its
\* way whose interrupt will fetch it, or the interrupt is pending.
SomeoneSends == w # r => ~Empty \/ irq

\* Every accepted byte goes out.
BufferDrains == w # r ~> w = r

\* A process that "wait[s] for start() to open up space in the buffer"
\* (uart.rs:111) goes on when there is space.
WriterGetsOn == \A p \in Procs : chan[p] # Awake ~> chan[p] = Awake
=============================================================================
