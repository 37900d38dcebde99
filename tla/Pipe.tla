-------------------------------- MODULE Pipe --------------------------------
(***************************************************************************)
(* Pipes (file.rs): FilePipe's ring buffer, File::write, File::read and    *)
(* the Drop of the two ends.  A process holds the pipe's spinlock from the *)
(* start of a call to its end, but for its sleeps: what it does between is *)
(* one step.  The n-th byte written to the pipe is the number n.  What a   *)
(* call returns is left out.                                               *)
(***************************************************************************)
EXTENDS Integers, Sequences, FiniteSets, FiniteSetsExt

CONSTANTS
  Procs,
  PIPE_SIZE,
  MaxN,      \* bound: bytes of one call
  MaxBytes   \* bound: bytes written in all

ASSUME PipeAssumption ==
  /\ PIPE_SIZE \in Nat \ {0} /\ MaxN \in Nat /\ MaxBytes \in Nat

VARIABLES
  data,        \* FilePipe.data
  n_read,      \* FilePipe.n_read
  n_write,     \* FilePipe.n_write
  read_open,   \* FilePipe.read_open
  write_open,  \* FilePipe.write_open
  ends,        \* which ends a process has open: who holds the Arc<File>s
  pc,          \* "idle", or in a call: "read", "write"; asleep: "rsleep", "wsleep"
  left,        \* bytes that the call has still to move
  got,         \* the bytes delivered to readers, in order
  lost         \* the bytes taken from the ring and not delivered

vars == <<data, n_read, n_write, read_open, write_open, ends, pc, left, got, lost>>
ring == <<data, n_read, n_write>>

\* The process that called sys_pipe has both ends.
Init ==
  /\ data = [i \in 0..PIPE_SIZE - 1 |-> 0]
  /\ n_read = 0 /\ n_write = 0
  /\ read_open = TRUE /\ write_open = TRUE
  /\ \E p \in Procs : ends = [q \in Procs |-> IF q = p THEN {"r", "w"} ELSE {}]
  /\ pc = [p \in Procs |-> "idle"]
  /\ left = [p \in Procs |-> 0]
  /\ got = <<>> /\ lost = {}

\* Mutant: a wakeup that reaches nobody.
WakeNobody(f) == f

\* PROCESS_TABLE.wakeup on the address of n_read, on that of n_write.
WakeReaders(f) == [q \in Procs |-> IF f[q] = "rsleep" THEN "read" ELSE f[q]]
WakeWriters(f) == [q \in Procs |-> IF f[q] = "wsleep" THEN "write" ELSE f[q]]

Start(p, what, n) ==
  /\ pc[p] = "idle"
  /\ pc' = [pc EXCEPT ![p] = what]
  /\ left' = [left EXCEPT ![p] = n]
  /\ UNCHANGED <<ring, read_open, write_open, ends, got, lost>>

\* Bytes that calls in progress have still to write.
Pending == MapThenSumSet(LAMBDA q : left[q], {q \in Procs : pc[q] \in {"write", "wsleep"}})

Call(p) ==
  \/ "r" \in ends[p] /\ \E n \in 0..MaxN : Start(p, "read", n)
  \/ /\ "w" \in ends[p]
     /\ \E n \in 0..MaxN : n_write + Pending + n <= MaxBytes /\ Start(p, "write", n)

\* The call of p returns.
Done(p) == left' = [left EXCEPT ![p] = 0]

-----------------------------------------------------------------------------
(***************************************************************************)
(* File::write.                                                            *)
(***************************************************************************)

Space == n_read + PIPE_SIZE - n_write

\* k bytes enter the ring, each at the index its number has.
Put(k) ==
  /\ data' = [i \in 0..PIPE_SIZE - 1 |->
       LET new == {m \in n_write + 1 .. n_write + k : m % PIPE_SIZE = i}
       IN IF new = {} THEN data[i] ELSE Max(new)]
  /\ n_write' = n_write + k

\* The wakeup of readers when the ring is full, and at the end of the call.
WakeOnFull(f) == WakeReaders(f)
WakeAtEnd(f) == WakeReaders(f)

\* From the lock, or a wakeup, to the end of the call or the next sleep.  The
\* user's page may be missing: copy_in fails and the call stops short.
Write(p) ==
  /\ pc[p] = "write"
  /\ \/ /\ ~read_open /\ left[p] > 0
        /\ pc' = [pc EXCEPT ![p] = "idle"]
        /\ Done(p)
        /\ UNCHANGED ring
     \/ /\ read_open \/ left[p] = 0
        /\ \E k \in 0..Min({Space, left[p]}) :
             LET full == k = Space /\ k < left[p]
             IN /\ Put(k)
                /\ IF full
                     THEN /\ pc' = WakeOnFull([pc EXCEPT ![p] = "wsleep"])
                          /\ left' = [left EXCEPT ![p] = @ - k]
                     ELSE /\ pc' = WakeAtEnd([pc EXCEPT ![p] = "idle"])
                          /\ Done(p)
        /\ UNCHANGED n_read
  /\ UNCHANGED <<read_open, write_open, ends, got, lost>>

-----------------------------------------------------------------------------
(***************************************************************************)
(* File::read.                                                             *)
(***************************************************************************)

\* Mutant: a reader of an empty pipe sleeps though no writer is left.
ReadWaitsAlways == n_read = n_write
ReadWaits == n_read = n_write /\ write_open

\* Mutant: the index before it is advanced.
SlotBefore(k) == data[(n_read + k - 1) % PIPE_SIZE]
Slot(k) == data[(n_read + k) % PIPE_SIZE]

\* k bytes reach the user.  If a page of the user's is missing, copy_out fails
\* after n_read has moved on, and one more byte has left the ring.
Take(k, fault) ==
  /\ n_read' = n_read + k + IF fault THEN 1 ELSE 0
  /\ got' = got \o [i \in 1..k |-> Slot(i)]
  /\ lost' = lost \union IF fault THEN {Slot(k + 1)} ELSE {}

Read(p) ==
  /\ pc[p] = "read"
  /\ IF ReadWaits
       THEN /\ pc' = [pc EXCEPT ![p] = "rsleep"]
            /\ UNCHANGED <<ring, left, got, lost>>
       ELSE /\ LET m == Min({n_write - n_read, left[p]})
               IN \E k \in 0..m : Take(k, k < m)
            /\ pc' = WakeWriters([pc EXCEPT ![p] = "idle"])
            /\ Done(p)
            /\ UNCHANGED <<data, n_write>>
  /\ UNCHANGED <<read_open, write_open, ends>>

-----------------------------------------------------------------------------
(***************************************************************************)
(* close: the last holder of an end drops its File.                        *)
(***************************************************************************)
Holders(e, f) == {q \in Procs : e \in f[q]}

Last(e, f) == Holders(e, f) = {}

Close(p, e) ==
  /\ pc[p] = "idle" /\ e \in ends[p]
  /\ ends' = [ends EXCEPT ![p] = @ \ {e}]
  /\ IF ~Last(e, ends') THEN UNCHANGED <<read_open, write_open, pc>>
     ELSE IF e = "w"
     THEN write_open' = FALSE /\ pc' = WakeReaders(pc) /\ UNCHANGED read_open
     ELSE read_open' = FALSE /\ pc' = WakeWriters(pc) /\ UNCHANGED write_open
  /\ UNCHANGED <<ring, left, got, lost>>

\* fork hands both ends on.
Fork(p, q) ==
  /\ p # q /\ pc[p] = "idle" /\ pc[q] = "idle" /\ ends[q] = {} /\ ends[p] # {}
  /\ ends' = [ends EXCEPT ![q] = ends[p]]
  /\ UNCHANGED <<ring, read_open, write_open, pc, left, got, lost>>

Next ==
  \E p \in Procs :
    \/ Call(p) \/ Write(p) \/ Read(p)
    \/ \E e \in {"r", "w"} : Close(p, e)
    \/ \E q \in Procs : Fork(p, q)

\* A process that is not asleep runs on.
Fairness == \A p \in Procs : WF_vars(Write(p)) /\ WF_vars(Read(p))

Spec == Init /\ [][Next]_vars
LiveSpec == Spec /\ Fairness

-----------------------------------------------------------------------------
(***************************************************************************)
(* Properties.                                                             *)
(***************************************************************************)

\* Types of FilePipe, and the two counters never more than PIPE_SIZE apart.
TypeOK ==
  /\ data \in [0..PIPE_SIZE - 1 -> 0..MaxBytes]
  /\ n_write \in 0..MaxBytes /\ n_read \in 0..n_write /\ n_write <= n_read + PIPE_SIZE
  /\ read_open \in BOOLEAN /\ write_open \in BOOLEAN
  /\ ends \in [Procs -> SUBSET {"r", "w"}]
  /\ pc \in [Procs -> {"idle", "read", "write", "rsleep", "wsleep"}]
  /\ left \in [Procs -> 0..MaxN]

\* Readers together get the bytes in the order they were written, each once,
\* and all of them but those whose copy_out failed: the ring never overwrites
\* a byte before it is read nor returns one twice.
InOrder ==
  /\ \A i, j \in 1..Len(got) : i < j => got[i] < got[j]
  /\ {got[i] : i \in 1..Len(got)} \union lost = 1..n_read

\* A reader sleeps only while the pipe is empty and has a writer; a writer
\* only while it is full and has a reader: no wakeup is lost.
SleepersMustWait ==
  \A p \in Procs :
    /\ pc[p] = "rsleep" => n_read = n_write /\ write_open
    /\ pc[p] = "wsleep" => n_write = n_read + PIPE_SIZE /\ read_open

\* A pipe is open at an end exactly while some process holds it.
OpenIsHeld ==
  /\ write_open <=> Holders("w", ends) # {}
  /\ read_open <=> Holders("r", ends) # {}

\* Once the write end is closed by all, every read comes to an end; once the
\* read end is, every write does.
ClosedPipeFrees ==
  /\ \A p \in Procs : ~write_open ~> pc[p] \notin {"read", "rsleep"}
  /\ \A p \in Procs : ~read_open ~> pc[p] \notin {"write", "wsleep"}
=============================================================================
