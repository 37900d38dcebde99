------------------------------ MODULE Console -------------------------------
(***************************************************************************)
(* Input from the console (console.rs): intr edits the line being typed,   *)
(* read waits for a line.  The lock of CONSOLE is held through a read but  *)
(* for its sleeps, so a read is the steps between them.                    *)
(***************************************************************************)
EXTENDS Naturals, Sequences, SequencesExt, FiniteSets

CONSTANTS
  Procs,       \* processes that read
  Chars,       \* characters typed, with the four below
  NUL, BS, NL, CTRL_D,
  INPUT_BUF,
  MaxN,        \* bound: the n of a read
  MaxTyped,    \* bound: characters stored
  NoProc       \* nobody

VARIABLES
  buf, r, w, e,   \* Console
  lock,           \* who holds CONSOLE's lock between steps
  pc,             \* "idle" | "take" (needs the lock) | "read" | "sleep"
  call,           \* the read's locals and its caller's memory
  line,           \* what is typed, as edited: the characters given to readers
  taken           \* and those that readers have consumed

vars == <<buf, r, w, e, lock, pc, call, line, taken>>

NoCall == [target |-> 0, n |-> 0, dst |-> <<>>, given |-> <<>>, eof |-> FALSE]

Init ==
  /\ buf = [i \in 0..INPUT_BUF - 1 |-> NUL]
  /\ r = 0 /\ w = 0 /\ e = 0
  /\ lock = NoProc
  /\ pc = [p \in Procs |-> "idle"]
  /\ call = [p \in Procs |-> NoCall]
  /\ line = <<>> /\ taken = <<>>

-----------------------------------------------------------------------------
(***************************************************************************)
(* intr, for each character that uart's intr passes.                       *)
(***************************************************************************)

Erasable == e # w

Backspace ==
  /\ lock = NoProc
  /\ e' = IF Erasable THEN e - 1 ELSE e
  /\ UNCHANGED <<buf, r, w, lock, pc, call, line, taken>>

Room == e - r < INPUT_BUF

LineEnds(c, e1) == c \in {NL, CTRL_D} \/ e1 = r + INPUT_BUF

\* The characters after w, in the buffer b.
Pending(b, from, to) == [i \in 1..to - from |-> b[(from + i) % INPUT_BUF]]

\* wakeup(&cons.r).
Wakeup == [p \in Procs |-> IF pc[p] = "sleep" THEN "take" ELSE pc[p]]

IntrStore(c) ==
  /\ lock = NoProc
  /\ c \notin {NUL, BS} /\ Room /\ e < MaxTyped
  /\ e' = e + 1
  /\ buf' = [buf EXCEPT ![e' % INPUT_BUF] = c]
  /\ IF LineEnds(c, e')
     THEN /\ w' = e'
          /\ line' = line \o Pending(buf', w, e')
          /\ pc' = Wakeup
     ELSE UNCHANGED <<w, line, pc>>
  /\ UNCHANGED <<r, lock, call, taken>>

-----------------------------------------------------------------------------
(***************************************************************************)
(* read.                                                                   *)
(***************************************************************************)
Read(p, n) ==
  /\ pc[p] = "idle"
  /\ pc' = [pc EXCEPT ![p] = "take"]
  /\ call' = [call EXCEPT ![p] = [NoCall EXCEPT !.target = n, !.n = n]]
  /\ UNCHANGED <<buf, r, w, e, lock, line, taken>>

\* The lock is taken at the start, and again after a sleep.
Take(p) ==
  /\ pc[p] = "take" /\ lock = NoProc
  /\ lock' = p
  /\ pc' = [pc EXCEPT ![p] = "read"]
  /\ UNCHANGED <<buf, r, w, e, call, line, taken>>

Sleep(p) ==
  /\ pc[p] = "read" /\ r = w
  /\ pc' = [pc EXCEPT ![p] = "sleep"]
  /\ lock' = NoProc
  /\ UNCHANGED <<buf, r, w, e, call, line, taken>>

Leave(p) == pc' = [pc EXCEPT ![p] = "idle"] /\ lock' = NoProc

\* A character is taken: ^D ends the read and is not kept for the next; every
\* other is put at dst, which stays where it is.
ReadChar(p) ==
  LET c == buf[(r + 1) % INPUT_BUF]
  IN /\ pc[p] = "read" /\ r # w
     /\ r' = r + 1
     /\ taken' = Append(taken, c)
     /\ IF c = CTRL_D
        THEN call' = [call EXCEPT ![p].eof = TRUE] /\ Leave(p)
        ELSE /\ call' = [call EXCEPT ![p].n = @ - 1, ![p].dst = <<c>>, ![p].given = Append(@, c)]
             /\ IF c = NL \/ call[p].n = 1 THEN Leave(p) ELSE UNCHANGED <<pc, lock>>
     /\ UNCHANGED <<buf, w, e, line>>

Next ==
  \/ Backspace
  \/ \E c \in Chars : IntrStore(c)
  \/ \E p \in Procs :
       \/ \E n \in 1..MaxN : Read(p, n)
       \/ Take(p) \/ Sleep(p) \/ ReadChar(p)

Spec == Init /\ [][Next]_vars

-----------------------------------------------------------------------------
(***************************************************************************)
(* Properties.                                                             *)
(***************************************************************************)

\* Types, with the order of the three indices.
TypeOK ==
  /\ buf \in [0..INPUT_BUF - 1 -> Chars]
  /\ r \in Nat /\ w \in r..r + INPUT_BUF /\ e \in w..r + INPUT_BUF
  /\ lock \in Procs \union {NoProc}
  /\ pc \in [Procs -> {"idle", "take", "read", "sleep"}]

\* Readers consume what was typed, edited, in order and once, although the
\* line being typed shares the ring with the lines that wait.
InputKept == line = taken \o Pending(buf, r, w)

\* A reader sleeps only while no line waits: no wakeup is lost between the
\* test of r and w and the sleep.
SleepersMustWait == \A p \in Procs : pc[p] = "sleep" => r = w

\* A full buffer has been given to the readers: it cannot be that nothing more
\* is stored and nobody may read.
FullIsReadable == e = r + INPUT_BUF => w = e

Returned(p) == pc[p] = "idle" /\ call[p].target > 0

\* "Save ^D for next time, to make sure caller gets a 0-byte result"
\* (console.rs:50): a read that consumes a ^D returns no byte.
CtrlDGivesZero ==
  \A p \in Procs : Returned(p) /\ call[p].eof => call[p].n = call[p].target

\* "a whole line has arrived, return to the user-level read()" (console.rs:61):
\* the caller's memory holds the characters that the read has counted.
LineArrives == \A p \in Procs : Returned(p) => call[p].dst = call[p].given
=============================================================================
