---------------------------- MODULE MCAddrSpace -----------------------------
(* Instances of the address spaces for TLC. *)
EXTENDS AddrSpace, TLC

Symm == Permutations(Procs \ {InitProc})

\* Arguments of sbrk, in bytes of pages of two bytes.
MCDeltas == {-3, -1, 1, 3}
GrowOnly == {2}
=============================================================================
