---------------------------- MODULE MCFsSyscalls ----------------------------
(* Instances of the log and of the system calls that use it, for TLC. *)
EXTENDS FsSyscalls, TLC

Symm == Permutations(Procs) \union Permutations(Blocks)
=============================================================================
