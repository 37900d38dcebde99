------------------------------ MODULE MCBCache ------------------------------
(* Instances of the buffer cache for TLC. *)
EXTENDS BCache, TLC

\* Processes, blocks and contents are interchangeable; buffers are not.
Symm == Permutations(Procs) \union Permutations(Blocks) \union Permutations(Values)
=============================================================================
