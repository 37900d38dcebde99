---------------------------- MODULE MCInodeTable ----------------------------
(* Instances of the inode table for TLC. *)
EXTENDS InodeTable, TLC

Symm == Permutations(Procs)
=============================================================================
