---------------------------- MODULE MCFileBlocks ----------------------------
(* Instances of the image and the blocks of files for TLC. *)
EXTENDS Mkfs

\* No program; one that reaches the double indirect range, with two tables, and
\* ends within a block.
SomeLengths == {[f \in {} |-> 0], [f \in {2} |-> 11]}
=============================================================================
