------------------------------ MODULE MCKalloc ------------------------------
(* Instances of the kernel's heap for TLC. *)
EXTENDS Kalloc

Layout(size, align) == [size |-> size, align |-> align]

\* Small objects, whose alignment is at most that of a list node.
SmallObjects == {Layout(4, 4), Layout(20, 4), Layout(24, 8), Layout(40, 8)}

\* Small objects, and objects aligned as pages are, at the scale of the heap.
WithPages == {Layout(4, 4), Layout(20, 4), Layout(24, 8), Layout(32, 32)}
=============================================================================
