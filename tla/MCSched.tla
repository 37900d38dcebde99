------------------------------ MODULE MCSched -------------------------------
(* Instances of processes, CPUs and one sleep-lock for TLC. *)
EXTENDS Sched, TLC

\* CPUs are interchangeable; processes are not, the table is scanned in order.
Symm == Permutations(Cpus)
=============================================================================
