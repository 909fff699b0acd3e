-------------------------- MODULE MCTaskScheduler --------------------------
(* TaskScheduler on small instances. *)
EXTENDS TaskScheduler, TLC

Symmetry == Permutations(Procs) \cup Permutations(Crons)
=============================================================================
