---------------------------- MODULE MCPermCache ----------------------------
(* PermCache on small instances: menu 2 is under menu 1. *)
EXTENDS PermCache, TLC

BelowMC == [m \in Menus |-> IF m = 1 THEN {2} \cap Menus ELSE {}]
Symmetry == Permutations(Procs) \cup Permutations(Users)
=============================================================================
