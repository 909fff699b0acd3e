----------------------------- MODULE MCPresence -----------------------------
(* Presence on small instances: two tokens of one user. *)
EXTENDS Presence, TLC

CONSTANT u1
OneUser == [t \in Tokens |-> u1]
Symmetry == Permutations(Conns) \cup Permutations(Tokens) \cup Permutations(Insts)
=============================================================================
