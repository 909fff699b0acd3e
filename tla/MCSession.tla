----------------------------- MODULE MCSession -----------------------------
(* Session on small instances. *)
EXTENDS Session, TLC

Symmetry == Permutations(Procs) \cup Permutations(Users)

FairSpec == Spec /\ Fairness
=============================================================================
