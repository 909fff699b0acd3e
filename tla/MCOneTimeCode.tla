--------------------------- MODULE MCOneTimeCode ---------------------------
(* One-time codes on small instances. *)
EXTENDS OneTimeCode, TLC

Symmetry == Permutations(Requests) \cup Permutations(Codes) \cup Permutations(Ids)
                \cup Permutations(Mails) \cup Permutations(Ips)
=============================================================================
