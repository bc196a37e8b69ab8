--------------------------- MODULE MCSessionStore ---------------------------
(* SessionStore for TLC. *)
EXTENDS SessionStore, TLC

Symmetry == Permutations(Records) \cup Permutations(Ingesters) \cup Permutations(Deleters)
=============================================================================
