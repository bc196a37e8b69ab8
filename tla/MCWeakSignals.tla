--------------------------- MODULE MCWeakSignals ---------------------------
(* WeakSignals for TLC. *)
EXTENDS WeakSignals, TLC

Perms == Permutations(Signals) \cup Permutations(Promoters)
=============================================================================
