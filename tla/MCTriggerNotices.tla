-------------------------- MODULE MCTriggerNotices --------------------------
(* TriggerNotices for TLC: one reason of a session end, one of a prompt. *)
EXTENDS TriggerNotices, TLC

Symmetry == Permutations(Writers) \cup Permutations(Starters)
=============================================================================
