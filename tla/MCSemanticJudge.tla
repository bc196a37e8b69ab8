-------------------------- MODULE MCSemanticJudge --------------------------
(* SemanticJudge for TLC. *)
EXTENDS SemanticJudge, TLC

Perms == Permutations(Runners)
=============================================================================
