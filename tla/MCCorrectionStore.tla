------------------------- MODULE MCCorrectionStore -------------------------
(* CorrectionStore for TLC: ids are interchangeable. *)
EXTENDS CorrectionStore, TLC

IdPerms == Permutations(Ids)
=============================================================================
