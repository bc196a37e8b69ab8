------------------------- MODULE MCEvolveDecisions -------------------------
(* EvolveDecisions for TLC. *)
EXTENDS EvolveDecisions, TLC

CONSTANTS f1, A, B

(* A history without a lock file: the change of f1 from A to B is accepted. *)
AcceptedOnce ==
    << [id |-> [path |-> f1, before |-> A, kind |-> "accept", after |-> B, gen |-> 0],
        run |-> 1] >>

Empty == {}

DrainersAlike == Permutations(Drainers)
=============================================================================
