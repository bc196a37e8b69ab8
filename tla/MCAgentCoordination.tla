------------------------ MODULE MCAgentCoordination ------------------------
(* AgentCoordination for TLC: a task that either runtime may take up, on a *)
(* directory or elsewhere, and a task on a part of that directory.         *)
EXTENDS AgentCoordination, TLC

CONSTANTS t1, t2, claude, codex

SomeStarts == {<<t1, claude, {<<"scripts">>}>>,
               <<t1, claude, {<<"docs">>}>>,
               <<t1, codex, {<<"docs">>}>>,
               <<t2, claude, {<<"scripts", "lib">>}>>}

SomeFiles == {<<"scripts", "lib", "x">>, <<"scripts", "y">>, <<"docs", "z">>}

Symmetry == Permutations(Procs) \cup Permutations(Notes)
=============================================================================
