\* Two processes, three commands and two faults: enough for a lock to be taken
\* over while its holder is inside and for the next command to find it removed.
SPECIFICATION Spec
CONSTANTS
    t1 = t1
    t2 = t2
    claude = claude
    codex = codex
    Procs = {p1, p2}
    Tasks = {t1, t2}
    Runtimes = {claude, codex}
    Starts <- SomeStarts
    Files <- SomeFiles
    Notes = {n1, n2}
    MaxCommands = 3
    MaxFaults = 2
    MaxCommits = 1
SYMMETRY Symmetry
CHECK_DEADLOCK FALSE
INVARIANTS DisjointUnlessStolen BranchBehindLane NoBranchLeftBehind
PROPERTIES RecordsKept
