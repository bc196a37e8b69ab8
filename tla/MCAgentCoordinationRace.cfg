\* No process dies, no lock is forced or grows old: two starts at once.
SPECIFICATION Spec
CONSTANTS
    t1 = t1
    t2 = t2
    claude = claude
    codex = codex
    Procs = {p1, p2}
    Tasks = {t1, t2}
    Runtimes = {claude, codex}
    Starts <- SomeStarts
    Files <- SomeFiles
    Notes = {n1, n2}
    MaxCommands = 3
    MaxFaults = 0
    MaxCommits = 1
SYMMETRY Symmetry
CHECK_DEADLOCK FALSE
INVARIANT DisjointOwnership
