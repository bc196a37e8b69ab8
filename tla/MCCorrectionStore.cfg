CONSTANTS
    Ids = {c1, c2, c3}
    Appenders = {hook}
    Editors = {reflect}
    Sweepers = {prune}
    Invalidators = {inv}
    Junk = junk
    MaxLines = 3
SPECIFICATION Spec
INVARIANTS UniqueIds AckedReadable RefusalIsJustified
PROPERTIES StatusHitsTarget ImplementsLog
SYMMETRY IdPerms
