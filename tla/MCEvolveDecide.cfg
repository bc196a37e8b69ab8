\* A history with an accepted decision, which may be reverted, emitted and
\* decided again by two drains.
CONSTANTS
    f1 = f1
    A = A
    B = B
    Paths = {f1}
    Contents = {A, B}
    Emitters = {e1}
    DryEmitters = {e1}
    Drainers = {d1, d2}
    Reverters = {r1}
    MaxRuns = 1
    MaxEdits = 2
    MaxGen = 2
    MaxCrashes = 1
    OldDecisions <- AcceptedOnce
    OldReverts <- Empty
    Gone = Gone
    Nobody = Nobody
SPECIFICATION Spec
INVARIANTS UniqueDecisions
PROPERTIES FreshAcceptCounts
SYMMETRY DrainersAlike
CHECK_DEADLOCK FALSE
