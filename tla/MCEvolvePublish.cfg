CONSTANTS
    f1 = f1
    A = A
    B = B
    Paths = {f1}
    Contents = {A, B}
    Emitters = {e1, e2}
    DryEmitters = {e2}
    Drainers = {d1}
    Reverters = {r1}
    MaxRuns = 2
    MaxEdits = 1
    MaxGen = 1
    MaxCrashes = 0
    OldDecisions <- AcceptedOnce
    OldReverts <- Empty
    Gone = Gone
    Nobody = Nobody
SPECIFICATION Spec
INVARIANTS OneEntryPerFile
PROPERTIES PublishedGenerationGrows PurgeSparesLaterEntries SnapshotIsCommitted
CHECK_DEADLOCK FALSE
