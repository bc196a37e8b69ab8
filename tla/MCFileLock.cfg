\* Blocking and non-blocking callers and a reader; the sidecar may be
\* removed twice, and every property that needs it in place says so.
SPECIFICATION FairSpec
CONSTANTS
    Lockers = {l1, l2}
    Triers = {t1}
    Readers = {r1}
    MaxInodes = 3
    MaxRetries = 2
INVARIANTS MutualExclusion SnapshotIsStable NoSpuriousTimeout
PROPERTIES ReadEnds LockerServed
