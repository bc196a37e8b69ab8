\* Any three starts of two batches and two deletions, beside a reader.
SPECIFICATION Spec
CONSTANTS
    Records = {s1, s2}
    Ingesters = {i1, i2}
    Deleters = {d1, d2}
    Readers = {c1}
    Nobody = Nobody
    MaxBatches = 3
    MaxCrashes = 1
SYMMETRY Symmetry
CHECK_DEADLOCK FALSE
INVARIANTS KeptUnlessRaced OneRow AnswerComplete
