CONSTANTS
    Corrections = {c1}
    Appliers = {a1, a2}
    Skippers = {s1}
    MaxId = 5
    MaxTime = 2
SPECIFICATION Spec
INVARIANTS FoldIsReplay NoAmbiguity AppliedIsAccounted
PROPERTIES RevokeWithdraws ImplementsLifecycle
CHECK_DEADLOCK FALSE
SYMMETRY Perms
