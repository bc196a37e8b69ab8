SPECIFICATION Spec
CONSTANTS
    Signals = {k1, k2}
    Promoters = {p1, p2}
    Expirers = {e1}
    MaxFailures = 1
    MaxDeaths = 1
SYMMETRY Perms
INVARIANTS PromotedIsRecorded RepeatsArePaidFor
CHECK_DEADLOCK FALSE
