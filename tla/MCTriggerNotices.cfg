\* Two writers overlap; two session starts and an instructions_loaded hook
\* meet the notices of both.
SPECIFICATION Spec
CONSTANTS
    Writers = {w1, w2}
    Starters = {a1, a2}
    Loaders = {b1}
    Reasons = {session_count, corrections_threshold}
    Noticed = {session_count}
    Nobody = Nobody
    MaxRuns = 1
    MaxNotices = 2
    MaxFaults = 1
SYMMETRY Symmetry
CHECK_DEADLOCK FALSE
INVARIANTS UpdatesKept NoticeAccounted ShownOnce
