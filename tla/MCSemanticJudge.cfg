SPECIFICATION JudgeSpec
CONSTANTS
    Utterances = {1, 2}
    Runners = {r1, r2}
    Sessions = {s1}
    BatchSize = 2
    UtteranceLimit = 2
    TokenLimit = 4
    Overhead = 1
    MaxDays = 2
    MaxJudgeDeaths = 1
    Nobody = Nobody
SYMMETRY Perms
INVARIANTS BookedWithinLimit CallsAreBooked JudgedOnItsVerdict
CHECK_DEADLOCK FALSE
