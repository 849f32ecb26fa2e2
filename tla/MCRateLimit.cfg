CONSTANTS
    Window = 3
    MaxRequests = 3
    MaxAttempts = 2
    Worker = {w1, w2}
    NoRecord = NoRecord
    MaxClock = 13
SPECIFICATION RateSpec
SYMMETRY Symmetry
INVARIANTS
    WeightedCap
    CountersMatchHistory
    StraddleCap
CHECK_DEADLOCK FALSE
