CONSTANTS
    Token = {t1, t2, t3}
    Family = {f1}
    Client = {c1, c2}
    Resource = {r1}
    Worker = {w1, w2}
    Root = Root
    RefreshTtl = {2}
    SweepLag = 1
    MaxRequestAge = 1
    MaxClock = 5
SPECIFICATION Spec
SYMMETRY Symmetry
INVARIANTS
    SingleSuccessor
PROPERTIES
    RefusalClosesFamily
    OnlyReplayRevokes
    ImplementsFamily
CHECK_DEADLOCK FALSE
