CONSTANTS
    Token = {t1, t2, t3, t4}
    Family = {f1}
    Client = {c1}
    Resource = {r1}
    Worker = {w1}
    Root = Root
    RefreshTtl = {2, 4}
    SweepLag = 0
    MaxRequestAge = 0
    MaxClock = 4
SPECIFICATION Spec
SYMMETRY Symmetry
INVARIANT SingleSuccessor
CHECK_DEADLOCK FALSE
