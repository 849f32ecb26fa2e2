CONSTANTS
    Token = {t1, t2, t3}
    Family = {f1}
    Client = {c1, c2}
    Resource = {r1}
    Root = Root
    RefreshTtl = {1, 3}
    MaxClock = 3
    Code = {k1}
    State = {s1, s2}
    Session = {m1}
    RequestId = {i1, i2}
    CodeTtl = 1
    SessionTtl = 2
    maxMcpRequestIds = 1
    MaxClaim = 3
    MaxRows = 4
SPECIFICATION StoreSpec
SYMMETRY Symmetry
INVARIANTS
    FamilyRevokedTogether
    RefusedForItsText
PROPERTY ImplementsFamily
CHECK_DEADLOCK FALSE
