CONSTANTS
    c1 = c1
    k1 = k1
    a1 = a1
    Client = {c1}
    Key = {k1}
    Assertion = {a1}
    Process = {p1}
    Worker = {w1, w2}
    None = None
    Publishable <- MCPublishable
    Lifetimes <- MCLifetimes
    Claims <- MCClaims
    MaxCacheSeconds = 2
    MaxEntries = 1
    Skew = 1
    MaxLifetime = 3
    MaxDelay = 1
    MaxClock = 4
SPECIFICATION Spec
SYMMETRY Symmetry
INVARIANTS
    Revocable
    AssertionOncePerProcess
CHECK_DEADLOCK FALSE
