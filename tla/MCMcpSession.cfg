CONSTANTS
    Session = {s1}
    RequestId = {i1, i2, i3}
    Worker = {w1, w2}
    None = None
    SessionTtl = 2
    MaxRequestIds = 2
    MaxAttempts = 2
    MaxClock = 3
    MaxItems = 5
    MaxPageSize = 3
SPECIFICATION MCSpec
SYMMETRY Symmetry
INVARIANTS
    EffectsFollowAnswer
    PagesCoverList
    ServedOnce
    ReservationsKept
    ReadyIsServed
    NothingAfterEnd
PROPERTY GatedWorkIsInitialized
CHECK_DEADLOCK FALSE
