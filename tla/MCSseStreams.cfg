CONSTANTS
    Stream = {s1, s2}
    Poster = {p1, p2}
    RequestId = {i1, i2}
    None = None
    MaxConnections = 1
    MaxRequestIds = 1
    HighWater = 2
    MaxBuffered = 4
    MaxEvents = 3
SPECIFICATION Spec
INVARIANTS
    SlotsMatchStreams
    NothingLeftBehind
    NoLostWakeup
PROPERTY
    StreamsLetGo
\* Everyone may end up waiting: all streams are closed, and every poster    *)
(* waits for a 'drain' that a closed response does not emit.                *)
CHECK_DEADLOCK FALSE
