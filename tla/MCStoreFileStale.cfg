CONSTANTS
    p1 = p1  p2 = p2
    u1 = u1  u2 = u2  u3 = u3
    Process = {p1, p2}
    Update = {u1, u2, u3}
    Origin <- TwoProcesses
    None = None
    MaxPolls = 2
    MaxCrashes = 1
SPECIFICATION Spec
INVARIANT NoLostUpdate
CHECK_DEADLOCK FALSE
