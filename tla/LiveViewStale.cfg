SPECIFICATION FairSpec
CONSTANTS
    Vms = {v1, v2}
    Sockets = {s1, s2}
    None = None
    Rounds = {k1, k2}
    MaxAttempts = 2
    MaxRefs = 2
    MaxInFlight = 1
    MaxEdits = 2
    MaxFaults = 2
CHECK_DEADLOCK FALSE
INVARIANT NoStaleList
