SPECIFICATION FairSpec
CONSTANTS
    Vms = {v1, v2}
    Sockets = {s1, s2}
    None = None
    Rounds = {k1}
    MaxAttempts = 2
    MaxRefs = 2
    MaxInFlight = 2
    MaxEdits = 2
    MaxFaults = 2
INVARIANTS OneConnection DeletedStaysGone
PROPERTIES Reconnects ListCatchesUp
CHECK_DEADLOCK FALSE
