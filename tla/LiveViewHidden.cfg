SPECIFICATION FairSpec
CONSTANTS
    Vms = {v1, v2}
    Sockets = {s1}
    None = None
    Rounds = {k1}
    MaxAttempts = 1
    MaxRefs = 1
    MaxInFlight = 1
    MaxEdits = 2
    MaxFaults = 0
CHECK_DEADLOCK FALSE
PROPERTY ConfirmedComeBack
