SPECIFICATION MCSpec
CONSTANTS
    v1 = v1
    v2 = v2
    Vms = {v1, v2}
    Order <- MCOrder
    Rounds = {k1, k2}
    Statuses <- MCStatuses
    Unseen = Unseen
    Gone = Gone
    MaxKept = 2
    MaxChanges = 2
    MaxOthers = 0
    MaxFaults = 0
INVARIANT ToldOnce
CHECK_DEADLOCK FALSE
