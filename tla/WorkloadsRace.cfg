SPECIFICATION Spec
CONSTANTS
    Names = {1, 2}
    Mem <- MCMem
    Split = {2}
    Apptainer = {}
    MaxControllable = 2
    MaxMemory = 1
    Requests = {r1, r2}
    Loop = loop
    Asked = {"start", "stop"}
    Tiers = {"free"}
    Rows = {1, 2}
    Flagged = {}
    Toggled = {}
    Recorded = {1, 2}
    HostActs = {}
    Sqlite = FALSE
INVARIANT RunningWithinCeiling
