SPECIFICATION Spec
CONSTANTS
    Names = {1, 2, 3}
    Mem <- MCMem
    Split = {1, 2}
    Apptainer = {1}
    MaxControllable = 1
    MaxMemory = 1
    Requests = {r1}
    Loop = loop
    Asked = {"start", "restart", "stop", "scan", "delete", "flag"}
    Tiers = {"free", "solo"}
    Rows = {2}
    Flagged = {2}
    Toggled = {2}
    Recorded = {2}
    HostActs = {1, 2, 3}
    Sqlite = FALSE
PROPERTIES CapHoldsUndisturbed DeleteSparesRunning
