SPECIFICATION Spec
CONSTANTS
    Names = {1, 2}
    Mem <- MCMem
    Split = {2}
    Apptainer = {}
    MaxControllable = 1
    MaxMemory = 1
    Requests = {r1}
    Loop = loop
    Asked = {"scan"}
    Tiers = {"solo"}
    Rows = {1}
    Flagged = {}
    Toggled = {}
    Recorded = {}
    HostActs = {}
    Sqlite = TRUE
PROPERTY RefreshTakes
