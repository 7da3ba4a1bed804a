SPECIFICATION Spec
CONSTANTS
    MaxEntries = 1
    TornAppends = TRUE
    MaxAppends = 3
    MaxFaults = 2
PROPERTY NothingDeleted
CHECK_DEADLOCK FALSE
