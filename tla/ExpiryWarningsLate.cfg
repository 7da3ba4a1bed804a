SPECIFICATION WarnSpec
CONSTANTS
    WarningDays = {4, 2, 1}
    Expiries = {5, 8}
    LastDay = 9
    MaxRenewals = 0
    MaxWarnFaults = 0
PROPERTY WarnsBeforeExpiry
CHECK_DEADLOCK FALSE
