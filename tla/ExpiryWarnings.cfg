SPECIFICATION FairWarnSpec
CONSTANTS
    WarningDays = {4, 2, 1}
    Expiries = {5, 8}
    LastDay = 9
    MaxRenewals = 2
    MaxWarnFaults = 2
INVARIANT MarkedWasAnnounced
PROPERTIES CountdownTightens NearestDeadline LastWarningComes
CHECK_DEADLOCK FALSE
