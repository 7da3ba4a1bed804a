SPECIFICATION FairSpec
CONSTANTS
    Tabs = {t1, t2}
    MaxCalls = 2
    MaxLogins = 2
    MaxFaults = 1
CHECK_DEADLOCK FALSE
PROPERTY Uninterrupted
