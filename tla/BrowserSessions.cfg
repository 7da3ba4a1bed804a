SPECIFICATION FairSpec
CONSTANTS
    Tabs = {t1, t2}
    MaxCalls = 2
    MaxLogins = 2
    MaxFaults = 1
INVARIANTS LastLoginOnly OneRefreshToken
PROPERTIES EverythingEnds
CHECK_DEADLOCK FALSE
