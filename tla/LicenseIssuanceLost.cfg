SPECIFICATION FairSpec
CONSTANTS
    None = None
    Torn = Torn
    Subs = {s1}
    Handlers = {h1}
    Periods = 1
    MaxAgain = 0
    MaxFaults = 1
    MaxCrashes = 0
PROPERTY PurchaseIsIssued
CHECK_DEADLOCK FALSE
