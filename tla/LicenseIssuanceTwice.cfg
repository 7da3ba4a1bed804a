SPECIFICATION Spec
CONSTANTS
    None = None
    Torn = Torn
    Subs = {s1}
    Handlers = {h1, h2}
    Periods = 1
    MaxAgain = 1
    MaxFaults = 0
    MaxCrashes = 0
INVARIANT OneLicence
CHECK_DEADLOCK FALSE
