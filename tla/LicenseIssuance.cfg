SPECIFICATION FairSpec
CONSTANTS
    None = None
    Torn = Torn
    Subs = {s1}
    Handlers = {h1, h2}
    Periods = 2
    MaxAgain = 1
    MaxFaults = 1
    MaxCrashes = 1
INVARIANTS OneLicenceUndisturbed StaysRevoked FileIsStore
PROPERTIES PurchaseSettles RenewalIsMailed
CHECK_DEADLOCK FALSE
