SPECIFICATION MCSpec
CONSTANTS
    Ids = {u1, u2}
    Names = {ann, bob}
    Pwds = {p1, p2}
    Requests = {r1}
    NoUser = NoUser
    Nobody = Nobody
    MaxRequests = 1
    MaxFaults = 0
PROPERTIES ResetEndsSessions
CHECK_DEADLOCK FALSE
