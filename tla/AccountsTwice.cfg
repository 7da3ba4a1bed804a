SPECIFICATION MCSpec
CONSTANTS
    Ids = {u1, u2}
    Names = {ann, bob}
    Pwds = {p1, p2}
    Requests = {r1, r2}
    NoUser = NoUser
    Nobody = Nobody
    MaxRequests = 2
    MaxFaults = 0
SYMMETRY Symmetry
INVARIANTS NamesAreUnique
CHECK_DEADLOCK FALSE
