SPECIFICATION Spec
CONSTANTS
    Licenses <- MCLicenses
    Contents = {z1, z2}
    Polls = {p1}
    Ticks = {t1}
    MaxChanges = 2
    MaxFaults = 0
INVARIANT FreeHostWithdrawn
CHECK_DEADLOCK FALSE
