SPECIFICATION FairSpec
CONSTANTS
    Licenses <- MCLicenses
    Contents = {z1, z2}
    Polls = {p1}
    Ticks = {t1, t2}
    MaxChanges = 2
    MaxFaults = 1
INVARIANTS WithdrawnUnlessOverlapped ResolverCurrent
PROPERTIES RenewalInvisible DnsFollowsTier
CHECK_DEADLOCK FALSE
