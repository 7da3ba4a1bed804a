SPECIFICATION DistroSpec
CONSTANTS
    deb = deb
    own = own
    u1 = u1
    u2 = u2
    Nil = Nil
    Distributions = {deb, own}
    Builtin = {deb}
    Urls = {u1, u2}
    Offered = {u2}
    Wanted = {deb, own}
    Default = u1
    Shipped <- MCShipped
    Remote <- MCRemote
    Requests = {r1, r2}
    MaxOps = 3
    MaxFetches = 2
    MaxDistroFaults = 1
INVARIANT BuiltinsAreVerified
CHECK_DEADLOCK FALSE
