SPECIFICATION Spec
CONSTANTS
    None = None
    vm1 = vm1
    a0 = a0
    Found <- MCFound
    Names = {vm1, vm2, vm3}
    Addresses = {a0, a1, a2, a3}
    Pool = {a1, a2}
    Explicit = {a1}
    ExplicitClones = FALSE
    Clones = {c1}
    MaxFaults = 0
INVARIANT UniqueAddresses
CHECK_DEADLOCK FALSE
