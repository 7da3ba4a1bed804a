SPECIFICATION Spec
CONSTANTS
    None = None
    vm1 = vm1
    a0 = a0
    Found <- MCFound
    Names = {vm1, vm2, vm3}
    Addresses = {a0, a1, a2}
    Pool = {a1, a2}
    Explicit = {a0}
    ExplicitClones = TRUE
    Clones = {c1, c2}
    MaxFaults = 1
INVARIANTS NothingLeaks UniquePoolAddresses
SYMMETRY Symmetry
CHECK_DEADLOCK FALSE
