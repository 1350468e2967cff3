SPECIFICATION Spec
CONSTANTS
    u1 = u1
    Users = {u1}
    v1 = v1
    Venues = {v1}
    s1 = s1
    s2 = s2
    Sessions = {s1, s2}
    Retired = {}
    Limit = 2
    Required = 1
    HostSerialises = FALSE
    MaxRows = 2
    MaxExtra = 1
    MaxFaults = 0
    MaxPasses = 1
    None = None
SYMMETRY SessionSymmetry
INVARIANTS
    NothingMissing
