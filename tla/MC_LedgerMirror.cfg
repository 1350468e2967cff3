SPECIFICATION LiveSpec
CONSTANTS
    u1 = u1
    Users = {u1}
    v1 = v1
    v2 = v2
    Venues = {v1, v2}
    s1 = s1
    s2 = s2
    Sessions = {s1, s2}
    Retired = {v2}
    Limit = 2
    Required = 1
    HostSerialises = TRUE
    MaxRows = 3
    MaxExtra = 2
    MaxFaults = 1
    MaxPasses = 1
    None = None
INVARIANTS
    HeldByOwner
    ProofsResolve
    DuplicatesHaveACause
    ReplaysAgree
    MirrorExact
PROPERTIES
    CatchesUp
