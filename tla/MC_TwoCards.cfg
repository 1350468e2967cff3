SPECIFICATION Spec

CONSTANTS
    r1 = r1
    s1 = s1
    s2 = s2
    u1 = u1
    v1 = v1
    v2 = v2
    Users = {u1}
    Venues = {v1, v2}
    Receipts = {r1}
    Sessions = {s1, s2}
    Thresholds = {1}
    TTL = 2
    MinReusable = 2
    DedupeScoped = TRUE
    MayCrash = FALSE
    HostSerialises = TRUE
    ImagesVanish = FALSE
    MaxTime = 0
    MaxEvents = 2
    MaxCodes = 2
    MaxRedemptions = 1
    None = None

SYMMETRY Interchangeable

INVARIANTS
    HonouredAsIssued

PROPERTIES
    ImplementsRules
