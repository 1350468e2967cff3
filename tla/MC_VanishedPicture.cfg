SPECIFICATION Spec

CONSTANTS
    r1 = r1
    r2 = r2
    s1 = s1
    s2 = s2
    u1 = u1
    u2 = u2
    v1 = v1
    Users = {u1, u2}
    Venues = {v1}
    Receipts = {r1, r2}
    Sessions = {s1, s2}
    Thresholds = {1}
    TTL = 2
    MinReusable = 2
    DedupeScoped = FALSE
    MayCrash = FALSE
    HostSerialises = FALSE
    ImagesVanish = TRUE
    MaxTime = 0
    MaxEvents = 3
    MaxCodes = 0
    MaxRedemptions = 0
    None = None

SYMMETRY Interchangeable

INVARIANTS
    DuplicateMeansEarned
