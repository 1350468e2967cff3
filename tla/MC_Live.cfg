SPECIFICATION FairSpec

CONSTANTS
    r1 = r1
    r2 = r2
    s1 = s1
    s2 = s2
    u1 = u1
    v1 = v1
    Users = {u1}
    Venues = {v1}
    Receipts = {r1, r2}
    Sessions = {s1, s2}
    Thresholds = {1}
    TTL = 1
    MinReusable = 1
    DedupeScoped = FALSE
    MayCrash = FALSE
    HostSerialises = TRUE
    ImagesVanish = TRUE
    MaxTime = 1
    MaxEvents = 2
    MaxCodes = 1
    MaxRedemptions = 1
    None = None

INVARIANTS
    CountExact

PROPERTIES
    Answered
