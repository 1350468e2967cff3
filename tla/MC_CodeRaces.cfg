SPECIFICATION Spec

CONSTANTS
    r1 = r1
    s1 = s1
    s2 = s2
    u1 = u1
    v1 = v1
    Users = {u1}
    Venues = {v1}
    Receipts = {r1}
    Sessions = {s1, s2}
    Thresholds = {1}
    TTL = 2
    MinReusable = 2
    DedupeScoped = FALSE
    MayCrash = TRUE
    HostSerialises = FALSE
    ImagesVanish = FALSE
    MaxTime = 2
    MaxEvents = 1
    MaxCodes = 2
    MaxRedemptions = 2
    None = None

SYMMETRY Interchangeable

INVARIANTS
    TypeOK
    RedemptionMarksCode
    HonouredAsIssued
    AlreadyRedeemedIsTrue
