SPECIFICATION Spec

CONSTANTS
    r1 = r1
    r2 = r2
    s1 = s1
    u1 = u1
    v1 = v1
    Users = {u1}
    Venues = {v1}
    Receipts = {r1, r2}
    Sessions = {s1}
    Thresholds = {1, 2}
    TTL = 2
    MinReusable = 2
    DedupeScoped = FALSE
    MayCrash = TRUE
    HostSerialises = TRUE
    ImagesVanish = TRUE
    MaxTime = 2
    MaxEvents = 3
    MaxCodes = 2
    MaxRedemptions = 2
    None = None

SYMMETRY Interchangeable

INVARIANTS
    OneRewardPerCycle
    CountNotInflated
    RewardPaidFor
    OnePendingCode
    ClosedForCause

PROPERTIES
    RedeemedStays
    ImplementsRules
