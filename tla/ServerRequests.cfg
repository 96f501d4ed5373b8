SPECIFICATION FairSpec
CONSTANTS
    Addresses = {a1}
    Conns = {c1, c2}
    Burst = 2
    Rate = 1
    TTL = 2
    MaxStall = 1
    RingSize = 2
    PageSize = 1
    QueueCap = 1
    WorkCap = 1
    Tokens = {"github"}
    AdminKey = TRUE
    Secret = TRUE
    None = None
INVARIANT LimiterConforms
PROPERTIES RingIsLog ServerStops
CHECK_DEADLOCK FALSE
