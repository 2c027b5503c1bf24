SPECIFICATION MCSpec
CONSTANTS
    Parts = {"sessions", "gate"}
    Clients = {c1}
    Requests = {r1, r2}
    CodeTicks = 1
    AccessTicks = 1
    RefreshTicks = 1
    MaxCodes = 1
    MaxSids = 2
    MaxTokens = 3
    Calls = {k1, k2}
    Hosts = {1, 2}
    Sections = {"containers", "logs"}
    Batches = {1, 2, 3, 4}
    Scenarios <- AllUses
    Burst = 3
    DefaultDays = 1
    DefaultMax = 2
    AbsoluteMax = 4
    WrapDays = 7
    MaxIds = 1
    MaxTime = 5
INVARIANTS
    SessionsEndForGood
    
PROPERTIES
    LifeOnce
CHECK_DEADLOCK FALSE
