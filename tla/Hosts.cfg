SPECIFICATION MCSpec
SYMMETRY Symmetry
CONSTANTS
    Projects = {p1}
    Short <- ShortOwn
    Rels = {1, 2}
    Files = {1, 2}
    Sources <- TwoSources
    MaxBytes = 2
    MaxOps = 2
    MaxUser = 1
    MaxWrites = 1
    SeedFaults = 2
    MaxCrashes = 1
    Versions = {1, 2}
    Rejected = {2}
    Targets <- SomeTargets
    StackFaults = 1
    Submitted <- SentPolicies
    Stored <- SavedPolicies
    DefaultPolicy <- TheDefault
    MinAudit = 2
    MinKeep = 1
    MaxDays = 3
    Batch = 1
    Feed <- OneEvent
    Log <- OneEntry
    Snapshots = {1, 2}
    AgeCap = 3
    MaxRows = 2
    PurgeRuns = 2
    PurgeFaults = 1
    Parts = {"watch", "streams", "clients", "backups", "updates", "seeds", "purge", "stacks"}
    Ids = {i1, i2}
    MaxGen = 2
    Rights <- Always
    Hosts = {1}
    Keys = {k1, k2}
    Callers = {c1, c2}
    Admins = {a1}
    MaxConns = 2
    RowEdits = 1
    MaxReinstalls = 1
    Jobs = {1}
    Requests = {q1, q2}
    Editors = {e1}
    Envs = {v1}
    Slots = 1
    Interval = 2
    MaxRunsKept = 1
    MaxRuns = 3
    JobEdits = 1
    Services = {s1, s2}
    Digests = {d1, d2}
    MaxMoves = 3
    PollFaults = 1
    MaxWatchers = 3
    MaxEdits = 1
    MaxFlips = 2
    MaxFaults = 1
    MinBackoff = 2
    MaxBackoff = 7
INVARIANTS
    WatchFollowsHosts
    StreamsAreOwned
    ConnectionsFollowRows
    
    UpdatesAreTold
    
PROPERTIES
    PurgeIsTrue
    StackFileIsWhole
CHECK_DEADLOCK FALSE
