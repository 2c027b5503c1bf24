SPECIFICATION MCSpec
SYMMETRY Symmetry

CONSTANTS
    Parts = {"schedule", "edges", "loops"}
    d1 = d1
    d2 = d2
    DayLen <- HalfHours
    DayUnits = 48
    ChangeAt = 4
    Weekdays <- FiveWeekdays
    Ids = {1}
    Handlers = {}
    Bodies <- Schedules
    Grace = 0
    MaxRestarts = 0
    Containers = {c1}
    RuleIds = {1, 2, 3}
    Rule <- MixedRules
    Watchers = {"w"}
    Scanners = {"stdout"}
    WatcherOf <- OneHost
    Actions = {"start", "die"}
    Retention = 2
    AgeCap = 2
    MaxEvents = 2


INVARIANTS
    SilenceIsScheduled
PROPERTIES
    CooldownHolds
    RestartsCounted
CHECK_DEADLOCK FALSE
