SPECIFICATION MCSpec

CONSTANTS
    Parts = {"followers", "conditions", "delivery", "windows", "watch", "streams"}
    h1 = h1
    h2 = h2
    c1 = c1
    c2 = c2
    d1 = d1
    d2 = d2
    Keys = {"k1"}
    Hosts = {"h1"}
    HostOf <- OneHost
    Followers = {f1, f2, f3, f4}
    NoFollower = NoFollower
    MaxChanges = 2
    MaxFaults = 1


INVARIANTS
    FollowersOwned
PROPERTIES
    FollowersSettle
    ConditionsSettle
    QueueDrains
    WindowsHold
    WatchersSettle
    ClosedSocketEndsStreams
CHECK_DEADLOCK FALSE
