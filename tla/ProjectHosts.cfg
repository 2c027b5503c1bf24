SPECIFICATION FairSpec

CONSTANTS
    Requests = {r1, r2}
    Kinds = {"deploy", "mcpdeploy", "down", "settings", "restore"}
    Hosts = {"h1", "h2"}
    NoOne = NoOne
    Keep = 1
    MaxSaves = 0
    MaxRevisions = 2
    MaxFaults = 0
    MaxCrashes = 1
PROPERTIES
    HistoryOnlyGrows
    ProjectIsReleased
