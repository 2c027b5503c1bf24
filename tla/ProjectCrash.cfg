SPECIFICATION Spec

CONSTANTS
    Requests = {r1}
    Kinds = {"save", "deploy", "restore"}
    Hosts = {"h1"}
    NoOne = NoOne
    Keep = 1
    MaxSaves = 1
    MaxRevisions = 2
    MaxFaults = 0
    MaxCrashes = 1

INVARIANTS
    CrashKeepsFiles

CHECK_DEADLOCK FALSE
