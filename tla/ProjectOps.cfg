SPECIFICATION Spec

CONSTANTS
    Requests = {r1, r2}
    Kinds = {"save", "deploy", "delete", "restore"}
    Hosts = {"h1"}
    NoOne = NoOne
    Keep = 1
    MaxSaves = 2
    MaxRevisions = 3
    MaxFaults = 1
    MaxCrashes = 0

SYMMETRY RequestSymmetry
INVARIANTS
    
    EveryDeployIsRecorded
