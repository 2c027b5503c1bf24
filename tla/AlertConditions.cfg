SPECIFICATION Spec
CONSTANTS
    h1 = h1
    h2 = h2
    c1 = c1
    c2 = c2
    Hosts = {h1}
    Containers = {c1}
    HostOf <- MCHostOf
    Metrics <- CPU
    Levels <- Levels3
    RuleIds = {1, 2}
    Configs <- TwoRules
    SavedRules <- BothSaved
    Scopes <- TwoScopes
    AgeCap = 2
    MaxRestarts = 1
    MaxEdits = 1

    
PROPERTIES
    PagedInTurn
