SPECIFICATION MCSpec
SYMMETRY Symmetry

CONSTANTS
    Parts = {"update", "domains", "bundle", "backup", "templates", "builder"}
    Versions <- Releases
    Current <- Installed
    Admins = {a1}
    MaxStarts = 2
    MaxEdits = 1
    MaxFaults = 1
    MaxKills = 1
    MaxProjects = 1
    Domains = {d1}
    Admin = adm
    Targets = {t1, t2}
    Addrs = {p1}
    Clients = {c1, c2}
    Editors = {e1}
    TTL = 1
    Timeout = 1
    MaxChanges = 3
    Slugs = {s1, s2}
    MaxIds = 2
    Importers = {i1}
    MaxProjectFiles = 1
    MaxTotalFiles = 2
    MaxTotalBytes = 1
    MaxExports = 1
    UserChanges = 2
    BundleFaults = 1
    MaxCrashes = 1
    InstallIds = 2
    MaxGens = 2
    MaxBackups = 1
    InstallKills = 1
    TemplateIds = 2
    Paths = {f1, f2, f3}
    MaxFiles = 2
    Requests = {c1, c2}
    SourceEdits = 1
    MaxWrites = 3
    FileFaults = 1
    FragIds = {g1}
    Anchors = {k1}
    Blocks <- BuilderBlocks
    Keys <- BuilderKeys
    MaxInstances = 3
    FragEdits = 1



    
    
PROPERTIES
    OnlyVerifiedRuns
    RoutesFollowMappings
    
    
CHECK_DEADLOCK FALSE
