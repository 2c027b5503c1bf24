SPECIFICATION Spec
SYMMETRY Symmetry
CONSTANTS
    Databases <- LeftBehind
    Builtins <- TwoRoles
    Records = {1, 2}
    TlsHosts = {1, 2}
    Codes = {1, 2, 3}
    MaxStarts = 3
    MaxFaults = 1
    Parts = {"signin", "enrolment", "accounts", "startup"}
    SignInWays <- FourWays
    AccountWays <- AllWays
    Requests = {r1, r2}
    Protected = TRUE
    Budget = 1
    WindowTicks = 1
    ChallengeTicks = 2
    PublicLimit = 1
    MaxIds = 3
    MaxStep = 2
    MaxSig = 1
    MaxPw = 1
    MaxRestarts = 1
    Pairing = {p1, p2}
    MaxFactors = 2
    MaxSecrets = 4
    Users = {u1, u2}
    Roles = {1, 2}
    Sections = {"alerts"}
    Areas = {"alerts", "webhooks", "users", "system"}
    Hosts = {"h", "k"}
INVARIANTS
    SignInIsSound
    GrantsAgree
    StartsAreSafe
PROPERTIES
    FactorsAreSound
    AdminsRemain
CHECK_DEADLOCK FALSE
