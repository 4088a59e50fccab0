SPECIFICATION ServicesSpec
CONSTANTS
    Calls = {a1, a2}
    Kinds = {"terminal", "mcp_tool", "unknown"}
    Targets = {p}
    McpPermission = "confirm"
    AllowedPermissions = {"read", "execute", "confirm"}
    BlockedTargets = {}
    RequireConfirmationFor = {"confirm"}
    BlockUnknown = TRUE
    Ttls <- Ttl1
    Tokens = {b1, b2}
    MaxNow = 2
    Codes = {k1}
    Owners = {b1, b2}
    Approvals = {a1, a2}
    Pollers = {q1}
    Members = {a1, a2, a3}
    Founders = {a1, a2}
    Invitations = {k1}
    OrgCalls = {b1, b2}
    MaxOrgCalls = 4
    Checkouts = {a1, a2}
    Callbacks = {b1, b2}
    Teams = {"org", "personal"}
    Personal = "personal"
    MaxCredits = 3
    Loads = {a1, a2}
    Logins = {b1, b2}
    MaxTokens = 3
    Paths = {a1, a2}
    Writers = {b1, b2}
    SizeLimit = 2
    MaxTries = 2
    MaxWrites = 3
    HistoryLimit = 5
    MaxExec = 3
    MaxOutput = 3
    MaxSize = 6
    KeepFirst = 1
    MaxUser = 2
    MaxHistory = 10
    Workers = {a1, a2}
    Ports = {k1}
    LastPort = k1
    MaxAttempts = 2
    MaxFiles = 3
    MaxKills = 1
SYMMETRY Symmetry
CHECK_DEADLOCK FALSE
INVARIANTS
    ServicesTypeOK
    NoUnconfirmedRun
    TokenSpentOnce
    EveryReturnAudited
    KeysMatchCodes
    OwnerRemains
    AccessIsMembership
    BooksBalance
    RefreshedOnce
    UpdatesArrive
    ReportsAreOwn
    CondensationSettles
    NothingNeededForgotten
    LockIsExclusive
PROPERTIES
    ImplementsPermits
