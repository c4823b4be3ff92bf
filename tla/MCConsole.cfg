CONSTANTS
    LoginProvider = {"codex", "anthropic", "command-code", "antigravity", "cursor", "zcode", "xai", "kimi"}
    Actor = {h1, h2}
    Writer = {h1, h2}
    Caller = {h1, h2}
    MaxLogin = 2
    MAX_OAUTH_SESSIONS = 1
    OAUTH_SESSION_TTL = 1
    MaxAge = 1
    KeyFile = {"k1", "k2"}
    Project = {"proj"}
    Identity = {"i1", "i2"}
    MaxCall = 3
    MaxWrite = 3
    Peer = {"loopback", "far"}
    MAX_FAILURES = 2
    BAN_DURATION = 2
    Retention = 2
    Permits = 1
    MaxTick = 4
    Offer = {"o1", "o2"}
    MaxResponder = 3
    MaxTimeout = 2
    TxtBudget = 2
    MaxPacket = 6
    MaxVisited = 5
    SpoolDoc = {"d1", "d2"}
    MaxPeer = 1
    SessionCap = 1
    Unusable = {2}
    MaxVersion = 4
    CallThread = {"t"}
    MaxClient = 2
    MaxEdit = 2
    Body = {"b", "c"}
    Chain = 2
    EgMember = {1, 2}
    ClaudeId = {1}
    DevinId = {2}
    MaxEgNow = 1
    MaxChange = 1
    MaxSupNow = 7
SPECIFICATION Spec
CHECK_DEADLOCK FALSE
SYMMETRY Symmetry
INVARIANTS
    LimitsHold
    SettingsAreKept
    RunningIsOwned
    

    
    
