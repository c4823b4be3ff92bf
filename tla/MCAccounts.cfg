CONSTANTS
    Account = {1}
    Quota <- OneQuota
    Orders <- Unordered
    Pools <- AnyPool
    Task = {t1, t2}
    Instance = {i1, i2}
    Margin = 1
    Never = 9
    Outcomes = {"success", "failure", "benched"}
    Faults = FALSE
    MaxGen = 2
    MaxRuns = 0
    NoAccount = NoAccount
    Owner = {"a"}
    MaxSamples = 2
    SpanSecs = 2
    GrowthFactor = 1
    MaxUnix = 7
    MaxCount = 2
    Minutes = {1, 2}
    Model = {spark, sol}
    Family = {spark}
    MaxSec = 2
    Fresh_ = 0
    Limit = {1}
    MaxUnits = 2
    MaxMonth = 1
    Seat = {1, 2, 3, 4}
    Subscription = {1, 3}
    ApiKeySeat = {2}
    RankEvery = 2
    MaxRankNow = 2
    MAX_SESSIONS = 2
    SESSION_TTL = 1
    MaxBlocks = 2
    MaxWatchNow = 1
    MaxRecords = 3
    MaxNow = 2
    Buffer = 2
    CompactAt = 2
    MaxPops = 1
    Keep = 1
    MaxEvents = 2
    MaxClears = 2
    MaxAliasDepth = 1
    MaxRules = 2
    Embedded = 2
    Version = {1, 3}
    MaxFetch = 2
    MaxOffers = 2
    MaxRequests = 2
    MaxLoads = 2
    HomeNode = {n1, n2}
    Seed = n1
    Invalid = {2}
    Threshold = 1
    MaxRevision = 2
    MaxIssued = 1
    Worker = {"w"}
    StudioModel = {"m"}
    PENDING_LIMIT = 2
    QueueCap = 1
    MaxGeneration = 3
    Space = {s1}
    Environment = {"e"}
    Turn = {"a", "b"}
    MaxTurns = 3
    MaxGroups = 2
    MaxPrefixes = 5
    TtlMs = 2
    Member = {"m1", "m2"}
    MaxTime = 2
    MaxAsked = 3
SPECIFICATION MCSpec
CHECK_DEADLOCK FALSE
SYMMETRY Symmetry
INVARIANTS
    
    SetAsideAndReserved
    

    
