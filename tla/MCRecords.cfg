CONSTANTS
    Lane = {l1}
    Version = {v1}
    MaxRow = 3
    MaxTime = 2
    TokenLimit = 2
    MaxCap = 2
    Retention = 1
    SizeCap = 2
    ChunkSize = 1
    PageLimit = 1
    Actor = {s1, s2}
    Session = {s1, s2}
    PinAccount = {a1}
    NoPin = NoPin
    MaxBindings = 1
    Ttl = 1
    MaxLag = 1
    MaxStamp = 2
    WriteFaults = TRUE
    Arguments = {g1, g2}
    Weight = {1, 2}
    MaxEntries = 2
    MaxBytes = 3
    SnapshotEntries = 2
    TTL = 1
    MaxWrites = 2
    Holder = {h1, h2}
    WsAccount = {"b"}
    WsModel = {"m", "n"}
    Narrow = {"b"}
    Common = "m"
    Gate = 2
    MaxTurn = 2
SPECIFICATION Spec
CHECK_DEADLOCK FALSE
SYMMETRY Symmetry
INVARIANTS
    HistoryIsKept
    
    PinsAreKept
PROPERTIES
    NothingGoesEarly
