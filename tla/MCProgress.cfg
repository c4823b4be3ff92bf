CONSTANTS
    Member = {m1, m2, m3}
    Key = {k1}
    NoMember = NoMember
    NoKey = NoKey
    Recorder = {t1, t2}
    Event = {e1, e2, e3}
    Malformed = {e3}
    QueueCapacity = 2
    BatchSize = 2
SPECIFICATION ProgressSpec
CHECK_DEADLOCK FALSE
INVARIANTS
    QueueIsFaithful
PROPERTIES
    NobodyStarves
    FlushSettlesEarlier
    FlushReturns
