CONSTANTS
    m1 = m1
    m2 = m2
    m3 = m3
    Member = {m1, m2, m3}
    OAuth = {m1, m2}
    Session = {s1}
    Explicit = {s1}
    Order <- MCOrder
    Pools <- MCPools
    Key <- MCKey
    Turn = {t1, t2}
    MaxFailover = 2
    MaxTurns = 3
    Overlap = TRUE
    MaxEntries = 1
    MaxIdle = 10
    MaxSeq = 12
    NoMember = NoMember
    NoKey = NoKey
    NoSession = NoSession
SPECIFICATION PinningSpec
SYMMETRY TurnSymmetry
PROPERTIES
    PinMovesOnlyWhenLost
    SessionFollowsItsAccount
CHECK_DEADLOCK FALSE
