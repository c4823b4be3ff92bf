CONSTANTS
    m1 = m1
    m2 = m2
    m3 = m3
    Member = {m1, m2, m3}
    Key = {k1, k2}
    Pools <- MCPools
    MaxEntries = 1
    MaxIdle = 1
    MaxSeq = 4
    NoMember = NoMember
    NoKey = NoKey
SPECIFICATION RequestSpec
VIEW WithoutRequest
SYMMETRY KeySymmetry
INVARIANTS
    Consistent
PROPERTIES
    ScopesAreIndependent
    ImplementsSelection
