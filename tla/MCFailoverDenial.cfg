CONSTANTS
    m1 = m1
    m2 = m2
    m3 = m3
    Member = {m1, m2, m3}
    Claude = {m1, m2}
    Request = {r1}
    RetryLimit <- NoRounds
    MaxFailover = 2
    MaxCredentials = 0
    RefreshEnabled = TRUE
    Home = FALSE
    MaxTries = 9
    NoMember = NoMember
SPECIFICATION Spec
INVARIANTS
    DenialEndsTheRequest
