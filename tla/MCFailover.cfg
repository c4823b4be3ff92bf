CONSTANTS
    m1 = m1
    m2 = m2
    m3 = m3
    Member = {m1, m2, m3}
    Claude = {m2}
    Request = {r1}
    RetryLimit <- OneRetries
    MaxFailover = 2
    MaxCredentials = 0
    RefreshEnabled = TRUE
    Home = FALSE
    MaxTries = 9
    NoMember = NoMember
SPECIFICATION Spec
INVARIANTS
    RepetitionIsBounded
PROPERTIES
    NoEarlyGiveUp
    EveryRequestIsAnswered
