SPECIFICATION MCSpec
CONSTANTS
    t1 = t1
    Account = {1, 2}
    Task = {t1}
    Instance = {}
    Quota <- Varied
    Margin = 1
    Never = 9
    Orders <- Manual
    Pools <- Smaller
    Outcomes = {"success","failure","benched"}
    Faults = TRUE
    MaxGen = 2
    MaxRuns = 1
    NoAccount = NoAccount
INVARIANTS SelectedIsRecovered FileIsLatest
PROPERTIES SwitchesForAReason
CHECK_DEADLOCK FALSE
