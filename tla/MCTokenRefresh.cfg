SPECIFICATION Spec
CONSTANTS
    t1 = t1
    t2 = t2
    o1 = o1
    o2 = o2
    o3 = o3
    Task = {t1, t2}
    Poll = {}
    Warmup = {}
    Object = {o1, o2, o3}
    Storage = TRUE
    MaxGrant = 3
    MaxRev = 2
    NoObject = NoObject
VIEW Reachable
SYMMETRY Symmetry
INVARIANTS GrantsAreSpentOnce SpentGrantIsReplaced EditsSurvive
