SPECIFICATION Spec
CONSTANTS
    m1 = m1
    m2 = m2
    Message = {m1, m2}
    RenameAway = {}
    RenameHere = {}
    NPub = 1
    sameUrl = FALSE
    Options <- AllOptions
    batch = 2
    prefetch = 2
    Vip = {TRUE, FALSE}
    MaxKills = 1
    MaxLosses = 1
    MaxRestarts = 1
INVARIANT Accounted
INVARIANT PassEndsClean
INVARIANT PostedOnce
CHECK_DEADLOCK FALSE
