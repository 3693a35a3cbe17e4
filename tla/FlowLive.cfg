SPECIFICATION FairSpec
CONSTANTS
    m1 = m1
    m2 = m2
    Message = {m1, m2}
    RenameAway = {m2}
    RenameHere = {m1}
    NPub = 2
    sameUrl = FALSE
    Options <- Downloads
    batch = 1
    prefetch = 1
    Vip = {TRUE}
    MaxKills = 0
    MaxLosses = 0
    MaxRestarts = 0
INVARIANT Accounted
PROPERTY FlowServes
CHECK_DEADLOCK FALSE
