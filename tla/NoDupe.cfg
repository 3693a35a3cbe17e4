SPECIFICATION SuppressionSpec
CONSTANTS
    m1 = m1
    m2 = m2
    m3 = m3
    Message = {m1, m2, m3}
    entry <- MCentry
    Young = {m3}
    Aged = {m1}
    nodupe_ttl = 1
    Instance = {i1, i2}
    Nothing = Nothing
    MaxClock = 2
    MaxEnds = 1
INVARIANT DurableBeforeWork
INVARIANT DuplicateOfSomething
PROPERTY SuppressedWithinTtl
PROPERTY OnceWhileItKeepsComing
CHECK_DEADLOCK FALSE
