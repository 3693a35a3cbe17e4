SPECIFICATION FairSpec
CONSTANTS
    m1 = m1
    m2 = m2
    m3 = m3
    Message = {m1, m2, m3}
    cacheKey <- MCcacheKey
    pubTime <- MCpubTime
    retry_ttl = 1
    Frag = Frag
    Junk = Junk
    Faults = {"torn", "io"}
    MaxClock = 2
    MaxBatch = 2
    MaxNew = 2
    MaxEnds = 1
INVARIANT CountCovers
PROPERTY IntervalsServe
