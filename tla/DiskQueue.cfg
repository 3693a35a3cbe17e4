SPECIFICATION Spec
CONSTANTS
    m1 = m1
    m2 = m2
    m3 = m3
    Message = {m1, m2, m3}
    cacheKey <- MCcacheKey
    pubTime <- MCpubTime
    retry_ttl = 1
    Frag = Frag
    Junk = Junk
    Faults = {}
    MaxClock = 3
    MaxBatch = 2
    MaxNew = 3
    MaxEnds = 2
INVARIANT TypeOK
INVARIANT OwedOnDisk
INVARIANT QueueFileRight
PROPERTY ImplementsRetryQueue
