SPECIFICATION RedisRetriesSpec
CONSTANTS
    i1 = i1
    i2 = i2
    m1 = m1
    m2 = m2
    m3 = m3
    Instance = {i1, i2}
    Message = {m1, m2}
    Ageing = {m1}
    cacheKey <- MCcacheKey
    Nobody = Nobody
    Orphan = Orphan
    NoMessage = NoMessage
    MaxNew = 2
    Kinds = {"kill", "error"}
    MaxFaults = 2
    RetrySettings <- MCRetrySettings
INVARIANT LostOnlyInFlight
INVARIANT OfferedKeysDistinct
INVARIANT NotMoreOften
PROPERTY EventuallyOffered
