SPECIFICATION Spec
CONSTANTS
    WatchOptions <- MCWatchOptions
    WatchScripts <- MCWatchScripts
    MaxWatchFaults = 1
    ScheduleOptions <- MCScheduleOptions
    MinutesADay = 3
    MaxTime = 18
    default_wait = 4
    Node = {"n1", "n2"}
    PollOptions <- MCPollOptions
    RemoteFile <- MCRemoteFile
    NVersions = 1
    MaxVipMoves = 1
    MaxPollFaults = 1
    AmConn = {"c1", "c2", "c3"}
    AllowIPs = {"c1", "c2"}
    Bulletins <- MCBulletins
    sizeAM = 1
    limit = 4
    MaxAmKills = 1
INVARIANTS NothingMissed NothingTwice
PROPERTY SourcesSettle
CHECK_DEADLOCK FALSE
