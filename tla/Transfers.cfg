SPECIFICATION Spec
CONSTANTS
    Inst = {1, 2}
    DownloadOptions <- MCDownloadOptions
    attempts = 2
    NIno = 4
    MaxDownFaults = 1
    SenderOptions <- MCSenderOptions
    EventLists <- MCEventLists
    sendAttempts = 2
    MaxSenderFaults = 2
    MirrorOptions <- MCMirrorOptions
    MirrorEvents <- MCMirrorEvents
    MaxMirrorFaults = 2
    Assembler = {1, 2}
    BlockOptions <- MCBlockOptions
    MaxBlockFaults = 1
    ConnOptions <- MCConnOptions
    Server = {"A", "B"}
    RemoteDir = {"x", "y"}
    MaxFiles = 4
    MaxConnFaults = 1
INVARIANTS WholeFiles TreesRight AnnouncedIsDone ConnectionRight GapIsOwed
PROPERTY TransfersEnd
CHECK_DEADLOCK FALSE
