SPECIFICATION Spec
CONSTANTS
    Layouts <- MCLayouts
    Poster = {"a", "b"}
    IdOptions <- MCIdOptions
    NUnits = 5
    bufSize = 2
    MaxWrites = 2
    MaxPosts = 2
    MaxIdFaults = 1
    NoValue = NoValue
    Encoded = {"p%23"}
    Included <- MCIncluded
    Variable = Variable
    PluginKind <- MCPluginKind
    Sites <- MCSites
    Urls <- MCUrls
    MaxLookups = 2
INVARIANTS
    PlacesRight
    ContentsRight
    AsWritten
    UnderstoodAlike
CHECK_DEADLOCK FALSE
