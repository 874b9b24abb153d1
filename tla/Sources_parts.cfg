CONSTANTS
    Budget = 2
    MaxRedirects = 2
    MaxSession = 3
    PageSize = 2
    MaxPages = 3
    MaxAlarm = 4
    Target <- SnapshotTarget
    Item = {"energy", "station"}
    Payload = {"part", "day"}
    MaxAttempts = 2
    MaxMade = 2
    MaxRows = 2
    Key = {"yield", "load"}
    Value = {1, 2}
    Reports = 2
    MaxCells = 1
    MaxRaw = 3
    Device = {"meter", "plug"}
    Name = {"desk", "hall"}
    Household <- LocalNames
    LastList = 3
    History <- Exports
    Batch = 2
    MaxRuns = 7
    Month = {1, 2}
    Imported = {"i1", "i2"}
    Collected = {"c"}
    Operation = {"o1", "o2"}
    LastTime = 2
    MaxAge = 1
    Cooldown = 1
    Resource = {"group", "scene"}
    Answer <- GatewayAnswers
    Notice <- GatewayNotices
    ShortLimit = 3
    FragmentSize = 2
    MaxReceived = 4
    MaxMarks = 5
    BufferLimits = {2, 5}
SPECIFICATION Spec
INVARIANTS
    TypeOK
    RenewalIsUsed
    MissedAtMostCleared
    PartsAreIsolated
    ReceiptNamesRow
    ReportsAreWhole
    NamesFollowTheApi
    HistoryIsWhole
    CompactIsWhole
    ReadersAreExact
PROPERTIES
    CallEnds
    PassesFirstOrNever
CHECK_DEADLOCK FALSE
