SPECIFICATION FairSpec
CONSTANTS
    t1 = t1
    t2 = t2
    v1 = v1
    v2 = v2
    Thread <- Threads
    Transactional <- JustT1
    DbType = "SQLSERVER"
    Sequenced = FALSE
    IdColumns <- PairColumns
    IdValue <- PairValues
    Value = {v1}
    Blobs = {}
    Clobs = {"TEXT"}
    Null = Null
    Empty = Empty
    NoRow = NoRow
    Placeholder = Placeholder
    NoWrite = NoWrite
    Ids <- FullIds
    None = None
    ReadIds = FALSE
    MaxCalls = 3
PROPERTIES
    EveryCallEnds
    TornOnlyByFailure
    OneRowPerOperation
CHECK_DEADLOCK FALSE
