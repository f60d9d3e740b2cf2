SPECIFICATION Spec
CONSTANTS
    t1 = t1
    t2 = t2
    v1 = v1
    v2 = v2
    Thread <- Threads
    Transactional <- Threads
    DbType = "MYSQL"
    Sequenced = FALSE
    IdColumns <- PairColumns
    IdValue <- PairValues
    Value = {v1, v2}
    Blobs = {}
    Clobs = {"TEXT"}
    Null = Null
    Empty = Empty
    NoRow = NoRow
    Placeholder = Placeholder
    NoWrite = NoWrite
    Ids <- PartialIds
    None = None
    ReadIds = TRUE
    MaxCalls = 3
INVARIANTS
    NullKeyColumnRefused
CHECK_DEADLOCK FALSE
