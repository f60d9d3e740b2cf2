SPECIFICATION Spec
CONSTANTS
    t1 = t1
    t2 = t2
    v1 = v1
    v2 = v2
    Thread <- Threads
    Transactional <- Threads
    DbType = "ORACLE"
    Sequenced = TRUE
    IdColumns <- SimpleColumns
    IdValue <- SimpleValues
    Value = {v1}
    Blobs = {"PHOTO"}
    Clobs = {"TEXT"}
    Null = Null
    Empty = Empty
    NoRow = NoRow
    Placeholder = Placeholder
    NoWrite = NoWrite
    Ids <- SimpleIds
    None = None
    ReadIds = TRUE
    MaxCalls = 3
INVARIANTS
    TypeOK
    FreshIds
PROPERTIES
    ImplementsStore
SYMMETRY ThreadSymmetry
CHECK_DEADLOCK FALSE
