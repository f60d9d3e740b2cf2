SPECIFICATION LazySpec
CONSTANTS
    t1 = t1  t2 = t2  t3 = t3
    WebThread <- MCThread
    Nobody = Nobody
    MaxAsks = 5
    MaxFailures = 1
INVARIANTS
    LazyTypeOK
    EngineShared
PROPERTIES
    WrongOnlyWhileLoading
    MadeOnce
SYMMETRY Symmetry
CHECK_DEADLOCK FALSE
