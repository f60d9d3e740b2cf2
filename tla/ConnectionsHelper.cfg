SPECIFICATION Spec
CONSTANTS
    t1 = t1  t2 = t2
    c1 = c1  c2 = c2  c3 = c3  c4 = c4  c5 = c5
    Thread <- Threads
    Conn <- Pool5
    Scopes <- AllScopes
    SpringReady = FALSE
    MaxOps = 3
    MaxFailures = 0
    Free = Free  NoConn = NoConn  NoFrame = NoFrame
INVARIANTS
    TypeOK
    UsesOwn
    PoolSuffices
PROPERTIES
    WritesDecided
SYMMETRY Symmetry5
CHECK_DEADLOCK TRUE
