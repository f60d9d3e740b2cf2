SPECIFICATION FairSpec
CONSTANTS
    t1 = t1  t2 = t2
    c1 = c1  c2 = c2  c3 = c3  c4 = c4  c5 = c5
    Thread <- Threads
    Conn <- Pool2
    Scopes <- ServiceScopes
    SpringReady = TRUE
    MaxOps = 2
    MaxFailures = 1
    Free = Free  NoConn = NoConn  NoFrame = NoFrame
INVARIANTS
    LeaksOnlyByFailure
    OneConnection
PROPERTIES
    EveryRequestEnds
CHECK_DEADLOCK TRUE
