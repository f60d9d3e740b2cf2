SPECIFICATION WalkAndPagerSpec
CONSTANTS
    r1 = r1  r2 = r2  r3 = r3  r4 = r4  r5 = r5
    n1 = n1  n2 = n2
    MaxInt = 15
    Row <- Rows6
    Start <- Start4
    RowsPerPage = 2
    Dialect = "sqlserver"
    Swallows = FALSE
    MaxFailures = 1
    PageNos <- AllPageNos
    RowsPerPages <- SomeRowsPerPages
    TotalRows <- SomeTotals
    MaxShow = 6
INVARIANTS
    TypeOK
    NothingTwice
    SkippedOnlyPastCount
    PagesPartition
    WindowShowsPage
PROPERTIES
    WalkEnds
CHECK_DEADLOCK FALSE
