SPECIFICATION WalkAndPagerSpec
CONSTANTS
    r1 = r1  r2 = r2  r3 = r3  r4 = r4  r5 = r5
    n1 = n1  n2 = n2
    MaxInt = 127
    Row <- Rows7
    Start <- Start5
    RowsPerPage = 2
    Dialect = "mysql"
    Swallows = FALSE
    MaxFailures = 0
    PageNos <- AllPageNos
    RowsPerPages <- SomeRowsPerPages
    TotalRows <- SomeTotals
    MaxShow = 6
PROPERTIES
    PageStartsAtFirstRow
CHECK_DEADLOCK FALSE
