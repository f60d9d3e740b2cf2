SPECIFICATION Spec
CONSTANTS
    MaxNode = 6
    MaxRequests = 2
    Settings <- AllTrees
INVARIANTS
    DataKept
    PageShowsData
    ChecksAgree
    EditsEnd
CHECK_DEADLOCK FALSE
