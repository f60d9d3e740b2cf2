SPECIFICATION Spec
CONSTANTS
    t1 = t1  t2 = t2
    k1 = k1  k2 = k2  k3 = k3
    v1 = v1  v2 = v2
    Thread <- Threads
    Key <- Keys
    Value = {v1}
    Null = Null
    KeyList = TRUE
    MaxFaults = 2
INVARIANTS
    TypeOK
PROPERTIES
    OrphansNeedOverlap
    PhantomsNeedOverlap
    ClearEmpties
SYMMETRY Symmetry
CHECK_DEADLOCK TRUE
