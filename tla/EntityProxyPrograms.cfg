SPECIFICATION ProxySpec
CONSTANTS
    s1 = s1
    s2 = s2
    owner = owner
    size = size
    body = body
    picture = picture
    Session <- MCSession
    Plain <- MCPlain
    Defaulted <- MCDefaulted
    Lazy <- MCLazy
    Unmapped <- MCUnmapped
    ForeignKey = owner
    Value = {0, 1}
    Default = 0
    Null = Null
    Nothing = Nothing
    MaxCalls = 5
SYMMETRY MCSymmetry
INVARIANTS ProxyTypeOK RelationFitsEntity
PROPERTIES UpdateKeepsTheRest GettersRepeat
CHECK_DEADLOCK FALSE
