SPECIFICATION Spec
CONSTANTS
    Sources = {s1}
    Relays = {r1}
    Fields = {"info"}
    Size = 2
    Width = 5
    Lengths = {2}
    MaxBodyLen = 1
    HeaderLen = 1
    HeaderPos = {0}
    BodyPos = {0, 2, 3}
    MaxWrites = 2
    HeaderSets = 1
    FieldSets = 1
    MaxConns = 1
    MaxSets <- MCMaxSets
INVARIANTS
    UpdateInv
    NothingTwice
    NothingSkipped
PROPERTIES
    CatchesUp
    GetsCurrent
    
CHECK_DEADLOCK FALSE
