SPECIFICATION StreamSpec
CONSTANTS
    Writers = {w1}
    Size = 2
    MaxPos = 1
    MaxWrites = 2
    MaxChanges = 2
    Ticks = {0, 1}
    NoData = NoData
    HeaderData = {h1, h2}
    Viewers = {v1}
INVARIANTS
    HeaderInv
    OrderedUnderHeader
    KeyframeAfterHeader
PROPERTIES
    CatchesUp
    GetsCurrentHeader
    
CHECK_DEADLOCK FALSE
