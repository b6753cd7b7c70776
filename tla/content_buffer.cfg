SPECIFICATION Spec
CONSTANTS
    Writers = {w1, w2}
    Size = 2
    MaxPos = 3
    MaxWrites = 4
    Ticks = {0, 1}
    NoData = NoData
    HeaderData = {h1, h2}
INVARIANTS
    TypeOK
    ReadsAreExact
PROPERTY ImplementsLog
