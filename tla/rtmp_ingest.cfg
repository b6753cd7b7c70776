SPECIFICATION IngestSpec
CONSTANTS
    e1 = e1
    e2 = e2
    Encoders = {e1, e2}
    Kinds <- MCKinds
    Ids = {i1}
    MaxChannels = 2
    MaxTags = 1
    Width = 2
    BodyLens = {1}
INVARIANT
    IngestInv
PROPERTIES
    MetaNotLost
    DisconnectStops
CHECK_DEADLOCK FALSE
