CONSTANTS
    Channels = {c1, c2}
    Relayed = {c1}
    Relays = {r1, r2}
    Viewers = {}
    Firewalled = {r1}
    MaxRelays = 1
    MaxListeners = 1
    MaxRelaysTotal = 1
    UpstreamLimited = FALSE
    Nobody = Nobody
    NoChannel = NoChannel
SPECIFICATION Spec
INVARIANT WithinTotal
PROPERTIES EveryoneIsAnswered 
CHECK_DEADLOCK FALSE
