CONSTANTS
    Channels = {c1}
    Relayed = {c1}
    Relays = {r1}
    Viewers = {v1}
    Firewalled = {}
    MaxRelays = 1
    MaxListeners = 1
    MaxRelaysTotal = 0
    UpstreamLimited = FALSE
    Nobody = Nobody
    NoChannel = NoChannel
SPECIFICATION Spec
INVARIANTS NothingOutlivesStop
CHECK_DEADLOCK FALSE
