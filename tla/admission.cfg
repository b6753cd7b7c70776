CONSTANTS
    Channels = {c1}
    Relayed = {c1}
    Relays = {r1, r2, r3}
    Viewers = {v1, v2}
    Firewalled = {r1, r2}
    MaxRelays = 1
    MaxListeners = 1
    MaxRelaysTotal = 0
    UpstreamLimited = TRUE
    Nobody = Nobody
    NoChannel = NoChannel
SPECIFICATION Spec
SYMMETRY Symmetry
INVARIANT AccountingInv
CHECK_DEADLOCK FALSE
