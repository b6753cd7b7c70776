CONSTANTS
    i1 = i1
    k1 = k1
    Ids = {i1}
    Keys = {k1}
    IdsOf <- MCIdsOf
    Broadcasts = {b1}
    Relayed = {r1}
    Viewers = {v1}
    Callers = {q1}
    Encoders = {e1}
    Cleaner = Cleaner
    Main = Main
    NoId = NoId
    NoKey = NoKey
    NoChannel = NoChannel
SPECIFICATION Spec
INVARIANTS
    RegistryInv
    ActiveKeyCanBeStopped
    RunningClientIsReachable
PROPERTIES
    StopReturns
    IdleRelayGoes
CHECK_DEADLOCK FALSE
