CONSTANTS
    Channels = {c1, c2}
    RetryInitial = 1
    RetryMax = 2
SPECIFICATION Spec
INVARIANTS
    BumpInv
PROPERTIES
    BumpReachesYP
    LearnsIP
    StopEnds
CHECK_DEADLOCK FALSE
