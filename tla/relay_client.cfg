CONSTANTS
    t = t
    a = a
    b = b
    s1 = s1
    s2 = s2
    Addrs = {t, a, b}
    Tracker = t
    Sessions = {s1, s2}
    Announcements <- MCAnnouncements
    NoAddr = NoAddr
    NoNode = NoNode
    NoReport = NoReport
    Garbled = Garbled
    MaxAudience = 1
SPECIFICATION Spec
INVARIANTS
    DialInv
PROPERTIES
    GivesUpAfterTracker
    StopEnds
    UpstreamLearnsAudience
