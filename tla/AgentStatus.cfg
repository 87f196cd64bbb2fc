SPECIFICATION Spec
CONSTANTS
    s1 = s1
    s2 = s2
    a1 = a1
    a2 = a2
    w1 = w1
    w2 = w2
    Servers = {s1, s2}
    Addresses = {a1, a2}
    Sessions = {w1}
    OnlineWithin = 1
    WarningWithin = 2
INVARIANTS
    TypeOK
PROPERTIES
    BeatInTimeShowsOnline
    DeadAgentGoesOffline
    LiveAgentComesOnline
