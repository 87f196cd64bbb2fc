SPECIFICATION Spec
CONSTANTS
    py = py
    go = go
    r1 = r1
    NoKey = NoKey
    Agents = {py, go}
    GoAgents = {go}
    Requests = {r1}
    MAX_SKEW = 1
    RetryMaxCount = 2
INVARIANTS
    TypeOK
    ReplayedWasAdmitted
PROPERTIES
    DeliversAtMostOnce
