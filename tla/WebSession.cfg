SPECIFICATION WebSpec
CONSTANTS
    adm = adm
    bob = bob
    Users = {adm, bob}
    Admin = adm
    SYSTEM_ADMIN = SYSTEM_ADMIN
    Roles = {SYSTEM_ADMIN}
    r1 = r1
    Rules = {r1}
    w1 = w1
    w2 = w2
    Workers = {w1, w2}
    MaxAttempts = 2
    MaxDisturbances = 2
    MAX_RETRY = 1
    c1 = c1
    c2 = c2
    Calls = {c1, c2}
    NoUser = NoUser
    NoSnapshot = NoSnapshot
    NoToken = NoToken
    NoInfo = NoInfo
    Free = Free
INVARIANT
    SeededOnce
PROPERTIES
    WorkersComeUp
    RefusedSessionEnds
    EnabledUserGetsIn
