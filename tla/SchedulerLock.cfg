SPECIFICATION FairSpec
CONSTANTS
    w1 = w1
    w2 = w2
    w3 = w3
    Workers = {w1, w2, w3}
    Free = Free
    INTERVAL = 2
    TTL = 3
    MaxRun = 4
    SCHEDULER_LOCK_ENABLED = TRUE
    StartsPaused = FALSE
INVARIANTS
    TypeOK
    FreshRunHoldsLock
    OneAtATime
PROPERTIES
    JobKeepsRunning
