SPECIFICATION TxSpec
CONSTANTS
    t1 = t1
    t2 = t2
    s1 = s1
    s2 = s2
    k1 = k1
    w1 = w1
    w2 = w2
    Tasks = {t1}
    Servers = {s1, s2}
    MaxAttemptsCap = 2
    Timeouts = {1}
    Actions = {"RESTART"}
    Schedules = {"ONCE", "CRON"}
    Whitelisted = {s1, s2}
    Keys = {}
    NoKey = NoKey
    CronDelays = {1}
    FetchLimit = 2
    DispatchLimit = 2
    TASK_CLEANUP_ENABLED = FALSE
    TASK_RETENTION = 0
    Sessions = {w1, w2}
    BACKOFF_SECONDS <- MCBackoff
    Reports <- MCReports
SYMMETRY Symmetry
INVARIANTS
    AllSuccessIsSuccess
