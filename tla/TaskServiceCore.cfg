SPECIFICATION Spec
CONSTANTS
    t1 = t1
    t2 = t2
    s1 = s1
    s2 = s2
    k1 = k1
    Tasks = {t1}
    Servers = {s1, s2}
    MaxAttemptsCap = 2
    Timeouts = {2}
    Actions = {"STATUS", "RESTART"}
    Schedules = {"ONCE", "CRON"}
    Whitelisted = {s1, s2}
    Keys = {}
    NoKey = NoKey
    CronDelays = {1}
    FetchLimit = 2
    DispatchLimit = 2
    TASK_CLEANUP_ENABLED = TRUE
    TASK_RETENTION = 5
    BACKOFF_SECONDS <- MCBackoff
    Reports <- MCReports
SYMMETRY Symmetry
INVARIANTS
    TypeOK
    StatusMatchesWork
    RetryChain
    ConfirmedBeforeRun
    CancelSparesOnlyBegunWork
    FinalStatusCountsEveryTarget
    ReferentialIntegrity
PROPERTIES
    FinishedStaysFinished
    RetryOnlyInBudget
