SPECIFICATION Spec
CONSTANTS
    DayLength = 2
    RETENTION = 2
    AGG_RETENTION = 2
    MAX_TIME_SKEW = 1
    Bucket = 2
    Lookback = 4
    MaxTime = 6
    MaxWire = 1
    MaxReboots = 1
    NoValue = NoValue
    Absent = Absent
INVARIANTS
    RetentionKept
    UnsplitDayIsWhole
    SummaryNeverOverstates
CHECK_DEADLOCK FALSE
