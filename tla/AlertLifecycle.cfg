SPECIFICATION FairSpec
CONSTANTS
    r1 = r1
    s1 = s1
    Rules = {r1}
    Servers = {s1}
    Metrics = {"LOAD"}
    Cores <- MCCores
    RuleInputs <- MCRules
    Values = {0, 1, 2, 3}
    None = None
    MaxEvents = 3
    AgeCap = 2
INVARIANTS
    TypeOK
    OneActivePerKey
PROPERTIES
    ResolvedStaysResolved
    FiringNeedsSteadyViolation
    AlertEnds
    PendingFires
