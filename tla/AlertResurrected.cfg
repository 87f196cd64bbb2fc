SPECIFICATION TxSpec
CONSTANTS
    r1 = r1
    s1 = s1
    w1 = w1
    w2 = w2
    Rules = {r1}
    Servers = {s1}
    Metrics = {"CPU"}
    Cores <- MCCores
    RuleInputs <- MCRules
    Values = {0, 2}
    None = None
    MaxEvents = 2
    AgeCap = 1
    Sessions = {w1, w2}
SYMMETRY Symmetry
PROPERTIES
    ResolvedIsFinal
