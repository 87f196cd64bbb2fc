SPECIFICATION Spec
CONSTANTS
    d1 = d1
    v1 = v1
    w1 = w1
    w2 = w2
    Items = {d1}
    Services = {v1}
    Sessions = {w1, w2}
    MaxWire = 2
PROPERTIES
    WhitelistIsTheOperators
    AssetsConverge
