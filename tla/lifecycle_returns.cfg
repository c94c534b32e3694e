CONSTANTS
    None = None
    a = a
    b = b
    k1 = k1
    k2 = k2
    Callers <- TwoCallers
    Cancellable <- TwoCallers
    Initializers = {}
    Confs <- NoConf
    RawNames = {}
    MaxGen = 1
    CapFires = TRUE
SPECIFICATION FairSpec
PROPERTIES
    EveryCallReturns
