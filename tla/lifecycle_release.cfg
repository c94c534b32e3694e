CONSTANTS
    None = None
    a = a
    b = b
    k1 = k1
    k2 = k2
    Callers <- OneCaller
    Cancellable <- OneCaller
    Initializers = {}
    Confs <- NoConf
    RawNames = {}
    MaxGen = 2
    CapFires = FALSE
SPECIFICATION FairSpec
PROPERTIES
    CollectorsStop
    ImplementsFairClientHandle
    CleanupDelivers
