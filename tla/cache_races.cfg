CONSTANTS
    Callers = {"c1"}
    Deleters = {"d1"}
    Keys = {"k1", "k2"}
    None = None
    Junk = Junk
    TTL = 2
    Delay = 1
    MaxRetries = 2
    MaxLate = 1
    Nodes = {"n1"}
    NodeOf <- OneServer
SPECIFICATION FairSpec
INVARIANTS
    CacheInv
    DeleteIsComplete
PROPERTIES
    HitIsFresh
    EventuallyCurrent
