CONSTANTS
    None = None
    a = a
    b = b
    k1 = k1
    k2 = k2
    Callers <- TwoCallers
    Cancellable <- TwoCallers
    Initializers = {}
    Confs <- NoConf
    RawNames = {}
    MaxGen = 2
    CapFires = TRUE
SYMMETRY CallerSymmetry
SPECIFICATION Spec
INVARIANTS
    IInv
    PublishedClientIsOpen
    NoLeakedClient
    NoOrphanCollector
    WaitMeansStopped
    CollectorsUseTheirClient
    PanicOnlyAfterAbandonedWait
    FailuresCounted
PROPERTIES
    StartDelivers
    ImplementsClientHandle
