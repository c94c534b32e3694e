CONSTANTS
    None = None
    a = a
    b = b
    k1 = k1
    k2 = k2
    Callers <- TwoCallers
    Cancellable <- NoCaller
    Initializers = {"i"}
    Confs <- TwoConfs
    RawNames = {"redis"}
    MaxGen = 2
    CapFires = FALSE
SYMMETRY CallerSymmetry
SPECIFICATION Spec
INVARIANTS
    OrderlyInv
    NeverPanics
    RegisteredWasPublished
PROPERTIES
    CleanupNilMeansDown
