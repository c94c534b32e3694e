CONSTANTS
    None = None
    a = a
    b = b
    k1 = k1
    k2 = k2
    Callers <- TwoCallers
    Cancellable <- TwoCallers
    Initializers = {}
    Confs <- NoConf
    RawNames = {}
    MaxGen = 2
    CapFires = FALSE
SYMMETRY CallerSymmetry
SPECIFICATION Spec
INVARIANTS
    NeverPanics
