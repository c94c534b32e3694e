CONSTANTS
    None = None
    InsecureRefused = TRUE
    Candidates <- Boundaries
SPECIFICATION Spec
INVARIANTS
    ConfigInv
    AcceptedIsStable
    ClientMatchesConf
    GivenTakesEffect
    OnlyDefaultsConflict
