CONSTANTS
    None = None
    Members <- ThreeMembers
    Clients <- TwoClients
    Limit = 2
    Window = 4
    UsageWindows = {4, 5}
    Behind = 1
    Ahead = 1
    Oldest = 6
    Resends = 1
SPECIFICATION FairSpec
INVARIANTS
    LimiterInv
    WindowLimit
PROPERTIES
    ImplementsSlidingWindow
    NeverTooStrict
    SetRunsOut
