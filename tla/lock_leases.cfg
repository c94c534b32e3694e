CONSTANTS
    None = None
    Locks <- TwoLocks
    Threads <- OneEach
    Handle <- OwnHandle
    Delayed <- LateOnly
    TTL = 3
    Extension = 2
    Second = 2
    MaxAttempts = 2
    Resends = 1
SPECIFICATION FairSpec
INVARIANTS
    LeaseInv
    LeaseIsBacked
    MutualExclusion
PROPERTIES
    OnlyOwnerReleases
    UnlockReleases
    ImplementsLease
    ExtendDelivers
    KeyRunsOut
