CONSTANTS
    None = None
    Locks <- TwoLocks
    Threads <- SharedBy
    Handle <- SharedHandle
    Delayed <- NoneLate
    TTL = 2
    Extension = 2
    Second = 2
    MaxAttempts = 1
    Resends = 0
SPECIFICATION Spec
INVARIANTS
    MutualExclusion
