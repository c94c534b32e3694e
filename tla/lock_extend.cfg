CONSTANTS
    None = None
    Locks <- TwoLocks
    Threads <- OneEach
    Handle <- OwnHandle
    Delayed <- NoneLate
    TTL = 3
    Extension = 1
    Second = 2
    MaxAttempts = 1
    Resends = 0
SPECIFICATION Spec
PROPERTIES
    ExtendDelivers
