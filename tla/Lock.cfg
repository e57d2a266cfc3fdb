SPECIFICATION FairSpec
CONSTANTS
    Clients    = {c1, c2}
    TTL        = 2
    MaxRetries = 2
    Spare      = 1
    None       = None
CHECK_DEADLOCK FALSE
INVARIANTS
    TypeOK
    ExclusiveWithinLease
    LeaseIsKept
PROPERTIES
    IsALease
    AcquireReturns
    LockIsFreed
