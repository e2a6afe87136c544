\* Two holders compete for the one lease of a semaphore.
CONSTANTS
    Holders = {h1, h2}
    MaxLeases = 1
    Expiry = 6
    TickRate = 2
    AcquireTime = 1
    leaseRetryAttempts = 2
SPECIFICATION FairSpec
INVARIANTS
    TypeOK
    HoldersBounded
    HolderHasLease
PROPERTIES
    LossNoticed
