\* Three calls compete for a lock.
CONSTANTS
    Calls = {c1, c2, c3}
    TTL = 2
    RefreshLockInterval = 1
SPECIFICATION FairSpec
INVARIANTS
    LockHeld
PROPERTIES
    OnlyOwnerReleases
    LossStopsFn
    LockFreed
