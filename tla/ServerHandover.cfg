\* A graceful restart: transports come and go, the old process may crash, the new one
\* cleans up after it.
CONSTANTS
    old = old
    new = new
    c1 = c1
    a1 = a1
    a2 = a2
    Processes = {old, new}
    Conns = {c1}
    Attempts = {a1, a2}
    Hosts = {"h1", "h2"}
    Addresses <- MCAddresses
    Crashable = {old}
    Cleaners = {new}
SPECIFICATION FairSpec
CHECK_DEADLOCK FALSE
INVARIANTS
    TypeOK
    AddressDecides
    GraceTimer
    CleanupComplete
PROPERTIES
    NotFoundMeansGone
    IdleExpires
    Forgotten
