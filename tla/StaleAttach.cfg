\* A transport the client has given up on is attached late by the server.
CONSTANTS
    t1 = t1
    t2 = t2
    t3 = t3
    Transports = {t1, t2, t3}
    First = t1
    sendBufferSize = 2
    receiveBufferSize = 1
    receiveCapacity = 1
    maxFrameSize = 2
    ClientBytes = 0
    ServerBytes = 1
    WriteBound <- MCWriteBound
    Closers = {}
    Cuttable = {t2, t3}
SYMMETRY Replacements
SPECIFICATION Spec
CHECK_DEADLOCK FALSE
INVARIANTS
    UnbrokenStream
