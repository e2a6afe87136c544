\* A replaced transport, a server that writes and closes, a client that may not read.
CONSTANTS
    t1 = t1
    t2 = t2
    Transports = {t1, t2}
    First = t1
    sendBufferSize = 2
    receiveBufferSize = 1
    receiveCapacity = 1
    maxFrameSize = 2
    ClientBytes = 0
    ServerBytes = 2
    WriteBound <- MCWriteBound
    Closers = {"server"}
    Cuttable = {}
SPECIFICATION FairSpec
CHECK_DEADLOCK FALSE
PROPERTIES
    DetachCompletes
    WaiterProceeds
    EventuallyReceived
    CloseReaches
