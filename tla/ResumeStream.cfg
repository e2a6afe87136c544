\* One replacement of the transport; a stream longer than the receive buffer.
CONSTANTS
    t1 = t1
    t2 = t2
    Transports = {t1, t2}
    First = t1
    sendBufferSize = 2
    receiveBufferSize = 1
    receiveCapacity = 1
    maxFrameSize = 2
    ClientBytes = 0
    ServerBytes = 2
    WriteBound <- MCWriteBound
    Closers = {"client", "server"}
    Cuttable = {t1, t2}
SPECIFICATION Spec
CHECK_DEADLOCK FALSE
INVARIANTS
    TypeOK
    StreamIntact
    ReplayCovers
    CleanCloseComplete
    NoProtocolError
PROPERTIES
    ImplementsStream
