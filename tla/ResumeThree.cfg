\* Two replacements, of which the server may see both at once.
CONSTANTS
    t1 = t1
    t2 = t2
    t3 = t3
    Transports = {t1, t2, t3}
    First = t1
    sendBufferSize = 2
    receiveBufferSize = 1
    receiveCapacity = 1
    maxFrameSize = 2
    ClientBytes = 1
    ServerBytes = 1
    WriteBound <- MCWriteBound
    Closers = {}
    Cuttable = {}
SYMMETRY Replacements
SPECIFICATION Spec
CHECK_DEADLOCK FALSE
INVARIANTS
    SingleRun
    DataSafe
