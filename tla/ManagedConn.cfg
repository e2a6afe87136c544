\* Two goroutines that set deadlines, a reader, a writer and a transport.
CONSTANTS
    s1 = s1
    s2 = s2
    Setters = {s1, s2}
    Calls <- MCCalls
    initialBufferSize = 1
    receiveBufferSize = 2
    sendBufferSize = 1
    ReceiveBytes = 3
    SendBytes = 2
SPECIFICATION FairSpec
CHECK_DEADLOCK FALSE
INVARIANTS
    TypeOK
    TimeoutOnlyWhenDue
    NoMissedWakeup
    StreamInOrder
    WaitsForCallback
PROPERTIES
    ReadUnblocked
