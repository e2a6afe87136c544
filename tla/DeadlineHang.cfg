\* Two goroutines set deadlines while the connection is closed.
CONSTANTS
    s1 = s1
    s2 = s2
    Setters = {s1, s2}
    Calls <- MCCalls
    initialBufferSize = 1
    receiveBufferSize = 1
    sendBufferSize = 1
    ReceiveBytes = 0
    SendBytes = 0
SPECIFICATION FairSpec
CHECK_DEADLOCK FALSE
PROPERTIES
    SetterReturns
