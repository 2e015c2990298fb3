\* The lock leak of the fast path of GetInputEvent.
SPECIFICATION FairSpec
CONSTANTS
    Main = Main
    Free = Free
    Blank = Blank
    remote = remote
    net = net
    key1 = key1
    key2 = key2
    message = message
    Device <- MCDevice
    RegisterOrder <- MCRegisterOrder
    NetDevices <- MCNetDevices
    InputEvent <- MCInputEvent
    Reports <- MCReportsOne
    BUFFER_LEN = 3
PROPERTY
    DataReturns
\* GetInputEvent returns with the mutex held when it finds data at once, and
\* the next call then waits for ever: the program really may stop.
CHECK_DEADLOCK FALSE
