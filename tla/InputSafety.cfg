\* The ring, its lock discipline and the queue it implements.
SPECIFICATION Spec
CONSTANTS
    Main = Main
    Free = Free
    Blank = Blank
    remote = remote
    net = net
    key1 = key1
    key2 = key2
    message = message
    Device <- MCDevice
    RegisterOrder <- MCRegisterOrder
    NetDevices <- MCNetDevices
    InputEvent <- MCInputEvent
    Reports <- MCReports
    BUFFER_LEN = 3
INVARIANTS
    TypeOK
    LockDiscipline
    NoDataRace
    SignalMeansData
    IInv
PROPERTY ImplementsQueue
\* GetInputEvent returns with the mutex held when it finds data at once, and
\* the next call then waits for ever: the program really may stop.
CHECK_DEADLOCK FALSE
