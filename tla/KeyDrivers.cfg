\* The drivers made from the GPIO template, one after the other.
SPECIFICATION Spec
CONSTANTS
    BUF_LEN = 4
    Key <- MCKey
    Delay = 2
    MaxPing = 3
    MaxLost = 2
    FRAME = 6
    MaxBursts = 3
    MaxMissed = 1
    MaxReading = 2
INVARIANTS
    TrueEcho
    PairsWhole
    PressHeard
    FreshAnswer
PROPERTIES
    RingIsQueue
    SettledReport
    ReadReturns
\* A process may wait for a sensor that says nothing more.
CHECK_DEADLOCK FALSE
