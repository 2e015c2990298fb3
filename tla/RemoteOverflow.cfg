\* A press that comes long after the last one and is not reported.
SPECIFICATION Spec
CONSTANTS
    INTERVAL = 3125
    WIDTH <- MCWidth
    Pauses <- MCPauses
    FirstTimes <- MCFirstTimes
    MaxStale = 3
PROPERTY
    PressReported
