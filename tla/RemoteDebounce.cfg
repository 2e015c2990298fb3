\* The debounce of the remote control, across the overflow of its clock.
SPECIFICATION Spec
CONSTANTS
    INTERVAL = 3125
    WIDTH <- MCWidth
    Pauses <- MCPauses
    FirstTimes <- MCFirstTimes
    MaxStale = 3
INVARIANT TypeOK
PROPERTIES
    Debounced
    DroppedOnce
