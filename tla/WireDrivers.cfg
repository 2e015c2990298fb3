\* The infrared receiver with two bits to a byte, and the thermometers.
SPECIFICATION Spec
CONSTANTS
    BITS = 2
    SLOTS = 4
    Codes <- MCCodes
    MaxBursts = 3
    MaxDamage = 2
    Users <- MCUsers
    Settings <- MCSettings
    Noises <- MCNoises
    MaxStarts = 2
INVARIANTS
    CodesWereSent
    FrameHeard
    OwnConversionHolds
    TrueTemperatureHolds
\* The light goes out and the processes stop: the models end at their bounds.
CHECK_DEADLOCK FALSE
