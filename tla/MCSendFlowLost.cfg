CONSTANTS
    Capacity = 2
    FileChunks = 2
    MaxWrites = 3
    MaxGeneration = 2
    MaxPrompts = 2

SPECIFICATION Spec
CHECK_DEADLOCK FALSE
INVARIANT
    SentIsRecorded
