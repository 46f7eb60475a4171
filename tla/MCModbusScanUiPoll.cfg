CONSTANTS
    MaxScans = 2
    MaxGeneration = 2
    MaxEvents = 3
    BatchSize = 2

SPECIFICATION Spec
CHECK_DEADLOCK FALSE
INVARIANT
    OpenIsPolled
