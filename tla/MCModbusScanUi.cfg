CONSTANTS
    MaxScans = 2
    MaxGeneration = 3
    MaxEvents = 3
    BatchSize = 2

SPECIFICATION FairSpec
CHECK_DEADLOCK FALSE
INVARIANT
    RawEventsOnce
    ResultOnce
PROPERTY
    DisconnectHappens
