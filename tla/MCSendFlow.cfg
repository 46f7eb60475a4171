CONSTANTS
    Capacity = 2
    FileChunks = 2
    MaxWrites = 3
    MaxGeneration = 2
    MaxPrompts = 2

SPECIFICATION FairSpec
CHECK_DEADLOCK FALSE
INVARIANT
    SentIsPublishedOnce
    PendingIsOwed
    FileHasThePort
PROPERTY
    FileEnds
