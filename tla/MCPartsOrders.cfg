SPECIFICATION PartsSpec
CONSTANTS
    RequestCapacity = 2
    ByteCapacity = 3
    MaxRequestId = 3
    MaxGeneration = 2
    PayloadSizes <- MCPayloadSizes
    TimeoutValues <- MCTimeoutValues
    Absent = Absent
    NoDir = NoDir
INVARIANT
    EveryOrderIsVerified
CHECK_DEADLOCK FALSE
