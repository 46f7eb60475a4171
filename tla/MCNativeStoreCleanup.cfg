SPECIFICATION Spec
CONSTANTS
    Absent = Absent
    Raw = "raw_io_events"
    History = "send_history"
    Group <- MCGroup
    Counters = "id_counters"
    SoftLimit = 1
    Calls <- SaveAndAppend
    MaxId = 2
    MaxCrashes = 1
    MaxFaults = 1
    FaultPoints <- CleanupRemoval
INVARIANTS
    Recoverable
