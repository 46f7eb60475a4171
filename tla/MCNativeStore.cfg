SPECIFICATION Spec
CONSTANTS
    Absent = Absent
    Raw = "raw_io_events"
    History = "send_history"
    Group <- MCGroup
    Counters = "id_counters"
    SoftLimit = 1
    Calls <- AllCalls
    MaxId = 4
    MaxCrashes = 2
    MaxFaults = 2
    FaultPoints <- AnyBeforeCompletion
INVARIANTS
    DiskIsSound
    IdsAreFresh
PROPERTIES
    ImplementsAtomicStore
