SPECIFICATION Spec
CONSTANTS
    RequestCapacity = 2
    ByteCapacity = 2
    MaxRequestId = 2
    MaxGeneration = 2
    PayloadSizes = {1}
    Faults <- OrderFaults
    ui = ui
    scan = scan
    Callers <- MCCallers
    Calls <- OrderCalls
    NoOne = NoOne
    Worker = Worker
INVARIANTS
    WrittenOnceInOrder
    PortIsCurrent
PROPERTIES
    NoLateWrite
    FaultHasCause
    ImplementsLedger
