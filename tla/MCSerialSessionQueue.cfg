SPECIFICATION Spec
CONSTANTS
    RequestCapacity = 2
    ByteCapacity = 2
    MaxRequestId = 2
    MaxGeneration = 2
    PayloadSizes = {1}
    Faults <- AllFaults
    ui = ui
    scan = scan
    Callers <- MCCallers
    Calls <- QueueCalls
    NoOne = NoOne
    Worker = Worker
INVARIANTS
    TypeOK
    ExactlyOneResult
    NothingIsLeft
