SPECIFICATION FairSpec
CONSTANTS
    RequestCapacity = 2
    ByteCapacity = 2
    MaxRequestId = 2
    MaxGeneration = 1
    PayloadSizes = {1}
    Faults <- LiveFaults
    ui = ui
    scan = scan
    Callers <- MCCallers
    Calls <- LiveCalls
    NoOne = NoOne
    Worker = Worker
PROPERTIES
    AcceptedIsAnswered
    CallsReturn
    CloseAnswersAll
