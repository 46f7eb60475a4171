SPECIFICATION Spec
CONSTANTS
    MaxAddress = 7
    MaxReadQuantity = 4
    MaxBlockSize = 3
    MaxPlanRegisters = 5
    MaxRetryCount = 1
    Options <- MCOptions
    RetryOn <- MCRetryOn
    ContinueOnError = TRUE
INVARIANTS
    RequestsAreWanted
    AnswersTheRequest
    ResultTellsAll
    ReadIsReported
    PlanCoversRange
PROPERTIES
    Ends
CHECK_DEADLOCK FALSE
