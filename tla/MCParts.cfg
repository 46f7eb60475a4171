SPECIFICATION PartsSpec
CONSTANTS
    RequestCapacity = 2
    ByteCapacity = 3
    MaxRequestId = 3
    MaxGeneration = 2
    PayloadSizes <- MCPayloadSizes
    TimeoutValues <- MCTimeoutValues
    Absent = Absent
    NoDir = NoDir
INVARIANT
    ExactlyOneResult
    FirstInFirstOut
    WithinLimits
    OneGeneration
    SequenceKeepsItsPromises
    LogShowsWhatCame
    QueriesAreFresh
    WholeRecordsAreReadBack
    BundleIsWholeAndMine
    BestExplanations
    VerifiedReadsAsCandidate
    HistorySendsAgain
PROPERTY
    ResultTellsEffect
CHECK_DEADLOCK FALSE
