SPECIFICATION FairSpec
CONSTANTS
    N = 2
    Kind <- MCKind
    MaxConcurrency = 1
    InitialLaunchLimit = 1
    HasTimeout = TRUE
    MaxRetries <- MCMaxRetries
    MaxCapacity = 0
PROPERTIES
    CancelReturns
    QueuedMemberMoves
