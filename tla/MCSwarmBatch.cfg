SPECIFICATION Spec
CONSTANTS
    N = 3
    Kind <- MCKind
    MaxConcurrency = 2
    InitialLaunchLimit = 1
    HasTimeout = FALSE
    MaxRetries <- MCMaxRetries
    MaxCapacity = 2
INVARIANTS
    VerdictMatchesHistory
    MembersAccounted
    SlotLimit
    RowFollowsMember
PROPERTIES
    VerdictWrittenOnce
    RequeueNeedsCompany
