SPECIFICATION FairSpec
CONSTANTS
    MaxOps = 1
    MaxScopes = 2
    MaxCrashes = 1
    MaxFails = 1
    MaxArchives = 1
    MaxPasses = 1
    MaxRestores = 1
    RecordLen <- MCRecordLen
PROPERTY ImplementsDurableLog
PROPERTY MarkerConverges
CHECK_DEADLOCK FALSE
