SPECIFICATION Spec
CONSTANTS
    MaxOps = 3
    MaxScopes = 3
    MaxCrashes = 2
    MaxFails = 1
    MaxArchives = 0
    MaxPasses = 0
    MaxRestores = 0
    RecordLen <- MCRecordLen
INVARIANT AckedSurvive
INVARIANT RecordedOrder
INVARIANT SnapshotIsPrefix
CHECK_DEADLOCK FALSE
