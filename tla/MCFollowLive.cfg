SPECIFICATION FollowFairSpec
CONSTANTS
    a = a
    b = b
    Node = {a, b}
    RecordLen <- MCRecordLen
    MaxOps = 5
    MaxTurns = 1
    MaxSteps = 2
    MaxResumes = 1
    MaxFaults = 2
    MaxNodeCrashes = 1
    MaxAppendErrors = 1
    MaxRebuilds = 1
CHECK_DEADLOCK FALSE
PROPERTIES
    FollowersCatchUp
