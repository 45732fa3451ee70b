SPECIFICATION FollowSpec
CONSTANTS
    a = a
    b = b
    Node = {a, b}
    RecordLen <- MCRecordLen
    MaxOps = 6
    MaxTurns = 2
    MaxSteps = 0
    MaxResumes = 1
    MaxFaults = 1
    MaxNodeCrashes = 1
    MaxAppendErrors = 1
    MaxRebuilds = 1
SYMMETRY Symmetry
CHECK_DEADLOCK FALSE

    
PROPERTIES
    
    NoFoldAfterTruncation
