SPECIFICATION FairSpec
CONSTANTS
    t1 = t1
    t2 = t2
    u1 = u1
    u2 = u2
    None = None
    Tasks = {t1}
    UserMsgs = {u1, u2}
    MaxSteps = 1
    MaxFaults = 2
    MaxCrashes = 1
    MaxAborts = 1
    MaxDefers = 1
    MaxUndos = 1
    MaxCompactions = 1
CHECK_DEADLOCK FALSE

    
    
    
PROPERTIES
    DebtSettles
