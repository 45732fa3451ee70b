\* One command of either kind, two calls, one restart.
SPECIFICATION FairSpec
CONSTANTS
    b1 = b1
    f1 = f1
    c1 = c1
    Background = {b1}
    Foreground = {f1}
    Callers = {c1}
    MaxRunningTasks = 1
    MaxStarts = 1
    MaxCalls = 2
    MaxRestarts = 1
INVARIANT OneTermination
 
