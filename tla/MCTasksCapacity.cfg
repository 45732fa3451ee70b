\* Two background commands race for one slot while a caller acts.
SPECIFICATION Spec
CONSTANTS
    b1 = b1
    b2 = b2
    c1 = c1
    Background = {b1, b2}
    Foreground = {}
    Callers = {c1}
    MaxRunningTasks = 1
    MaxStarts = 2
    MaxCalls = 1
    MaxRestarts = 0
SYMMETRY Symmetry
INVARIANT CapacityHeld
