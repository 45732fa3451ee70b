SPECIFICATION Spec
CONSTANTS
    MaxHistory = 5
    MaxDeferred = 1
    MaxCalls = 2
    MaxSteps = 2
    MaxArrivals = 3
    MaxCompactions = 1
INVARIANTS
    DeferredOnlyWhileOpen
    QuietBetweenSteps
    
    InArrivalOrder
    NoMessageCountedTwice
PROPERTIES
    RequestsExtend
    
