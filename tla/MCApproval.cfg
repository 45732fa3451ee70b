\* The main agent and one member, which ask twice between them.
SPECIFICATION FairSpec
CONSTANTS
    Main = main
    m1 = m1
    Members = {m1}
    KeepAlive = FALSE
    Answers = {"once", "denied"}
    MaxAsks = 2
INVARIANT PendingHasAsker
 
PROPERTY DecisionReachesAsker
