SPECIFICATION FairSpec
CONSTANTS
    p = p
    q = q
    x = x
    Node = {p, q}
    Agent = {x}
    Home <- MCHome
    UnhealthyThreshold = 1
    DeadThreshold = 2
    Scenarios <- MCScenarios
INVARIANTS
    TypeOK
    DeadNodesArePurged
PROPERTIES
    DeadUntilRegistered
    DepartedIsForgotten
CHECK_DEADLOCK FALSE
