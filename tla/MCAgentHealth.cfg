SPECIFICATION FairSpec
CONSTANTS
    a1 = a1
    x1 = x1
    Managed = {a1}
    External = {x1}
    UnhealthyThreshold = 2
    DeadThreshold = 3
    MaxRetries = 2
    MaxPending = 1
    Scenarios <- HealthScenarios
INVARIANTS
    CountIsDeserved
    StatusMatchesCount
PROPERTIES
    DeadStaysDead
    GoneAgentAvoided
CHECK_DEADLOCK FALSE
