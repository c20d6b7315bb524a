SPECIFICATION AttendedSpec
CONSTANTS
    w1 = w1
    w2 = w2
    Workflow = {w1, w2}
    StepsOf <- HumanOnly
    ResourcesOf <- SharedResource
    Verdict = {"failure"}
    MaxFaults = 0
    MaxRedeliveries = 0
    MaxCrashes = 0
INVARIANTS
    ConflictsMutual
PROPERTIES
    OnlyRequestReopens
    PauseEnds
CHECK_DEADLOCK FALSE
