SPECIFICATION FairAgentsSpec
CONSTANTS
    w1 = w1
    Workflow = {w1}
    StepsOf <- TwoSteps
    MaxFaults = 1
    MaxRedeliveries = 1
    MaxCrashes = 1
INVARIANTS
    RecordsMatchStatus
    OutcomesAgree
    PreviousResultsComplete
PROPERTIES
    WorkflowEnds
    ImplementsLifecycle
CHECK_DEADLOCK FALSE
