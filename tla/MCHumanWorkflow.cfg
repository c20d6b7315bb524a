SPECIFICATION Spec
CONSTANTS
    w1 = w1
    w2 = w2
    Workflow = {w1, w2}
    StepsOf <- EitherTwoSteps
    ResourcesOf <- SharedResource
    Verdict = {"success", "failure"}
    MaxFaults = 1
    MaxRedeliveries = 1
    MaxCrashes = 1
CONSTRAINT OneStarted
INVARIANTS
    ResolvedOnce
    ApprovalsAreReal
    PausedIsVisible
CHECK_DEADLOCK FALSE
