SPECIFICATION Spec
CONSTANTS
    w1 = w1
    w2 = w2
    Workflow = {w1}
    StepsOf <- AgentThenHuman
    ResourcesOf <- NoResource
    Verdict = {"success", "failure"}
    MaxFaults = 0
    MaxRedeliveries = 1
    MaxCrashes = 0
INVARIANTS
    HumanStepsApproved
CHECK_DEADLOCK FALSE
