SPECIFICATION AttendedSpec
CONSTANTS
    w1 = w1
    w2 = w2
    Workflow = {w1}
    StepsOf <- AgentThenTwo
    ResourcesOf <- NoResource
    Verdict = {"success"}
    MaxFaults = 0
    MaxRedeliveries = 0
    MaxCrashes = 0
PROPERTIES
    ApprovedResumes
CHECK_DEADLOCK FALSE
