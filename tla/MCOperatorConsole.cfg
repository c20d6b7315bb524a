SPECIFICATION ConsoleSpec
CONSTANTS
    b = b
    r = r
    s = s
    c = c
    d = d
    e1 = e1
    e2 = e2
    Session = {r, s}
    Replay = {r}
    ScenarioRun = {s}
    Watcher = {c, d}
    Definition = {e1, e2}
    EventType = {"detected", "assessed", "approved"}
    Capacity = 1
    Source = {"SIMULATION", "AGENTS"}
    Browser = {b}
    RingSize = 2
    BufSize = 1
    Script <- MCScript
    Following <- MCFollowing
    DefinitionOf <- MCDefinitionOf
    NameOf <- MCNameOf
    Scenarios <- MCScenarios
INVARIANTS
    ConsoleTypeOK
    
    ShownInOrder
    EndIsTold
    CountsStored
    StopCutsShort
PROPERTIES
    OutcomeIsFinal
    SessionsEnd
CHECK_DEADLOCK FALSE
