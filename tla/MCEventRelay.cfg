CONSTANTS
    x = x  y = y  d = d  c = c  s1 = s1  s2 = s2
    Node = {n1, n2}
    Agent = {x, y}
    DirectEvent = {d}
    CapabilityEvent = {c}
    StepEvent = {s1, s2}
    MaxHops = 2
    Scenarios <- MCScenarios
SYMMETRY Symmetry
SPECIFICATION Spec
INVARIANTS
    TypeOK
    PeersLearn
    RoutedIsStored
    ResultsDoNotBounce
CHECK_DEADLOCK FALSE
