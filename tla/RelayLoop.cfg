CONSTANTS
    x = x  y = y  d = d  c = c  s1 = s1  s2 = s2
    Node = {n1, n2}
    Agent = {x, y}
    DirectEvent = {d}
    CapabilityEvent = {c}
    StepEvent = {s1, s2}
    MaxHops = 2
    Scenarios <- Loop
SYMMETRY Symmetry
SPECIFICATION Spec
INVARIANT
    RelayedAtMostOnce
CHECK_DEADLOCK FALSE
