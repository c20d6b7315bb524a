CONSTANTS
    t1 = t1  t2 = t2  t3 = t3  v = v
    c = c  d = d
    Instance = {1, 2}
    Step = {1, 2, 3}
    Workflow = {1, 2, 3}
    LocalTask = {t1, t2, t3}
    VirtualTask = {v}
    SSEClient = {c}
    WSClient = {d}
    CacheSize = 2
    Capacity = 1
    HandlerResult = {"empty"}
    Scenarios <- OnePing
SPECIFICATION Spec
INVARIANT
    PingsAnswered
CHECK_DEADLOCK FALSE
