CONSTANTS
    c1 = c1
    c2 = c2
    s1 = s1
    h = h
    None = None
    Containers = {c1}
    Segments = {s1}
    Host = h
    Calls = {"k1"}
    Unit = 2
    Costs = {1}
    OllamaCosts = {}
    Budgets = {}
    ScopeLimit <- SmallLimits
    MaxRestarts = 1
    Worlds <- RestartedScopes
SPECIFICATION Spec
PROPERTIES SegmentBlocks
CHECK_DEADLOCK FALSE
