CONSTANTS
    c1 = c1
    c2 = c2
    s1 = s1
    h = h
    None = None
    Containers = {c1, c2}
    Segments = {s1}
    Host = h
    Calls = {"k1", "k2"}
    Unit = 2
    Costs = {1}
    OllamaCosts = {1}
    Budgets = {1}
    ScopeLimit <- SmallLimits
    MaxRestarts = 1
    Worlds <- SmallWorlds
SPECIFICATION FairSpec
INVARIANTS TypeOK NeverOvercharged OvershootBounded AccountedOnce
CHECK_DEADLOCK FALSE
PROPERTIES StoreCatchesUp KillSwitch
