CONSTANTS
    c1 = c1
    s1 = s1
    u1 = u1
    Host = Host
    Loop = Loop
    None = None
    Containers = {c1}
    Segments = {}
    Users = {}
    Limitable <- SameTypeLimits
    Stoppable = {}
    Movable = {}
    MayFail = FALSE
    MaxRestarts = 0
SPECIFICATION Spec
PROPERTIES ScopesReleaseFirst
