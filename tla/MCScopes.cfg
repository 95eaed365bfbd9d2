CONSTANTS
    c1 = c1
    s1 = s1
    u1 = u1
    Host = Host
    Loop = Loop
    None = None
    Containers = {c1}
    Segments = {s1}
    Users = {}
    Limitable <- ScopeLimits
    Stoppable = {}
    Movable = {}
    MayFail = FALSE
    MaxRestarts = 1
SPECIFICATION FairSpec
INVARIANTS ScopeHolds
PROPERTIES AllLevelsRelease ScopeOverStops ScopeUnderResumes
