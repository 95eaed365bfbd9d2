CONSTANTS
    c1 = c1
    s1 = s1
    u1 = u1
    Host = Host
    Loop = Loop
    None = None
    Containers = {c1}
    Segments = {s1}
    Users = {u1}
    Limitable <- RaceLimits
    Stoppable = {c1}
    Movable = {c1}
    MayFail = TRUE
    MaxRestarts = 1
SPECIFICATION Spec
INVARIANTS HeldIsPaused FreezeDurable
