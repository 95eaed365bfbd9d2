CONSTANTS
    c1 = c1
    c2 = c2
    s1 = s1
    s2 = s2
    h1 = h1
    h2 = h2
    None = None
    Containers = {c1, c2}
    Segments = {s1, s2}
    Host = "host"
    Addresses = {"a1", "a2"}
    Listeners = {"l1", "l2", "l3"}
    Sockets = {"p", "q"}
    Socket <- SharedSocket
    Handlers = {h1, h2}
    Worlds <- SmallWorlds
SYMMETRY Alike
SPECIFICATION Spec
INVARIANTS TypeOK WorkersMatchRows SegmentsSound CopiesAgree ListenersReachable AddressOwner
CHECK_DEADLOCK FALSE
