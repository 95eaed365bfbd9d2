CONSTANTS
    r1 = r1
    r2 = r2
    r3 = r3
    c1 = c1
    c2 = c2
    None = None
    Requests = {r1, r2, r3}
    Containers = {c1, c2}
    Owner <- OwnerOf
    Bids = {2}
    DefaultBid = 1
    MaxQueueSize = 2
    Limited = {c1}
    Timed = {r1}
    Leaving = {}
    Bidding = {c1}
    Cancelling = {c2}
    MayStop = FALSE
SPECIFICATION Spec
INVARIANTS TypeOK
PROPERTIES ImplementsBidQueue
