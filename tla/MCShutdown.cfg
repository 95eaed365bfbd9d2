CONSTANTS
    r1 = r1
    r2 = r2
    r3 = r3
    c1 = c1
    c2 = c2
    None = None
    Requests = {r1, r2}
    Containers = {c1}
    Owner <- BothOfOne
    Bids = {1}
    DefaultBid = 1
    MaxQueueSize = 2
    Limited = {c1}
    Timed = {r1}
    Leaving = {r2}
    Bidding = {}
    Cancelling = {c1}
    MayStop = TRUE
SPECIFICATION FairSpec
INVARIANTS AnsweredOnce WithdrawnIsNotServed ReturnedLeavesQueue
PROPERTIES UnansweredIsFree EveryRequestReturns
