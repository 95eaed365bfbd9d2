CONSTANTS
    c1 = c1
    c2 = c2
    None = None
    Containers = {c1, c2}
    h1 = h1
    h2 = h2
    Handlers = {h1, h2}
    Amounts <- Values
    MaxLimit = 2
    MaxUsage = 1
    Worlds <- SmallWorlds
    PlainKeys = {"provider", "webhooks"}
    Provider = "provider"
    Wrong = Wrong
    Unset = Unset
    MaxKeys = 2
SYMMETRY AnyHandler
SPECIFICATION Spec
INVARIANTS TypeOK KeepsConsistent EachWithinHost BudgetIsLimit 
CHECK_DEADLOCK FALSE
