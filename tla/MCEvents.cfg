CONSTANTS
    Clients = {"a", "b"}
    Publishers = {"p", "q"}
    Kinds <- BothKinds
    Filters <- AllFilters
    BufferSize = 2
    Asks <- AsksOf
    Emits <- EmitsOf
    Stallers = {"a"}
    MaxEvents <- FewEvents
    None = None
SPECIFICATION FairSpec
INVARIANTS TypeOK
PROPERTIES ImplementsStreams PublishersReturn HandlersLeave
