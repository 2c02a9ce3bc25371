CONSTANTS
    Client = {1, 2, 3}
    MaxClock <- Clocks211
    MaxLen = 2
    MaxRemovals = 1
SPECIFICATION ListSpec
INVARIANTS
    OriginsKept
    NodesWhole
    DeletedWereRemoved
    ListsConverge
    ContentConverges
CHECK_DEADLOCK FALSE
