CONSTANTS
    Client = {1, 2, 3}
    Local = 1
    MaxClock = 3
    MaxReceived = 4
    Deps <- MCDeps
    Updates <- MCUpdates
SPECIFICATION Spec
INVARIANTS
    TypeOK
    CausallyClosed
    NodesKept
    CompleteUpdateIsAbsorbed
PROPERTIES
    StateGrows
    ApplyUpdateReturns
CHECK_DEADLOCK FALSE
