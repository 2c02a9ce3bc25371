CONSTANTS
    Client = {1, 2}
    MaxClock <- Sets11
    MaxRemovals = 0
SPECIFICATION MapSpec
INVARIANT MapsConverge
CHECK_DEADLOCK FALSE
