CONSTANTS
    Client = {1, 2, 3}
    MaxClock <- Sets211
    MaxRemovals = 1
SPECIFICATION MapSpec
INVARIANTS
    OverwrittenStaysHidden
    LinksAgree
PROPERTIES
    ReadYourWrite
CHECK_DEADLOCK FALSE
