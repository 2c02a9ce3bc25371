SPECIFICATION Spec
CONSTANTS
    c1 = c1
    s = s
    p1 = p1
    Client = {c1}
    Server = s
    Peer = {p1}
    Home <- MCHome
    Op <- MCOp
    Clock <- MCClock
    Cap = 1
    MaxChanges = 2
    MaxDrops = 1
INVARIANTS InSync
PROPERTIES NeverOlder EditsArrive 
CHECK_DEADLOCK FALSE
