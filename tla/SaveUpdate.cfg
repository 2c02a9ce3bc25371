CONSTANTS
    Conn = {c1, c2}
    Op = {o1}
    Cap = 2
    MaxErrors = 1
SPECIFICATION Spec
INVARIANTS
    NothingSkipped
    
PROPERTIES
    ChangesAreSaved
    SaversFinish
CHECK_DEADLOCK FALSE
