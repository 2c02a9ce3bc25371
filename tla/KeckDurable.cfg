SPECIFICATION Spec
CONSTANTS
  Tasks = {t1, t2}
  TrimLimit = 2
  Permits = 1
  MaxRequests = 2
SYMMETRY Symmetry
CHECK_DEADLOCK FALSE
INVARIANT RestWritesDurable
