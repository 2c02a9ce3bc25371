SPECIFICATION Spec
CONSTANTS
  Tasks = {t1, t2}
  Hashes = {a, b, c}
  NoHash = NoHash
  Permits = 5
  MaxUsage = 1
  MaxRequests = 3
SYMMETRY Symmetry
INVARIANTS  CopiesFollow OwnerQuota NoneStuck
CHECK_DEADLOCK FALSE
