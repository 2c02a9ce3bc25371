SPECIFICATION Spec
CONSTANTS
  b1 = b1 b2 = b2 b3 = b3
  Block = {b1, b2, b3}
  Flavour = {f2}
  FirstFlavour = f1
  Task = {t1, t2, t3}
  Holder = {b1}
  Mark = {b3}
  Position = {1}
  Loaded <- MCLoaded
  FirstKids <- MCFirstKids
  MaxOps = 3
  None = None
SYMMETRY MCSymmetry
INVARIANTS NoHalfBlock AsAsked LoggedAsThere
CHECK_DEADLOCK FALSE
