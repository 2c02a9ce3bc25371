SPECIFICATION SetsSpec
CONSTANTS
  MaxItems = 5
  MaxBatch = 2
  Arrivals = {2, 5}
  Vacant = Vacant
INVARIANTS  AddingKeepsOrder
PROPERTIES ReportsTheDifference
CHECK_DEADLOCK FALSE
