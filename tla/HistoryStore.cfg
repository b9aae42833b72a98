CONSTANTS
  Writers = {w1, w2}
  Sizes = {1, 2}
  Limit = 3
  Calls = 3
  Failures = 1
SPECIFICATION FairSpec
INVARIANTS
  HistoryInv
  DeletedStaysDeleted
PROPERTIES
  UndisturbedFits
  OldestFirst
  RequestsEnd
CHECK_DEADLOCK FALSE
