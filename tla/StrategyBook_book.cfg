SPECIFICATION LiveSpec
CONSTANTS
  Lots <- OneOfTwoLots
  Worker = {w, s}
  Settler = {s}
  MaxWork = 2
  MaxRow = 6
INVARIANTS TypeOK BookedOnce ArchivedIsOver
PROPERTY ExpiredAreSettled
CHECK_DEADLOCK FALSE
