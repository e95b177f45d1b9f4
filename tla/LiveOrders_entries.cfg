SPECIFICATION LiveSpec
CONSTANTS
  Leg = {l1}
  Short = {}
  None = none
  Request = {q1, q2}
  Syncer = {s1}
  Key = {k1}
  Price = {1, 2}
  MaxAttempt = 2
  MaxOrder = 2
  MaxFaults = 1
CHECK_DEADLOCK FALSE
INVARIANTS TypeOK NotForgotten BooksTellTruth EnteredOnce
PROPERTY SyncPutsRight
