SPECIFICATION Spec
CONSTANTS
  Leg = {l1, l2}
  Short = {l1}
  Rule = {r1}
  None = None
  Pass = {p1}
  Click = {c1}
  Tries = 2
  MaxAttempt = 2
  MaxFaults = 1
CHECK_DEADLOCK FALSE
INVARIANTS TypeOK ClosedIsFilled Accounted
PROPERTY EngineSendsNoSecond
