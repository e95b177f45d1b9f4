SPECIFICATION LiveSpec
CONSTANTS
  Socket = {s1, s2, s3}
  Topic = {t}
  None = None
  MaxFaults = 2
INVARIANTS TypeOK OneSocketEach SubscribedAnew
PROPERTY StreamComesBack
CHECK_DEADLOCK FALSE
