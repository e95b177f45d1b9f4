SPECIFICATION LiveSpec
CONSTANTS
  Pass = {job, button}
  Job = job
  Page = 1
  MaxPages = 1
  NewerCap = 2
  MaxFill = 5
  MaxFaults = 1
INVARIANT NothingSkipped
PROPERTY HistoryIsRead
