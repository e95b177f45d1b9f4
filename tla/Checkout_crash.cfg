SPECIFICATION LiveSpec
CONSTANTS
  Handler = {h1}
  Paid = {o1}
  Free = {f1}
  Gift = {g1}
  None = none
  Kind = {"confirm", "webhook", "failed", "cancel", "activate", "setPlan"}
  Cap = 2
  Crashes = TRUE
INVARIANT AckedIsPaid
PROPERTY CapturedIsSettled
