SPECIFICATION Spec
CONSTANTS
  Handler = {h1, h2}
  Paid = {o1}
  Free = {f1}
  Gift = {g1}
  None = none
  Kind = {"confirm", "webhook", "failed", "cancel", "activate", "setPlan"}
  Cap = 2
  Crashes = FALSE
SYMMETRY Symmetry
INVARIANTS TypeOK BookedForMoney NeverLeftWithoutPlan
