SPECIFICATION StreamSpec
CONSTANTS
  Gateway = {g1, g2}
  Browser = {b1}
  Nothing = nothing
  MaxChanges = 2
  MaxFaults = 1
  MaxWire = 1
SYMMETRY Symmetry
INVARIANTS StreamTypeOK NeverMixed CaughtUp ResetByLeader
