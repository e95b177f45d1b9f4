SPECIFICATION Spec
CONSTANTS
  Conn = {c1, c2, c3}
  Topic = {t1, t2}
  None = None
  Loop = {l1, l2}
  MaxMessage = 2
  MaxTopics = 1
  MaxOpen = 2
SYMMETRY Symmetry
INVARIANTS TypeOK HoldsBalance NoSilentTopic
