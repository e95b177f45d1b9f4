SPECIFICATION HoldsLiveSpec
CONSTANTS
  Gateway = {g1, g2}
  Topic = {t1}
  MaxHolders = 1
  Overlap = FALSE
  SlowBeats = FALSE
  MayEnd = TRUE
INVARIANT WatchedIsKept
PROPERTIES HeldStaysWatched UnheldIsDropped
CHECK_DEADLOCK FALSE
