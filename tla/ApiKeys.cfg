CONSTANTS
  Worker = {w1, w2}
  Loop = loop
  Nobody = nobody
  KeyId = {k1, k2}
  NoKey = nokey
  MaxOps = 4
  DiskFails = TRUE
SPECIFICATION FairSpec
INVARIANTS NothingForgotten DeletedForever CreatedIsSaved
PROPERTIES EventuallySaved
CHECK_DEADLOCK FALSE
