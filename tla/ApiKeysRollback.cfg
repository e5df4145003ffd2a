CONSTANTS
  Worker = {w1, w2}
  Loop = loop
  Nobody = nobody
  KeyId = {k1, k2}
  NoKey = nokey
  MaxOps = 4
  DiskFails = TRUE
SPECIFICATION Spec
INVARIANTS DeleteRollsBack
CHECK_DEADLOCK FALSE
