CONSTANTS
  N = 2
  Caller = {c1, c2}
  PlainHTTP = {}
SPECIFICATION PoolFairSpec
INVARIANTS FairShare FailsOver
PROPERTIES EveryCallEnds
