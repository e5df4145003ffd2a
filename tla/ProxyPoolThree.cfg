CONSTANTS
  N = 3
  Caller = {c1, c2}
  PlainHTTP = {}
SPECIFICATION PoolSpec
INVARIANTS PoolTypeOK FairShare FailsOver
