CONSTANTS
  N = 2
  Caller = {c1}
  PlainHTTP = {1}
SPECIFICATION PoolSpec
INVARIANTS EveryDialIsProxied
