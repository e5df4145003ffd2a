CONSTANTS
  Account = {a1}
  Conv = {v1}
  NoConv = noconv
  Random = random
  Turn = {t1}
  Cancellable = {t1}
  MaxPooled = 1
  Nothing = nothing
  MaxGen = 0
  NConns = 2
SPECIFICATION Spec
INVARIANTS PooledIsNotClosed
CHECK_DEADLOCK FALSE
