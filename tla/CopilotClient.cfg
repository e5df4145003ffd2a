CONSTANTS
  Account = {a1}
  Conv = {}
  NoConv = noconv
  Random = random
  Turn = {t1, t2}
  Cancellable = {t1, t2}
  MaxPooled = 1
  Nothing = nothing
  MaxGen = 1
  NConns = 2
SPECIFICATION Spec
INVARIANTS ExclusiveConnection NoStaleRoute NothingLeaks
SYMMETRY TurnSymmetry
CHECK_DEADLOCK FALSE
