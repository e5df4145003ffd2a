CONSTANTS
  Account = {a1}
  Conv = {}
  NoConv = noconv
  Random = random
  Turn = {t1, t2}
  Cancellable = {t1}
  MaxPooled = 1
  Nothing = nothing
  MaxGen = 0
  NConns = 2
SPECIFICATION FairSpec
PROPERTIES EveryTurnEnds
CHECK_DEADLOCK FALSE
