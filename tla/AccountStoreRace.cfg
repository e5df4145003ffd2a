CONSTANTS
  Account = {a1}
  NoAccount = none
  Caller = {c1, c2}
  NFlights = 2
  MaxGen = 3
  Hooks = {}
  Interval = FALSE
  Admin = {}
  Faults = {}
SPECIFICATION Spec
INVARIANTS RefreshTokenRedeemedOnce
CHECK_DEADLOCK FALSE
