CONSTANTS
  Account = {a1, a2}
  NoAccount = none
  Caller = {c1, c2}
  NFlights = 2
  MaxGen = 2
  Hooks = {"sso", "cdp"}
  Interval = FALSE
  Admin = {}
  Faults = {}
SPECIFICATION FairSpec
INVARIANTS OneChromium
PROPERTIES EveryCallReturns
CHECK_DEADLOCK FALSE
