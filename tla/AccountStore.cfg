CONSTANTS
  Account = {a1}
  NoAccount = none
  Caller = {c1, c2}
  NFlights = 2
  MaxGen = 2
  Hooks = {"sso", "cdp"}
  Interval = TRUE
  Admin = {"login", "delete", "import"}
  Faults = {"net", "disk", "crash"}
SPECIFICATION Spec
INVARIANTS OneLeaderPerAccount NoStrandedWaiter
PROPERTIES SuccessIsSaved DeletedStaysDeleted
SYMMETRY CallerSymmetry
CHECK_DEADLOCK FALSE
