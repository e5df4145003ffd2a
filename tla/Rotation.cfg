CONSTANTS
  Account = {a1, a2}
  NoAccount = none
  Request = {r1, r2}
  Nobody = nobody
  Limits = {0, 2}
  MaxProbe = 2
  Reports = {TRUE, FALSE}
  MaxEvents = 2
SPECIFICATION FairSpec
INVARIANTS UnusableAccountsSkipped
PROPERTIES PinnedAccountIsStable NoAccountStarves EveryRequestAnswered
CHECK_DEADLOCK FALSE
