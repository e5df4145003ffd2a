CONSTANTS
  Account = {a1, a2}
  NoAccount = none
  Request = {r1}
  Nobody = nobody
  Limits = {2}
  MaxProbe = 2
  Reports = {FALSE}
  MaxEvents = 1
SPECIFICATION Spec
PROPERTIES NextAccountTakesOver
CHECK_DEADLOCK FALSE
