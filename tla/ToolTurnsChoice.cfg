CONSTANTS
  Dialects = {"chat"}
  ToolChoices = {"none"}
  Work = {w1, w2}
  Local = {}
  MaxRounds = 2
  MaxLoop = 3
  MaxCalls = 2
  MaxTurns = 2
  MaxMishaps = 1
  MaxHistory = 3
SPECIFICATION Spec
INVARIANTS NoneMeansNone
CHECK_DEADLOCK FALSE
