CONSTANTS
  Dialects = {"responses"}
  ToolChoices = {"auto"}
  Work = {w1, w2}
  Local = {}
  MaxRounds = 2
  MaxLoop = 3
  MaxCalls = 2
  MaxTurns = 2
  MaxMishaps = 1
  MaxHistory = 4
SPECIFICATION Spec
INVARIANTS SettledRepeatsDropped
CHECK_DEADLOCK FALSE
