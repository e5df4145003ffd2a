CONSTANTS
  Dialects = {"chat", "messages", "responses"}
  ToolChoices = {"auto", "required"}
  Work = {w1, w2}
  Local = {w2}
  MaxRounds = 2
  MaxLoop = 3
  MaxCalls = 2
  MaxTurns = 2
  MaxMishaps = 1
  MaxHistory = 3
SPECIFICATION FairSpec
INVARIANTS TypeOK HonestClientsAccepted RoundsBounded RepeatsStop
PROPERTIES TurnsEnd
CHECK_DEADLOCK FALSE
