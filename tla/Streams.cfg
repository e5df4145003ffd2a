SPECIFICATION FairSpec
CONSTANTS
  Dialects = {"chat", "completions", "complete", "anthropic", "responses", "compact"}
  MaxChunks = 4
  MaxCalls = 2
  Limits = {0, 1, 2}
INVARIANTS
  TypeOK
  EventsNest
  RoleOnce
  EndsOnce
  ReasonMatchesCalls
PROPERTIES
  StreamEnds
CHECK_DEADLOCK FALSE
