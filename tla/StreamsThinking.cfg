SPECIFICATION FairSpec
CONSTANTS
  Dialects = {"anthropic"}
  MaxChunks = 3
  MaxCalls = 1
  Limits = {0}
INVARIANTS
  ThinkingStopsFirst
CHECK_DEADLOCK FALSE
