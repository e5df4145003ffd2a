CONSTANTS
  Request = {r1, r2}
  Kinds = {"chat", "chatStream", "toolLoop", "messages", "completion", "responses", "responsesStream", "compact", "imageEdit"}
  Offers = {{"model", "user"}, {"previous", "header"}}
  MemSize = 1
  MaxTurns = 2
  MaxConv = 1
  MaxClient = 2
  MaxSwitch = 0
  Faults = TRUE
SYMMETRY AnyRequest
SPECIFICATION Spec
INVARIANTS TypeOK DroppedForGood
PROPERTIES CacheIsMap StartsOnce
CHECK_DEADLOCK FALSE
