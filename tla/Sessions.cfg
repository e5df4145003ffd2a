CONSTANTS
  Request = {r1, r2}
  Kinds = {"chatStream", "responsesStream", "toolLoop"}
  Offers = {{"header"}}
  MemSize = 1
  MaxTurns = 3
  MaxConv = 1
  MaxClient = 2
  MaxSwitch = 1
  Faults = TRUE
SYMMETRY AnyRequest
SPECIFICATION Spec
INVARIANTS TypeOK DroppedForGood
PROPERTIES CacheIsMap StartsOnce
CHECK_DEADLOCK FALSE
