CONSTANTS
  Request = {r1, r2}
  Kinds = {"chatStream", "responsesStream", "toolLoop", "compact"}
  Offers = {{"header", "previous"}}
  MemSize = 1
  MaxTurns = 2
  MaxConv = 2
  MaxClient = 3
  MaxSwitch = 0
  Faults = FALSE
SPECIFICATION Spec
PROPERTIES StartIffFirst

CHECK_DEADLOCK FALSE
