SPECIFICATION SingleFairSpec
CONSTANTS
  Requester = {r1}
  MaxEvents = 0
PROPERTIES
  StopStops
CHECK_DEADLOCK FALSE
