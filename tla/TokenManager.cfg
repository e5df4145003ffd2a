SPECIFICATION SingleFairSpec
CONSTANTS
  Requester = {r1}
  MaxEvents = 2
INVARIANTS
  TokenKept
PROPERTIES
  TokensComeBack
