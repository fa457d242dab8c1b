SPECIFICATION Spec
CONSTANTS
  HeaderLen = 2
  RequestSize = 3
  ResponseLen = 1
  MaxConns = 2
  ClientMax = 2
INVARIANT AnsweredInFull
CHECK_DEADLOCK FALSE
