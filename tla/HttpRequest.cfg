SPECIFICATION Spec
CONSTANTS
  general_header_array <- MCGeneral
  entity_header_array <- MCEntity
  request_header_array <- MCRequest
  Requests <- MCRequests
  Methods <- Words
  Targets <- AllTargets
  MaxLines = 2
CHECK_DEADLOCK FALSE
INVARIANT TypeOK
INVARIANT RightRequest
PROPERTY ParserStops
PROPERTY ParsesProper
