SPECIFICATION Spec
CONSTANTS
  general_header_array <- MCGeneral
  entity_header_array <- MCEntity
  request_header_array <- MCRequest
  Requests <- MCRequests
  Methods <- Puts
  Targets <- Plain
  MaxLines = 0
CHECK_DEADLOCK FALSE
PROPERTY ParsesEveryMethod
