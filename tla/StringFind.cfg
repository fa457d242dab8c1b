SPECIFICATION FindSpec
CONSTANTS
  Chars = {"a", "b"}
  TextLen = 6
  SearchLen = 4
  Inputs <- MCInputs
CHECK_DEADLOCK FALSE
INVARIANT FindTypeOK
INVARIANT FindsFirst
PROPERTY Terminates
