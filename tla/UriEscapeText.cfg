SPECIFICATION Spec
CONSTANTS
  Bytes = {37, 47, 49, 52, 65}
  MaxLen = 6
  Texts <- MCTexts
CHECK_DEADLOCK FALSE
INVARIANT TypeOK
INVARIANT EscapeDecodes
INVARIANT UnescapesUnreserved
