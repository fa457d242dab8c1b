SPECIFICATION Spec
CONSTANTS
  Alphabet = {".", "/", "c"}
  MaxLen = 6
  BaseTexts <- MCBases
  RelTexts <- MCRels
  Abandon = "malloc"
CHECK_DEADLOCK FALSE
INVARIANT TypeOK
INVARIANT PathIsReference
PROPERTY ResolveEnds
INVARIANT LoopsLeaveNoDots
