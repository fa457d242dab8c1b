SPECIFICATION Spec
CONSTANTS
  Strings = {s1, s2}
  Blocks = {b1, b2}
  Literal = literal
  LiteralText <- MCOneChar
  NoBlock = noblock
  Zero = "zero"
  Junk = "zero"
  MaxSize = 3
  MaxRead = 1
CHECK_DEADLOCK FALSE
INVARIANT TypeOK
INVARIANT InBounds
INVARIANT OwnersApart
PROPERTY AddAppends
SYMMETRY Symmetry
CONSTRAINT HeapBound
