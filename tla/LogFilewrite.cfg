SPECIFICATION Spec
SYMMETRY Symmetry
CONSTANTS
  p1 = p1
  p2 = p2
  p3 = p3
  b1 = b1
  b2 = b2
  b3 = b3
  b4 = b4
  b5 = b5
  b6 = b6
  Proc = {p1, p2}
  Block = {b1, b2, b3, b4, b5, b6}
  Value = {0}
  Zero = 0
  MAXOPBLOCKS = 2
  LOGSIZE = 6
  nlog = 6
  OpBlocks = 3
  NoBlock = NoBlock
INVARIANTS NoLogPanic
