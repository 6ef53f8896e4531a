SPECIFICATION MCSpec
SYMMETRY Symmetry
CONSTANTS
  q1 = q1
  q2 = q2
  q3 = q3
  x1 = x1
  x2 = x2
  x3 = x3
  y1 = y1
  y2 = y2
  p1 = p1
  p2 = p2
  Absent = Absent
  NoPage = NoPage
  Proc = {q1, q2, q3}
  Block = {x1, x2, x3, y1, y2}
  Value = {0, 1}
  Zero = 0
  MAXOPBLOCKS = 3
  LOGSIZE = 6
  nlog = 6
  OpBlocks = 2
  NoBlock = NoBlock
INVARIANTS CleanIsHome NoMissedWakeup FitsInSpace 
PROPERTY CrashSafe
