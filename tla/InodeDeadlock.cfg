SPECIFICATION Spec
CONSTANTS
  p1 = p1
  p2 = p2
  Proc = {p1, p2}
  NInum = 3
  NINODE = 3
  Name = {".", "..", "x"}
  Program <- Shared
  None = None
CHECK_DEADLOCK FALSE
INVARIANT NoLockCycle
