SPECIFICATION MCSpec
CONSTANTS
  p1 = p1
  p2 = p2
  p3 = p3
  c1 = c1
  c2 = c2
  f1 = f1
  f2 = f2
  Absent = Absent
  NoPage = NoPage
  Proc = {p1, p2, p3}
  InitProc = p1
  CPU = {c1, c2}
  MaxTicks = 1
  AnyPid = FALSE
  None = None
INVARIANTS HasParent WaitWoken  Exact
PROPERTIES KilledExits SleepEnds 
