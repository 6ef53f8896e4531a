SPECIFICATION Spec
SYMMETRY Symmetry
CONSTANTS
  p1 = p1
  p2 = p2
  p3 = p3
  f1 = f1
  f2 = f2
  f3 = f3
  Proc = {p1, p2, p3}
  InitProc = p1
  Frame = {f1, f2, f3}
  NCPU = 2
  NoFrame = NoFrame
INVARIANTS NoSharedWritable
