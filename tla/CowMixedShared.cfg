SPECIFICATION Spec
SYMMETRY Symmetry
CONSTANTS
  p1 = p1
  p2 = p2
  p3 = p3
  f1 = f1
  f2 = f2
  f3 = f3
  f4 = f4
  Proc = {p1, p2, p3}
  InitProc = p1
  Frame = {f1, f2, f3, f4}
  NPages = 2
  TextPages = {}
  Value = {"zero"}
  Zero = "zero"
  Junk = "zero"
  Absent = Absent
  NoPage = NoPage
  Forks = {"fork", "forkcow"}
  MixForks = TRUE
  ShrinkToZero = FALSE
INVARIANTS NoSharedWritable
