SPECIFICATION Spec
SYMMETRY Symmetry
CONSTANTS
  p1 = p1
  p2 = p2
  p3 = p3
  f1 = f1
  f2 = f2
  f3 = f3
  f4 = f4
  Proc = {p1, p2}
  InitProc = p1
  Frame = {f1, f2, f3, f4}
  NPages = 3
  TextPages = {1}
  Value = {"zero", "one"}
  Zero = "zero"
  Junk = "one"
  Absent = Absent
  NoPage = NoPage
  Forks = {"fork", "forkcow"}
  MixForks = FALSE
  ShrinkToZero = FALSE
INVARIANTS IInv NoSharedWritable FreeUnmapped NoVmPanic
PROPERTY Isolation
