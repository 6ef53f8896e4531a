SPECIFICATION MCSpec
CONSTANTS
  p1 = p1
  p2 = p2
  Reader = {p1, p2}
  INPUT_BUF = 3
  Modulus = 6
  COLS = 2
  ROWS = 3
  Sizes = {2}
  c1 = c1
  c2 = c2
  t1 = t1
  t2 = t2
  Cpu = {c1, c2}
  Thread = {t1, t2}
  None = None
  NDIRECT = 1
  BSIZE = 2
  FSSIZE = 9
  nmeta = 2
  Inode = {1, 2}
  ImageFiles <- SomeImages
  Sources <- SomeSources
  Core = 5
  HeapMax = 14
  Units = {2, 3, 6}
  MAXARGS = 3
  MaxLine = 5
  Letter = {"a", "b"}
  MaxPattern = 4
  MaxText = 3
  MaxChunks = 2
  DIRSIZ = 3
  MaxPath = 5
  Bits = 5
  p3 = p3
  f1 = f1
  f2 = f2
  f3 = f3
  NoFrame = NoFrame
INVARIANTS  NoInterrupt IntenaOwn ReadsBack BlocksOK HeapOK UniCow   NamesRight NumbersRight
PROPERTY IsLineQueue
