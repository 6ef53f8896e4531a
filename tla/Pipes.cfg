SPECIFICATION Spec
CONSTANTS
  p1 = p1
  p2 = p2
  x1 = x1
  Proc = {p1, p2}
  InitProc = p1
  NFILE = 3
  NOFILE = 2
  Pipe = {x1}
  PIPESIZE = 2
  Modulus = 4
  Byte = {0, 1}
  Messages <- SomeMessages
  Sizes = {1, 3}
  None = None
INVARIANTS FilesOK SleepersRight
PROPERTIES IsQueue
CHECK_DEADLOCK FALSE
