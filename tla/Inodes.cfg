SPECIFICATION FairSpec
CONSTANTS
  p1 = p1
  p2 = p2
  Proc = {p1, p2}
  NInum = 3
  NINODE = 3
  Name = {".", "..", "x", "d"}
  Program <- Apart
  None = None
INVARIANTS InodesOK NoDangling CacheFresh
 
