SPECIFICATION FairSpec
CONSTANTS
  p1 = p1
  p2 = p2
  k1 = k1
  k2 = k2
  k3 = k3
  b1 = b1
  b2 = b2
  Proc = {p1, p2}
  Buf = {b1, b2}
  Block = {k1, k2, k3}
  Value = {0, 1}
  Zero = 0
  MaxPinned = 1
  BadBlock = {k1}
  None = None
INVARIANTS CacheOK NoBufferLost
PROPERTIES IsStore BreadReturns
