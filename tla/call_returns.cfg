\* Liveness of calls, without symmetry.  Corrupted tables may stop.
CONSTANTS
  a = a
  b = b
  c = c
  Component = {a, b, c}
  Name <- FourNames
  Hash <- HashCollide
  Addr = {n1, n2, n3, n4}
  Null = Null
  Content = {}
  NBuckets = 2
  ResizeTo <- NoSizes
  Erasable <- FourNames
CHECK_DEADLOCK FALSE
SPECIFICATION FairSpec
PROPERTY CallReturns
