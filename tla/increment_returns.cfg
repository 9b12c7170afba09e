\* Termination of operator++; without symmetry, which liveness does not allow.
CONSTANTS
  a = a
  b = b
  c = c
  Component = {a, b, c}
  Name <- BranchNames
  Hash <- HashMoving
  Addr = {n1, n2, n3}
  Null = Null
  Content = {}
  NBuckets = 4
  ResizeTo <- NoSizes
  Erasable <- BranchNames
  ItType = {"full", "partial", "all"}
  Selector <- AllButOne
  SubSelector <- Everything
SPECIFICATION FairItSpec
PROPERTY IncrementReturns
CHECK_DEADLOCK FALSE
