\* All kinds of enumerations, across a growth of the table in the middle of a
\* lookup().  The heap may be exhausted when the iterator keeps erased entries.
CONSTANTS
  a = a
  b = b
  c = c
  Component = {a, b, c}
  Name <- FiveNames
  Hash <- HashParting
  Addr = {n1, n2, n3, n4}
  Null = Null
  Content = {pit}
  NBuckets = 4
  ResizeTo <- NoSizes
  Erasable <- FiveNames
  ItType = {"full", "partial", "all"}
  Selector <- ButOne
  SubSelector <- AllButRoot
SYMMETRY Symmetry
SPECIFICATION ItSpec
INVARIANTS ItTypeOK EnumerationComplete EnumeratesOnce EnumeratesWanted IncrementDefined
CHECK_DEADLOCK FALSE
