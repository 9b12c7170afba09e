\* Clients resize the table up and down.  It may stop: a stale m_prev leads to
\* a corrupted table, in which a call can touch deleted memory.
CONSTANTS
  a = a
  b = b
  c = c
  Component = {a, b, c}
  Name <- FourNames
  Hash <- HashCollide
  Addr = {n1, n2, n3, n4}
  Null = Null
  Content = {}
  NBuckets = 4
  ResizeTo <- SomeSizes
  Erasable <- FourNames
SYMMETRY Symmetry
CHECK_DEADLOCK FALSE
SPECIFICATION Spec
INVARIANTS TreeConsistent TableConsistent NamesUnique NeverUndefined ChainsCorrect
