\* The root and <<a>> share a chain; <<c>> gets its m_prev from that chain.
CONSTANTS
  a = a
  b = b
  c = c
  Component = {a, b, c}
  Name <- FourNames
  Hash <- HashCollide
  Addr = {n1, n2, n3, n4}
  Null = Null
  Content = {}
  NBuckets = 4
  ResizeTo <- NoSizes
  Erasable <- FourNames
SYMMETRY Symmetry
SPECIFICATION Spec
INVARIANT Findable
