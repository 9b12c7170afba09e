\* Handles to entries, erased ones included, growth, a resize by clients up and
\* down, and a destructor that deletes whole chains or the first node of each.
\* The heap may be exhausted.
CONSTANTS
  a = a
  b = b
  c = c
  Component = {a, b, c}
  Name <- ThreeNames
  Hash <- HashCollide
  Addr = {n1, n2, n3, n4}
  Null = Null
  Content = {fib}
  NBuckets = 2
  ResizeTo = {6}
  Erasable <- ThreeNames
SYMMETRY Symmetry
SPECIFICATION LifeSpec
INVARIANTS ErasedAreFreed StopsOnStaleHandle DestructorDefined NodesDeleted DestroyedTableLeaks
CHECK_DEADLOCK FALSE
