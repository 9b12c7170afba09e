\* One chain of up to five nodes, in a table that doubles from one bucket on in
\* the middle of lookups.  Deadlock is checked: the assertions block no step.
CONSTANTS
  a = a
  b = b
  c = c
  Component = {a, b, c}
  Name <- FiveNames
  Hash <- HashConstant
  Addr = {n1, n2, n3, n4, n5}
  Null = Null
  Content = {pit}
  NBuckets = 1
  ResizeTo = {1}
  Erasable <- FiveNames
SYMMETRY Symmetry
SPECIFICATION Spec
INVARIANTS TypeOK SizeCountsEntries ChainsCorrect
PROPERTY LoadBounded LookupStoresPrefixes EraseTakesUnused ImplementsNameTreeSpec
