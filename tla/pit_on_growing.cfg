\* The Pit on a table that grows from two buckets.
CONSTANTS
  a = a
  b = b
  c = c
  Component = {a, b, c}
  Name <- PathNames
  Hash <- HashCollide
  Addr = {n1, n2, n3, n4}
  Null = Null
  Content = {"fib", "pit"}
  NBuckets = 2
  ResizeTo <- NoSizes
  Erasable <- PathNames
  Interest <- SomeInterests
  NoInterest = NoInterest
  MatchesName <- SomeMatches
  PitEntry = {e1, e2}
SYMMETRY Symmetry
SPECIFICATION PitOnTableSpec
INVARIANTS DataMatchesAgree QueriesMatchStored DumpShowsTree
PROPERTY ImplementsPit
CHECK_DEADLOCK FALSE
