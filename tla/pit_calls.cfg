\* Three PIT entries on four names, and a FIB that shares the tree.  A client
\* may remove a PIT entry twice: the program then stops at an assertion.
CONSTANTS
  a = a
  b = b
  c = c
  Component = {a, b, c}
  Name <- PathNames
  Interest <- SomeInterests
  NoInterest = NoInterest
  MatchesName <- SomeMatches
  PitEntry = {e1, e2, e3}
SYMMETRY Symmetry
SPECIFICATION Spec
INVARIANTS TypeOK PendingOnce PathsExact DataMatchesComplete
PROPERTY ImplementsPitSpec
CHECK_DEADLOCK FALSE
