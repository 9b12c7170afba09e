\* A largest int of 7: sizes below, at and above what it can count, and 0, with
\* which the code stops.
CONSTANTS
  SizeRange = 256
  IntMax = 7
  Memory = 40
  HashValues <- SomeHashes
  NBuckets <- SomeSizes
  ResizeTo <- SomeResizes
SPECIFICATION FairSizeSpec
INVARIANTS GrowsWhileInt ZeroOnlyIfAsked EnumeratesWhileInt
PROPERTY EnumerationReturns
CHECK_DEADLOCK FALSE
