\* Every allocation can fail; two growths.  The heap may be exhausted.
CONSTANTS
  a = a
  b = b
  c = c
  Component = {a, b, c}
  Name <- FourNames
  Hash <- HashCollide
  Addr = {n1, n2, n3, n4, n5}
  Null = Null
  Content = {fib}
  NBuckets = 2
  ResizeTo = {4}
  Erasable <- FourNames
  Failures = {"node", "entry", "hook", "buckets"}
SYMMETRY Symmetry
CHECK_DEADLOCK FALSE
SPECIFICATION FailureSpec
INVARIANTS FailuresKeepChains FailuresAbortKnown
