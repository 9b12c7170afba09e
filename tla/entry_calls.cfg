\* Up to three PIT entries in two lists together, repeated ones included.
CONSTANTS
  EntryObj = {e1, e2}
  Fib = {f1, f2}
  Pit = {p1, p2}
  Measurements = {m1}
  Null = Null
  MaxPit = 3
SPECIFICATION Spec
SYMMETRY Symmetry
PROPERTY ImplementsEntrySpec
