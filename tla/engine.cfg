SPECIFICATION HSpec
CONSTANTS
  Visitors = {v1, v2}
  Files = {f1, f2, f3}
  Workers = {w1, w2}
  MaxLines = 2
  None = None
SYMMETRY Symmetry
INVARIANTS
  NothingLost
  SeparatorsRight
  ExitAgrees
  QuietStops
