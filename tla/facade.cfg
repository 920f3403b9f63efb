SPECIFICATION HSpec
CONSTANTS
  Visitors = {v1, v2}
  Files = {f1, f2}
  MaxLines = 3
  MaxContext = 1
  None = None
SYMMETRY Symmetry
INVARIANTS
  Complete
  ContextRight
  VerbsRight
PROPERTY
  ZeroAfterSelfCancel
