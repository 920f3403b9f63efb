SPECIFICATION HSpec
CONSTANTS
  Visitors = {v1, v2}
  Files = {f1, f2}
  MaxLines = 2
  MaxContext = 1
  None = None
INVARIANT OneMoreEach
