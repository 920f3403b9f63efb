SPECIFICATION ReadingSpec
CONSTANTS
  MaxBytes = 5
  Capacity = 4
  Keep = 1
INVARIANTS
  Faithful
  BinaryExact
  AllSearched
  BufferBounded
  StreamExact
PROPERTIES
  Terminates
