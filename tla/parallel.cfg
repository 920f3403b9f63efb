SPECIFICATION Spec
CONSTANTS
  MaxBytes = 6
  MaxLimit = 2
  NoLimit = NoLimit
  MaxWorkers = 4
  MinBytes = 2

PROPERTIES
  ImplementsMatchStream
