SPECIFICATION FairSpec
CONSTANTS
  MaxLines = 4
  MaxCtx = 2
  MaxLimit = 2
  NoLimit = NoLimit
INVARIANTS
  EventsRight
PROPERTIES
  Terminates
