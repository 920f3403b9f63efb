SPECIFICATION Spec
CONSTANTS
  MaxLines = 4
  Prefix = 4
INVARIANTS
  NothingVanishes
  SignalMeansOutput
  StatsExact
PROPERTIES
  ConvertShows
