SPECIFICATION FairSpec
CONSTANTS
  NumWorkers = 3
  Entry <- ForkEntry
  Kind <- ForkKind
  Listing <- ForkListing
  Roots <- TreeTop
  Foreign = {"b"}
  Verdicts = {"Continue", "Quit"}
INVARIANTS
  ActiveCount
  NoLostWakeup
  TasksConserved
  QuietExceptReactivating
  OneLateDirectory
PROPERTIES
  Termination
  ImplementsLooseWalk
