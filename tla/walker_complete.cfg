SPECIFICATION Spec
CONSTANTS
  NumWorkers = 2
  Entry <- ChainEntry
  Kind <- ChainKind
  Listing <- ChainListing
  Roots <- TreeTop
  Foreign = {}
  Verdicts = {"Continue"}
INVARIANT CompleteWalk
