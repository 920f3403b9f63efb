SPECIFICATION FilesSpec
CONSTANTS
  NumWorkers = 1
  Entry <- TreeEntry
  Kind <- TreeKind
  Listing <- TreeListing
  Roots <- TreeRoots
  Name <- TreeName
  Special = {"l"}
  Times = {1, 2}
  None = None
  PathBatch = 2
  Foreign = {"x"}
  Verdicts = {"Continue", "SkipDir", "Quit"}
INVARIANTS
  DescentOrder
  TimeSortRight
  FilesGivenOnce
  PathsAllWritten
PROPERTY ImplementsWalk
