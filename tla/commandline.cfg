SPECIFICATION Spec
CONSTANTS
  MaxInt = 15
  Kilo = 2
  Alphabet <- MCAlphabet
  MaxClassSize = 2
  MaxExpanded = 4
  DefaultTypes <- MCDefaultTypes
  Listing <- MCListing
  Device <- MCDevice
  PathTo <- MCPathTo
  DirAt <- MCDirAt
  Cwd <- MCCwd
  ArgLists <- MCArgLists
  Worlds <- MCWorlds
INVARIANTS CommandLineObeyed GlobsMeanWhatTheySay IgnorePrecedence TypesLastWin EntryDecided
