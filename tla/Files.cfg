\* A disk of five nodes that changes twice, under a search with a bound of
\* two matches and one level, or under the file manager.
CONSTANTS
  Nodes = {1, 2, 3, 4, 5}
  Root = 0
  Up <- TreeUp
  MaxChanges = 2
  RootIsDrive = TRUE
  Typed <- TypedPaths
  Filters <- FilterSets
  MaxHistory = 2
  MaxNotices = 1
  Nothing = Nothing
  Matching = {2, 3, 4, 5}
  MaxDepth = 1
  MaxResults = 2
  WindowDisks <- FewDisks
  Disks <- AllDisks
SPECIFICATION FilesSpec
INVARIANTS
  ScreenIsOfOneDirectory
  QuietSearchIsExact
  SearchMissesNothingThatStayed
PROPERTY BackAndForwardKeepTheTape
CHECK_DEADLOCK FALSE
