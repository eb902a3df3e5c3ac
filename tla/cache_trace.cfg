SPECIFICATION Spec
CONSTANTS
  CacheOrder <- MCCacheOrder
  CacheSize <- MCCacheSize
  LineSize <- MCLineSize
  NumThreads = 2
  NumNumaDomains = 2
  StringChoices <- MCStrings
  NoCache = NoCache
  UnknownCache = UnknownCache
INVARIANTS
  TypeOK
  RowsFollowHierarchy
  MissesShrinkTowardsRoot
PROPERTIES
  HierarchicalTraceTerminates
CHECK_DEADLOCK FALSE
