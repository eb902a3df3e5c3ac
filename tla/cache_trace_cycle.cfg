SPECIFICATION Spec
CONSTANTS
  CacheOrder <- MCCacheOrder
  CacheSize <- MCCacheSize
  LineSize <- MCLineSize
  NumThreads = 2
  NumNumaDomains = 2
  StringChoices <- MCStrings
  NoCache = NoCache
  UnknownCache = UnknownCache
PROPERTIES
  AcceptedTraceTerminates
CHECK_DEADLOCK FALSE
