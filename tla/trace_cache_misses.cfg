SPECIFICATION TraceSpec
CONSTANTS
  CacheLines = 2
  CacheLineSize = 2
  Addresses <- MCAddresses
  References <- MCReferences
  P = 2
  NumNumaDomains = 2
  MaxLength = 3
INVARIANTS
  TraceTypeOK
  MissesMatchReuseDistance
  WarmupNeverAddsMisses
  NeverKilled
  ReportsKeepComing

  
CHECK_DEADLOCK FALSE
