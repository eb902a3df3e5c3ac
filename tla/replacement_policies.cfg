SPECIFICATION CompareSpec
CONSTANTS
  CacheLines = 3
  SmallerCacheLines = 2
  CacheLineSize = 2
  Addresses <- MCAddresses
INVARIANTS
  PoliciesTypeOK
  SetMatchesQueue
  LargerLRUIncludesSmaller
  FifoSetMatchesQueue
  FilledToCapacity
PROPERTIES
  RefinesAbstractLRU
  FirstReferenceMisses
