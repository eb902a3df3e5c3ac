CONSTANTS
  Matrices <- MCMatrices
  MaxThreads = 4
  PageSize = 4
  Addresses = {0, 2}
SPECIFICATION Spec
CHECK_DEADLOCK FALSE
INVARIANTS
  StringsFillTheirArrays
  EachEntryReferencedOnce
  StringsFollowSchedule
  OwnersMatchPages
