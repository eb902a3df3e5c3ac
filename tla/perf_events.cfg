CONSTANTS
  GroupChoices <- MCGroupChoices
  Runs = 2
  MaxTicks = 2
  MAX_EVENT_VALUES = 3
SPECIFICATION Spec
CHECK_DEADLOCK FALSE
INVARIANTS
  PerfTypeOK
  CountsAreOfTheRun
  ReadFailsOnlyForLargeGroups
  
