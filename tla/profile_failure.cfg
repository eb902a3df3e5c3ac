SPECIFICATION Spec
CONSTANTS
  NumThreads = 2
  Runs = 1
PROPERTIES
  OpenFailureReported
CHECK_DEADLOCK FALSE
