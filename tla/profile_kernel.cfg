SPECIFICATION Spec
CONSTANTS
  NumThreads = 3
  Runs = 2
INVARIANTS
  TypeOK
  SamplesAreOfTheirRun
  MeasurementCoversKernel
  NoRaceOnEventGroups
  NoFailureSwallowed
PROPERTIES
  TeamFailureReported
CHECK_DEADLOCK FALSE
