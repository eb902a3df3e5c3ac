CONSTANTS
  Matrices <- MCMatrices
  X <- MCX
  MaxThreads = 3
  Runs = 2
SPECIFICATION Spec
CHECK_DEADLOCK FALSE
INVARIANTS
  TypeOK
  NoDataRace
  RunAddsProduct
PROPERTY
  TeamFinishes
