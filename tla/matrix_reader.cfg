CONSTANTS
  Files <- MCFiles
  BufSize = 3
  Block = 2
  TarBufSize = 4
SPECIFICATION Spec
CHECK_DEADLOCK FALSE
INVARIANTS
  MatrixIsThatOfTheFile
  OrderIsReverseCuthillMcKee
PROPERTY
  ReadingEnds
