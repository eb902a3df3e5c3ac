CONSTANTS
  Inputs <- MCInputs
SPECIFICATION Spec
CHECK_DEADLOCK FALSE
INVARIANTS
  TreeIsTheText
  NoElementLost
