SPECIFICATION Spec
CONSTANTS
  Pointer = {"p"}
  Functions <- MCFunctions
INVARIANTS
  MoveReportsAreExact
  NullReportsAreRight
CHECK_DEADLOCK FALSE
