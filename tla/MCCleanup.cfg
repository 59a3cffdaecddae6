\* All functions of up to four statements, with every choice of branch and iteration.
SPECIFICATION Spec
CONSTANTS
  Functions <- MCFunctions
INVARIANTS
  LeaksAreReported
  EarlyDestroysAreReported
  UseReportsAreTrue
\* The function returns.
CHECK_DEADLOCK FALSE
