\* As the tests use the pool: one thread closes and destroys it, and no submit
\* overlaps a close.  A close may have a timeout or none.
SPECIFICATION FairSpec
CONSTANTS
  WorkerCount = 2
  MaxPending = 2
  Job = {j1, j2}
  NoJob = NoJob
  Closer = {owner}
  Owner = owner
  MaxCloses = 2
  Timeouts = {TRUE, FALSE}
  RacingSubmits = FALSE
INVARIANTS
  DrainLeavesNoJob
PROPERTIES
  WorkersLeave
  ClosesReturn
  ImplementsJobQueue
\* The program may stop after destroy, after a failed init, or with idle workers.
CHECK_DEADLOCK FALSE
