\* Two workers, a queue of two slots and three jobs that may be submitted while the
\* owner closes the pool in either mode.
SPECIFICATION Spec
CONSTANTS
  WorkerCount = 2
  MaxPending = 2
  Job = {j1, j2, j3}
  NoJob = NoJob
  Closer = {owner}
  Owner = owner
  MaxCloses = 2
  Timeouts = {TRUE}
  RacingSubmits = TRUE
SYMMETRY JobSymmetry
INVARIANTS
  QueueIsFifo
  NoIdleWakeup
  DrainFinishesOwed
  CompletionIsExact
  NoWorkerOutlivesPool
  NobodyIsStranded
\* The program may stop after destroy, after a failed init, or with idle workers.
CHECK_DEADLOCK FALSE
