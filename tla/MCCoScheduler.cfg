\* Three jobs of up to three steps and any weight; a priority of 2 with three credits
\* overflows the small IntMax.  No step calls tick.
SPECIFICATION FairSpec
CONSTANTS
  MaxJobs = 3
  MaxSteps = 3
  Priorities = {0, 2}
  IntMax = 5
  MaxDepth = 1
INVARIANTS
  StepsOnceInOrder
  CreditsAddUp
  DoneMeansFinished
  EqualJobsInterleave
PROPERTIES
  RunsToCompletion
\* The program stops when all jobs are done and none is added.
CHECK_DEADLOCK FALSE
