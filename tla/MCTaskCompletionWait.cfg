\* The spin, the backoff and the cap of the code; 250 stands for INT64_MAX, so that
\* sums of sleeps saturate.
SPECIFICATION WaitSpec
CONSTANTS
  SpinCount = 128
  BackoffEvery = 10
  SleepCap = 64
  Int64Max = 250
  Retries <- MCRetries
  Timeouts <- MCTimeouts
INVARIANTS
  TimeoutIsExact
PROPERTIES
  TimeoutEndsWait
\* A wait that returned NoError or an argument error is not repeated.
CHECK_DEADLOCK FALSE
