\* Four threads that may each wait and signal.  PermitModulus = 3 stands for
\* 2^32, so that the fourth signal wraps the counter around.
SPECIFICATION FairSpec
CONSTANTS
  Thread = {t1, t2, t3, t4}
  Free = Free
  PermitModulus = 3
  MaxSignals = 4
INVARIANTS
  PermitAccounting
  NoLostWakeup
PROPERTIES
  PermitsGetUsed
  ImplementsCountingGate
\* Every thread may sleep in ic_gate_wait with nobody left to signal.
CHECK_DEADLOCK FALSE
