\* Three threads that may each wait, signal and reset; two resets.
SPECIFICATION FairSpec
CONSTANTS
  Thread = {t1, t2, t3}
  Free = Free
  MaxResets = 2
INVARIANTS
  NoSleeperWhileSignaled
PROPERTIES
  StickySignalReleases
  ImplementsEvent
\* Every thread may sleep in ic_broadcast_wait with nobody left to signal.
CHECK_DEADLOCK FALSE
