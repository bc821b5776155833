SPECIFICATION FairSpec
CONSTANTS
  Callers = {c1, c2}
  Work = {w1, w2}
  CancellationDelay = 1
  PollDelay = 1
  RetryDelay = 3
  Interval = 4
  Timeout = 3
INVARIANTS
  TypeOK
  NoLostWakeup
  EarliestDeadlineKept
  PendingWorkIsSoonRevisited
PROPERTIES
  KeepsReconciling
  CancelStops
CHECK_DEADLOCK FALSE
