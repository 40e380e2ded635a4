SPECIFICATION Spec
CONSTANTS
  Files = {f1}
  MaxRetries = 2
  BatchSize = 2
  Room = 1
  MaxRemaps = 1
  MaxPrompts = 1
  MaxJobs = 1
  MaxLocks = 1
  MaxRestarts = 1
  MaxFaults = 1
CHECK_DEADLOCK FALSE
INVARIANTS
  TasksInv
  NoLostWakeup
  FailedStaysPrivate
PROPERTIES
  PendingIsDecided
  JobIsAnswered
