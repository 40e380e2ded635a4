SPECIFICATION Spec
CONSTANTS
  NumJobs = 3
  ServiceOf <- Nai2Codex
  Priority <- LastFirst
  WorkerLimit <- OneWorkerEach
  Awaited <- AllJobs
  MaxCrashes = 1
CHECK_DEADLOCK FALSE
INVARIANTS
  NoWaiterOnTerminalJob
  NoUnforcedDoubleCharge
PROPERTIES
  ImplementsLifecycle
