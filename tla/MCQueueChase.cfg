SPECIFICATION Spec
CONSTANTS
  NumJobs = 2
  ServiceOf <- Comfy2
  Priority <- SamePriority
  WorkerLimit <- OneWorkerEach
  Awaited <- AllJobs
  MaxCrashes = 1
CHECK_DEADLOCK FALSE
INVARIANTS
  CancelledOrphanIsChased
