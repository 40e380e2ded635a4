SPECIFICATION FairSpec
CONSTANTS
  NumJobs = 2
  ServiceOf <- ComfyNai
  Priority <- SamePriority
  WorkerLimit <- OneWorkerEach
  Awaited = {}
  MaxCrashes = 1
CHECK_DEADLOCK FALSE
INVARIANTS
  WorkerHasActiveJob
  SubmittedAtMostOnce
  EvidenceBeforeUpstream
PROPERTIES
  NoSubmitAfterCancel
  CancelledJobEnds
  OrphanIsSettled
