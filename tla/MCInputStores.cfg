SPECIFICATION Spec
CONSTANTS
  Jobs = {1, 2}
  Blobs = {b1}
  Drafts = {d1}
  Copies = {c1}
  Processes = {worker}
  Worker = worker
  Retain = 0
  MaxCrashes = 1
CHECK_DEADLOCK FALSE
INVARIANTS
  BlobInv
  AssetsOfJobsAreThere
  CopyWaitsForItsNode
PROPERTIES
  DraftOutlivesExecutions
