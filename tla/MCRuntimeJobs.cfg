SPECIFICATION FairSpec
CONSTANTS
  c1 = c1
  c2 = c2
  i1 = i1
  rematch = rematch
  backup = backup
  NoKey = NoKey
  Jobs <- MCJobs
  Kinds <- MCKinds
  KeyOf <- MCKeyOf
  Execution <- MCExecution
  MaxRestarts = 2
  MaxLate = 2
CHECK_DEADLOCK FALSE
INVARIANTS
  OneHandlerPerKey
  NoGhostRow
  CancelledOnlyOnRequest
PROPERTIES
  ImplementsPromise
  OrphanIsClosed
