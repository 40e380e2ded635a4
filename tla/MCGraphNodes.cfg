SPECIFICATION FairSpec
CONSTANTS
  wide = wide
  single = single
  Executions <- MCExecutions
  NumNodes = 5
  ExecutionOf <- MCExecutionOf
  DependsOn <- MCDependsOn
  External <- MCExternal
  MaxParallel = 2
  LaneLimit = 1
CHECK_DEADLOCK FALSE
INVARIANTS
  IInv
PROPERTIES
  NoStartAfterStop
  DecidedWhenQuiet
  ImplementsLifecycle
  EveryExecutionEnds
