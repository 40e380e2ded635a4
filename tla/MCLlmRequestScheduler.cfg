SPECIFICATION FairSpec
CONSTANTS
  NumRequests = 5
  Concurrencies <- MCConcurrencies
CHECK_DEADLOCK FALSE
INVARIANTS
  SlotsWithinLimit
PROPERTIES
  ImplementsService
  EveryWaiterServed
