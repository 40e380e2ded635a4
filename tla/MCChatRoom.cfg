SPECIFICATION Spec
CONSTANTS
  a = a
  b = b
  c = c
  Members <- McMembers
  ConnectionOf <- McConnectionOf
  Slots <- McSlots
  ChainLimit = 1
  NumLinks = 2
  Budgets <- McBudgets
CHECK_DEADLOCK FALSE
INVARIANTS
  RoomInv
PROPERTIES
  NobodyWokenAfterStop
  ReactionYields
  RunEnds
  DueIsDecided
