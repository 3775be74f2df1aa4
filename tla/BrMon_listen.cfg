SPECIFICATION Spec
CONSTANTS
  LinkOrder <- MCLinkOrder
  LinkStates <- MCLinkStates
  QueueCap = 2
  MaxChanges = 5
INVARIANTS
  ViewAccounted
PROPERTIES
  DumpEnds
CHECK_DEADLOCK FALSE
