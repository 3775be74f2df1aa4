SPECIFICATION Spec
CONSTANTS
  LinkOrder <- MCLinkOrder
  LinkStates <- MCLinkStates
  QueueCap = 4
  MaxChanges = 1
INVARIANTS
  Converges
CHECK_DEADLOCK FALSE
