SPECIFICATION Spec
CONSTANTS
  Object = {1, 2, 3, 4}
  Setups <- OneDeleted
INVARIANT DeletesReachTheCache
CHECK_DEADLOCK FALSE
