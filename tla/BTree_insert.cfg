SPECIFICATION Spec
CONSTANTS
  Order = 4
  Rows = {1, 2, 3, 4, 5, 6, 7, 8, 9, 10}
  KeyOf <- Paired
  Unique = FALSE
  Removable = {}
  MaxNodes = 11
  Window = 0
  MaxRemovals = 0
INVARIANTS LevelsLinked LeavesExact FindExact
PROPERTY Implements
CHECK_DEADLOCK FALSE
