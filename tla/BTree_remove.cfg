SPECIFICATION Spec
CONSTANTS
  Order = 4
  Rows = {1, 2, 3, 4, 5, 6, 7, 8, 9, 10}
  KeyOf <- Distinct
  Unique = TRUE
  Removable = {1, 2, 3, 4, 5, 6, 7, 8}
  MaxNodes = 9
  Window = 0
  MaxRemovals = 5
INVARIANTS ChildrenExist TypeOK Balanced
CHECK_DEADLOCK FALSE
