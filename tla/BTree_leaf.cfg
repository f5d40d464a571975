SPECIFICATION Spec
CONSTANTS
  Order = 6
  Rows = {1, 2, 3, 4, 5, 6, 7, 8}
  KeyOf <- Paired
  Unique = TRUE
  Removable = {1, 2, 3, 4, 5, 6, 7, 8}
  MaxNodes = 2
  Window = 4
  MaxRemovals = 3
INVARIANT FindLeadsToRow
PROPERTY Implements
CHECK_DEADLOCK FALSE
