CONSTANTS
  Order <- MCOrder
  None = None
  MaxWrites = 0
SPECIFICATION Spec
CHECK_DEADLOCK FALSE
INVARIANT RestoredOpens
