CONSTANTS
  Order <- MCOrder
  None = None
  MaxWrites = 2
SPECIFICATION Spec
CHECK_DEADLOCK FALSE
INVARIANTS
  TypeOK
  WholeWhenDone
  ChangedCatalogIsKept
  SidecarsAreKept
  OpensWhenDone
PROPERTY NothingOverwritten
