CONSTANTS
  Page = {a, b}
  None = None
  MaxWrites = 5
SPECIFICATION Spec
CHECK_DEADLOCK FALSE
INVARIANTS
  TypeOK
  SnapshotIsOneMoment
