CONSTANTS
  Proc = {feedr, cli}
  Daemon = feedr
  Source = {wire}
  Url = {u1}
  None = None
  Run = {r1, r2}
  Every = {1}
  StaleAge = 0
  StampLimit = 0
  MaxVersion = 2
SPECIFICATION Spec
SYMMETRY RunSymmetry
INVARIANTS
  TypeOK
  NotModifiedIsTrueUnmoved
  RunsTellTheTruth
