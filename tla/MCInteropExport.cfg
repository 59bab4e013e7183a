CONSTANTS
  Source = {s1}
  Run = {r1, r2}
  Hash = {h1, h2}
  Item = {i1}
  Cve = {c1}
  None = None
  MaxRevision = 2
SPECIFICATION Spec
CHECK_DEADLOCK FALSE
INVARIANTS
  QuietLinksResolve
  CurrentRevisionResolves
