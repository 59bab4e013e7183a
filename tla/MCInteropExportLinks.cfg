CONSTANTS
  Source = {s1}
  Run = {r1}
  Hash = {h1}
  Item = {i1}
  Cve = {c1}
  None = None
  MaxRevision = 2
SPECIFICATION Spec
CHECK_DEADLOCK FALSE
INVARIANT LinksResolve
