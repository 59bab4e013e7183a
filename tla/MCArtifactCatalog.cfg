CONSTANTS
  h1 = h1
  h2 = h2
  a = a
  b = b
  d1 = d1
  d2 = d2
  d3 = d3
  Proc = {p1, p2}
  Hash = {h1, h2}
  Place = {a, b}
  Doc = {d1, d2, d3}
  NoDoc = NoDoc
  Free = Free
  RefsOf <- MCRefsOf
  Rivals <- MCRivals
SPECIFICATION FairSpec
INVARIANTS
  TypeOK
  NoDanglingArtifact
  ProvenanceResolves
  ImmutableVersions
  HonestReply
  NoUnexplainedOrphan
PROPERTIES
  ImplementsContentStore
  EveryCallReturns
